---------------------------- MODULE AnswerProofs ----------------------------
(***************************************************************************)
(* What callers of the admission service are told is true: for every set   *)
(* of calls, every bound and every fault.                                  *)
(***************************************************************************)
EXTENDS AdmissionProofs

IsInit(r) == call[r].op = "InitLedger"

(* The record r is about to insert belongs to its call, and lies above the  *)
(* rows that beat its earlier attempts.                                     *)
Built(r) ==
    /\ rec[r].ledger = call[r].ledger
    /\ IsInit(r) => rec[r].seq = 1
    /\ ~IsInit(r) => /\ rec[r].payload = call[r].payload
                     /\ rec[r].seq > base[r] + attempt[r]

RowStored(l, n) == \E y \in store : y.ledger = l /\ y.seq = n

(* The ledger of r has grown by at least n rows since r first read its head. *)
Grown(r, n) ==
    \E y \in store : y.ledger = call[r].ledger /\ y.seq >= base[r] + n

(* What r knows when its INSERT has been executed. *)
Executed(r) ==
    /\ outcome[r] = "stored" => rec[r] \in store /\ wrote[r] = {rec[r]}
    /\ outcome[r] # "stored" => wrote[r] = {}
    /\ outcome[r] = "ErrDuplicateRecord" => rec[r] \in store
    /\ outcome[r] \in {"ErrDuplicateRecord", "ErrChainHeadMoved"} =>
          RowStored(call[r].ledger, rec[r].seq)

(* What r's answer says. *)
Answered(r) ==
    /\ \A x, y \in wrote[r] : x = y
    /\ reply[r] = "ok" => /\ Built(r)
                          /\ rec[r] \in store
                          /\ IsInit(r) => rec[r] \in wrote[r]
    /\ reply[r] \notin InDoubt \cup {"ok"} => wrote[r] = {}
    /\ reply[r] = "ErrLedgerAlreadyInitialized" =>
          RowStored(call[r].ledger, 1)
    /\ reply[r] = "exceeded retries" => Grown(r, MaxRetries + 1)

RequestInv(r) ==
    /\ pc[r] \in {"idle", "attempt", "append"} => wrote[r] = {}
    /\ pc[r] # "done" <=> reply[r] = "none"
    /\ /\ pc[r] \in {"attempt", "append", "acked"}
       /\ ~IsInit(r) /\ attempt[r] # 0
       => Grown(r, attempt[r])
    /\ pc[r] = "idle" => attempt[r] = 0
    /\ pc[r] \in {"append", "acked"} => Built(r)
    /\ pc[r] = "acked" => Executed(r)
    /\ pc[r] = "done" => Answered(r)

(* A statement that outlived its call is the call's only one, and the call  *)
(* was answered with doubt.                                                 *)
LateInv ==
    /\ \A w \in late : /\ pc[w.by] = "done"
                       /\ reply[w.by] \in InDoubt
                       /\ wrote[w.by] = {}
    /\ \A v, w \in late : v.by = w.by => v = w

(* No row was written by two calls. *)
OneWriter == \A r, q \in Requests : r # q => wrote[r] \cap wrote[q] = {}

AnswerInv == (\A r \in Requests : RequestInv(r)) /\ LateInv /\ OneWriter

-----------------------------------------------------------------------------
(* A call keeps its invariant while others act and the store grows. *)
LEMMA Frame ==
    ASSUME NEW q \in Requests, RequestInv(q), store \subseteq store',
           pc'[q] = pc[q], call'[q] = call[q], attempt'[q] = attempt[q],
           rec'[q] = rec[q], outcome'[q] = outcome[q], reply'[q] = reply[q],
           base'[q] = base[q], wrote'[q] = wrote[q]
    PROVE  RequestInv(q)'
<1>1. \A n : Grown(q, n) => Grown(q, n)'
  BY Zenon DEF Grown
<1>2. \A l, n : RowStored(l, n) => RowStored(l, n)'
  BY Zenon DEF RowStored
<1>3. Built(q) => Built(q)'
  BY Zenon DEF Built, IsInit
<1>4. Executed(q) => Executed(q)'
  BY Zenon, <1>2 DEF Executed
<1>5. Answered(q) => Answered(q)'
  BY Zenon, <1>1, <1>2, <1>3 DEF Answered, IsInit
<1> QED
  BY Zenon, <1>1, <1>3, <1>4, <1>5 DEF RequestInv, IsInit

(* The step is r's: the other calls stay as they are, and a row that is     *)
(* stored is credited to r.                                                 *)
OthersStay(r) ==
    /\ store \subseteq store'
    /\ \A q \in Requests \ {r} :
          /\ pc'[q] = pc[q] /\ call'[q] = call[q] /\ attempt'[q] = attempt[q]
          /\ rec'[q] = rec[q] /\ outcome'[q] = outcome[q]
          /\ reply'[q] = reply[q] /\ base'[q] = base[q] /\ wrote'[q] = wrote[q]
    /\ wrote'[r] \subseteq wrote[r] \cup (store' \ store)

(* The row that a step of r stores is new, so no other call wrote it. *)
LEMMA OneWriterStep ==
    ASSUME TypeOK, OneWriter, NEW r \in Requests, OthersStay(r)
    PROVE  OneWriter'
<1> SUFFICES ASSUME NEW q \in Requests, NEW p \in Requests, q # p, NEW x,
                    x \in wrote'[q], x \in wrote'[p]
             PROVE  FALSE
  BY Zenon DEF OneWriter
<1>1. \A t \in Requests : wrote[t] \subseteq store
  BY Zenon DEF TypeOK
<1>2. \A t \in Requests : wrote'[t] \subseteq wrote[t] \cup (store' \ store)
  BY Zenon DEF OthersStay
<1>3. \A t \in Requests \ {r} : wrote'[t] = wrote[t]
  BY Zenon DEF OthersStay
<1>4. CASE q # r
  BY Zenon, <1>1, <1>2, <1>3, <1>4 DEF OneWriter
<1>5. CASE p # r
  BY Zenon, <1>1, <1>2, <1>3, <1>5 DEF OneWriter
<1> QED
  BY Zenon, <1>4, <1>5

(* A step of a call that is not done concerns no late statement. *)
LEMMA LocalStep ==
    ASSUME TypeOK, AnswerInv, NEW r \in Requests, pc[r] # "done",
           OthersStay(r), UNCHANGED late, RequestInv(r)'
    PROVE  AnswerInv'
<1>1. \A q \in Requests : RequestInv(q)'
  BY Zenon, Frame DEF AnswerInv, OthersStay
<1>2. \A w \in late : w.by \in Requests \ {r}
  BY Zenon DEF TypeOK, AnswerInv, LateInv
<1>3. LateInv'
  BY <1>2 DEF AnswerInv, LateInv, OthersStay
<1>4. OneWriter'
  BY Zenon, OneWriterStep DEF AnswerInv
<1> QED
  BY Zenon, <1>1, <1>3, <1>4 DEF AnswerInv

(* Receive starts a call that has written nothing, or refuses it. *)
LEMMA ReceiveAnswer ==
    ASSUME TypeOK, AnswerInv, NEW r \in Requests, Receive(r)
    PROVE  AnswerInv'
<1>1. OthersStay(r) /\ pc[r] # "done" /\ UNCHANGED late
  BY DEF OthersStay, Receive, Return, TypeOK
<1>2. /\ wrote[r] = {} /\ attempt[r] = 0 /\ reply[r] = "none"
      /\ wrote'[r] = wrote[r] /\ attempt'[r] = attempt[r]
  BY Zenon DEF Receive, AnswerInv, RequestInv
<1>3. \/ pc'[r] = "attempt" /\ reply'[r] = "none"
      \/ pc'[r] = "done" /\ reply'[r] = "unverified"
  BY <1>2 DEF Receive, Return, TypeOK
<1>4. RequestInv(r)'
  BY Zenon, <1>2, <1>3 DEF RequestInv, Answered, InDoubt
<1> QED
  BY Zenon, <1>1, <1>4, LocalStep

(* A call that returns an error before it has sent an INSERT wrote nothing. *)
LEMMA EarlyReturn ==
    ASSUME TypeOK, AnswerInv, NEW r \in Requests, pc[r] = "attempt",
           NEW result, Return(r, result),
           result \in {"uninitialized", "ErrInvalidSequence", "unavailable"}
           \/ /\ result = "ErrLedgerAlreadyInitialized"
              /\ RowStored(call[r].ledger, 1),
           UNCHANGED <<store, late, key, call, attempt, rec, outcome, base,
                       wrote>>
    PROVE  AnswerInv'
<1>1. OthersStay(r) /\ pc'[r] = "done" /\ reply'[r] = result
  BY Zenon DEF OthersStay, Return, TypeOK
<1>2. wrote'[r] = {}
  BY Zenon DEF AnswerInv, RequestInv
<1>3. RowStored(call[r].ledger, 1) => RowStored(call[r].ledger, 1)'
  BY Zenon DEF RowStored
<1>4. RequestInv(r)'
  BY Zenon, <1>1, <1>2, <1>3 DEF RequestInv, Answered, InDoubt
<1> QED
  BY Zenon, <1>1, <1>4, LocalStep

(* ErrLedgerAlreadyInitialized from a head: its genesis is stored. *)
LEMMA RefuseHeadAnswer ==
    ASSUME ChainInv, AnswerInv, NEW r \in Requests, RefuseHead(r)
    PROVE  AnswerInv'
<1>1. call[r].ledger \in Ledgers
  BY Zenon DEF RefuseHead, ChainInv, TypeOK, Calls
<1>2. IsInit(r) => RowStored(call[r].ledger, 1)
  <2> SUFFICES ASSUME Head(call[r].ledger).initialized
               PROVE  RowStored(call[r].ledger, 1)
    BY Zenon DEF RefuseHead, IsInit
  <2>1. PICK x \in store : IsLast(x, call[r].ledger)
    BY <1>1, HeadIsLast DEF ChainInv, StoreInv, Uninitialized
  <2>2. x.ledger = call[r].ledger /\ 1 \in 1..x.seq
    BY <2>1, MaxSequenceAssumption DEF IsLast, Rows, ChainInv, TypeOK
  <2> QED
    BY <2>2 DEF ChainInv, StoreInv, NoGaps, RowStored
<1> QED
  BY Zenon, <1>2, EarlyReturn DEF RefuseHead, ChainInv, IsInit

(* SignRecord builds above the rows that beat the earlier attempts. *)
LEMMA SignRecordAnswer ==
    ASSUME ChainInv, AnswerInv, NEW r \in Requests, SignRecord(r)
    PROVE  AnswerInv'
<1> DEFINE l == call[r].ledger
<1>1. OthersStay(r) /\ pc[r] = "attempt" /\ pc'[r] = "append"
  BY Zenon DEF OthersStay, SignRecord, ChainInv, TypeOK
<1>2. /\ wrote'[r] = {} /\ reply'[r] = "none" /\ call' = call
      /\ attempt' = attempt /\ store' = store /\ late' = late
  BY Zenon DEF SignRecord, AnswerInv, RequestInv
<1>3. base'[r] = IF attempt[r] = 0 THEN Head(l).last ELSE base[r]
  BY Zenon DEF SignRecord, ChainInv, TypeOK
<1>4. /\ base[r] \in Nat /\ attempt[r] \in Nat /\ l \in Ledgers
      /\ \A x \in store : x.seq \in Nat
  BY <1>1, MaxSequenceAssumption, RetryAssumption DEF ChainInv, TypeOK, Calls
<1>5. Head(l).last \in Nat
  BY SignedIsLinked, MaxSequenceAssumption
<1>6. attempt[r] # 0 /\ ~IsInit(r) => Grown(r, attempt[r])
  BY Zenon, <1>1 DEF AnswerInv, RequestInv
<1>7. attempt[r] # 0 /\ ~IsInit(r) => Grown(r, attempt[r])'
  BY Zenon, <1>2, <1>3, <1>6 DEF Grown
<1>8. Built(r)'
  <2>1. PICK s \in Stamps :
           \/ /\ IsInit(r)
              /\ rec' = [rec EXCEPT ![r] =
                            NewRecord(NewGenesisEvent(l),
                                      [key |-> key, stamp |-> s])]
           \/ /\ ~IsInit(r)
              /\ Head(l).initialized
              /\ NextSequence(Head(l).last) # 0
              /\ rec' = [rec EXCEPT ![r] =
                            NewRecord(NewEvent(l, NextSequence(Head(l).last),
                                               Head(l).digest,
                                               EventKind(call[r].op),
                                               call[r].payload),
                                      [key |-> key, stamp |-> s])]
    BY Zenon DEF SignRecord, IsInit, ValidSequence
  <2>2. CASE IsInit(r)
    <3>1. rec'[r] = NewRecord(NewGenesisEvent(l), [key |-> key, stamp |-> s])
      BY Zenon, <2>1, <2>2 DEF ChainInv, TypeOK
    <3> QED
      BY <1>2, <2>2, <3>1 DEF Built, IsInit, NewGenesisEvent, NewEvent,
         NewRecord
  <2>3. CASE ~IsInit(r)
    <3>1. rec'[r] = NewRecord(NewEvent(l, NextSequence(Head(l).last),
                                       Head(l).digest, EventKind(call[r].op),
                                       call[r].payload),
                              [key |-> key, stamp |-> s])
      BY Zenon, <2>1, <2>3 DEF ChainInv, TypeOK
    <3>2. PICK x \in store : IsLast(x, l) /\ Head(l).last = x.seq
      BY <1>4, <2>1, <2>3, HeadIsLast DEF ChainInv, StoreInv, Uninitialized,
         ChainStateFromRecord
    <3>3. NextSequence(Head(l).last) = Head(l).last + 1
      BY <2>1, <2>3, <3>2, MaxSequenceAssumption DEF NextSequence, ChainInv,
         TypeOK
    <3>4. attempt[r] # 0 => Head(l).last >= base[r] + attempt[r]
      BY <1>4, <1>6, <2>3, <3>2 DEF Grown, IsLast, Rows
    <3>5. Head(l).last + 1 > base'[r] + attempt[r]
      BY <1>3, <1>4, <1>5, <3>4
    <3> QED
      BY <1>2, <2>3, <3>1, <3>3, <3>5 DEF Built, IsInit, NewEvent,
         NewRecord
  <2> QED
    BY Zenon, <2>2, <2>3
<1>9. RequestInv(r)'
  BY Zenon, <1>1, <1>2, <1>7, <1>8 DEF RequestInv, IsInit
<1> QED
  BY Zenon, <1>1, <1>2, <1>9, LocalStep DEF ChainInv

(* What an INSERT did, as its caller learns it. *)
LEMMA InsertReports ==
    ASSUME TypeOK, NEW x, Insert(x), NEW r \in Requests, Credit(r),
           wrote[r] = {}
    PROVE  /\ store \subseteq store'
           /\ wrote' = [wrote EXCEPT ![r] = store' \ store]
           /\ AppendOutcome(x) = "stored" => /\ x \in store'
                                             /\ wrote'[r] = {x}
           /\ AppendOutcome(x) # "stored" => wrote'[r] = {}
           /\ AppendOutcome(x) = "ErrDuplicateRecord" => x \in store'
           /\ AppendOutcome(x) \in {"ErrDuplicateRecord", "ErrChainHeadMoved"}
                 => \E y \in store' : y.ledger = x.ledger /\ y.seq = x.seq
<1>1. wrote' = [wrote EXCEPT ![r] = store' \ store]
  BY Zenon DEF Credit, TypeOK
<1>2. wrote'[r] = store' \ store
  BY Zenon, <1>1 DEF TypeOK
<1>3. AppendOutcome(x) = "stored" => x \notin store /\ store' = store \cup {x}
  BY Zenon DEF Insert, AppendOutcome
<1>4. AppendOutcome(x) # "stored" => store' = store
  BY Zenon DEF Insert
<1>5. AppendOutcome(x) = "ErrDuplicateRecord" => x \in store
  BY Zenon DEF AppendOutcome
<1>6. AppendOutcome(x) = "ErrChainHeadMoved" =>
         \E y \in store : y.ledger = x.ledger /\ y.seq = x.seq
  BY Zenon DEF AppendOutcome
<1> QED
  BY Zenon, <1>1, <1>2, <1>3, <1>4, <1>5, <1>6

(* ExecuteInsert tells the call what its INSERT did. *)
LEMMA ExecuteInsertAnswer ==
    ASSUME TypeOK, AnswerInv, NEW r \in Requests, ExecuteInsert(r)
    PROVE  AnswerInv'
<1>1. /\ wrote[r] = {} /\ reply[r] = "none" /\ pc[r] = "append"
      /\ Built(r)
      /\ ~IsInit(r) /\ attempt[r] # 0 => Grown(r, attempt[r])
  BY Zenon DEF ExecuteInsert, AnswerInv, RequestInv
<1>2. /\ late' = late /\ call' = call /\ attempt' = attempt /\ rec' = rec
      /\ reply' = reply /\ base' = base
      /\ pc'[r] = "acked" /\ outcome'[r] = AppendOutcome(rec[r])
  BY Zenon DEF ExecuteInsert, TypeOK
<1> DEFINE o == AppendOutcome(rec[r])
<1>3. /\ store \subseteq store'
      /\ wrote' = [wrote EXCEPT ![r] = store' \ store]
      /\ o = "stored" => rec[r] \in store' /\ wrote'[r] = {rec[r]}
      /\ o # "stored" => wrote'[r] = {}
      /\ o = "ErrDuplicateRecord" => rec[r] \in store'
      /\ o \in {"ErrDuplicateRecord", "ErrChainHeadMoved"} =>
            \E y \in store' : y.ledger = rec[r].ledger /\ y.seq = rec[r].seq
  BY Zenon, <1>1, InsertReports DEF ExecuteInsert
<1>4. OthersStay(r)
  BY Zenon, <1>2, <1>3 DEF OthersStay, TypeOK, ExecuteInsert
<1>5. Built(r)'
  BY Zenon, <1>1, <1>2 DEF Built, IsInit
<1>6. Executed(r)'
  BY Zenon, <1>1, <1>2, <1>3 DEF Executed, RowStored, Built
<1>7. ~IsInit(r) /\ attempt[r] # 0 => Grown(r, attempt[r])'
  BY Zenon, <1>1, <1>2, <1>3 DEF Grown
<1>8. RequestInv(r)'
  BY Zenon, <1>1, <1>2, <1>5, <1>6, <1>7 DEF RequestInv, IsInit
<1> QED
  BY Zenon, <1>1, <1>2, <1>4, <1>8, LocalStep

(* A call whose Append failed is in doubt, and owns the late statement. *)
LEMMA AppendFailsAnswer ==
    ASSUME TypeOK, AnswerInv, NEW r \in Requests, AppendFails(r)
    PROVE  AnswerInv'
<1>1. /\ wrote[r] = {} /\ pc[r] = "append"
      /\ pc'[r] = "done" /\ reply'[r] = "persist failed"
      /\ wrote' = wrote
  BY Zenon DEF AppendFails, AnswerInv, RequestInv, Return, TypeOK
<1>2. OthersStay(r)
  BY Zenon DEF OthersStay, AppendFails, Return, TypeOK
<1>3. RequestInv(r)'
  BY Zenon, <1>1 DEF RequestInv, Answered, InDoubt
<1>4. \A q \in Requests : RequestInv(q)'
  BY Zenon, <1>2, <1>3, Frame DEF AnswerInv, OthersStay
<1>5. LateInv'
  <2>1. \A w \in late : w.by \in Requests \ {r}
    BY Zenon, <1>1 DEF TypeOK, AnswerInv, LateInv
  <2> DEFINE own == [by |-> r, rec |-> rec[r]]
  <2>2. late' \subseteq late \cup {own} /\ own.by = r
    BY Zenon DEF AppendFails
  <2>3. \A w \in late' : /\ pc'[w.by] = "done"
                         /\ reply'[w.by] \in InDoubt
                         /\ wrote'[w.by] = {}
    <3>1. \A w \in late : /\ pc'[w.by] = "done"
                          /\ reply'[w.by] \in InDoubt
                          /\ wrote'[w.by] = {}
      BY <1>2, <2>1 DEF AnswerInv, LateInv, OthersStay
    <3>2. /\ pc'[own.by] = "done"
          /\ reply'[own.by] \in InDoubt
          /\ wrote'[own.by] = {}
      BY Zenon, <1>1, <2>2 DEF InDoubt
    <3> QED
      BY Zenon, <2>2, <3>1, <3>2
  <2>4. \A v, w \in late' : v.by = w.by => v = w
    BY Zenon, <2>1, <2>2 DEF AnswerInv, LateInv
  <2> QED
    BY Zenon, <2>3, <2>4 DEF LateInv
<1>6. OneWriter'
  BY Zenon, <1>2, OneWriterStep DEF AnswerInv
<1> QED
  BY Zenon, <1>4, <1>5, <1>6 DEF AnswerInv

(* A call that returns once its INSERT has been executed. *)
LEMMA LateReturn ==
    ASSUME TypeOK, AnswerInv, NEW r \in Requests, pc[r] = "acked",
           NEW result, result # "none", Return(r, result),
           UNCHANGED <<store, late, key, call, rec, outcome, base, wrote>>,
           \A q \in Requests \ {r} : attempt'[q] = attempt[q],
           result = "ok" => /\ outcome[r] \in {"stored", "ErrDuplicateRecord"}
                            /\ IsInit(r) => outcome[r] = "stored"
                            /\ attempt'[r] = attempt[r],
           result \notin InDoubt \cup {"ok"} => outcome[r] # "stored",
           result = "ErrLedgerAlreadyInitialized" =>
              /\ IsInit(r)
              /\ outcome[r] \in {"ErrDuplicateRecord", "ErrChainHeadMoved"},
           result = "exceeded retries" => Grown(r, MaxRetries + 1)
    PROVE  AnswerInv'
<1>1. pc'[r] = "done" /\ reply'[r] = result
  BY Zenon DEF Return, TypeOK
<1>2. OthersStay(r)
  BY Zenon DEF OthersStay, Return, TypeOK
<1>3. Executed(r) /\ Built(r)
  BY Zenon DEF AnswerInv, RequestInv
<1>4. Answered(r)'
  <2>1. \A x, y \in wrote'[r] : x = y
    BY Zenon, <1>3 DEF Executed
  <2>2. result = "ok" => /\ Built(r)'
                         /\ rec'[r] \in store'
                         /\ IsInit(r)' => rec'[r] \in wrote'[r]
    BY Zenon, <1>3 DEF Executed, Built, IsInit
  <2>3. result \notin InDoubt \cup {"ok"} => wrote'[r] = {}
    BY Zenon, <1>3 DEF Executed
  <2>4. result = "ErrLedgerAlreadyInitialized" =>
           RowStored(call[r].ledger, 1)'
    BY Zenon, <1>3 DEF Executed, Built, RowStored
  <2>5. result = "exceeded retries" => Grown(r, MaxRetries + 1)'
    BY Zenon DEF Grown
  <2> QED
    BY Zenon, <1>1, <2>1, <2>2, <2>3, <2>4, <2>5 DEF Answered
<1>5. RequestInv(r)'
  BY Zenon, <1>1, <1>4 DEF RequestInv
<1> QED
  BY Zenon, <1>2, <1>5, LocalStep

(* A lost race means that the ledger has grown by one more row. *)
LEMMA AdmitRetriesAnswer ==
    ASSUME TypeOK, AnswerInv, NEW r \in Requests, AdmitRetries(r)
    PROVE  AnswerInv'
<1>1. /\ Executed(r) /\ Built(r) /\ pc[r] = "acked" /\ ~IsInit(r)
      /\ outcome[r] = "ErrChainHeadMoved" /\ reply[r] = "none"
  BY Zenon DEF AdmitRetries, AnswerInv, RequestInv, IsInit
<1>2. /\ UNCHANGED <<store, late, key, call, rec, outcome, base, wrote>>
      /\ \A q \in Requests \ {r} : attempt'[q] = attempt[q]
  BY Zenon DEF AdmitRetries, TypeOK
<1>3. /\ attempt[r] \in 0..MaxRetries /\ base[r] \in Nat
      /\ \A y \in store : y.seq \in Nat
  BY <1>1, RetryAssumption, MaxSequenceAssumption DEF TypeOK
<1>4. Grown(r, attempt[r] + 1)
  <2>1. PICK y \in store : y.ledger = call[r].ledger /\ y.seq = rec[r].seq
    BY Zenon, <1>1 DEF Executed, RowStored
  <2>2. y.seq > base[r] + attempt[r]
    BY Zenon, <1>1, <2>1 DEF Built
  <2>3. y.seq >= base[r] + (attempt[r] + 1)
    BY <1>3, <2>2
  <2> QED
    BY Zenon, <2>1, <2>3 DEF Grown
<1>5. CASE r \in cancelled
  <2>1. Return(r, "context done") /\ attempt' = attempt
    BY Zenon, <1>5 DEF AdmitRetries
  <2> QED
    BY Zenon, <1>1, <1>2, <2>1, LateReturn DEF InDoubt
<1>6. CASE r \notin cancelled /\ ~(attempt[r] < MaxRetries)
  <2>1. Return(r, "exceeded retries")
    BY Zenon, <1>6 DEF AdmitRetries
  <2>2. attempt[r] + 1 = MaxRetries + 1
    BY <1>3, <1>6, RetryAssumption
  <2>3. Grown(r, MaxRetries + 1)
    BY Zenon, <1>4, <2>2
  <2> QED
    BY Zenon, <1>1, <1>2, <2>1, <2>3, LateReturn DEF InDoubt
<1>7. CASE r \notin cancelled /\ attempt[r] < MaxRetries
  <2>1. /\ pc'[r] = "attempt" /\ reply' = reply
        /\ attempt'[r] = attempt[r] + 1
    BY Zenon, <1>7 DEF AdmitRetries, TypeOK
  <2>2. OthersStay(r)
    BY Zenon, <1>2, <1>7 DEF OthersStay, AdmitRetries, TypeOK
  <2>3. wrote'[r] = {}
    BY Zenon, <1>1, <1>2 DEF Executed
  <2>4. Grown(r, attempt[r])'
    BY Zenon, <1>2, <1>4, <2>1 DEF Grown
  <2>5. RequestInv(r)'
    BY Zenon, <1>1, <2>1, <2>3, <2>4 DEF RequestInv
  <2> QED
    BY Zenon, <1>1, <1>2, <2>2, <2>5, LocalStep
<1> QED
  BY Zenon, <1>5, <1>6, <1>7

(* A late statement writes for a call that wrote nothing and is in doubt. *)
LEMMA LateInsertAnswer ==
    ASSUME TypeOK, AnswerInv, NEW w \in late, LateInsert(w)
    PROVE  AnswerInv'
<1> DEFINE r == w.by
<1>1. /\ r \in Requests /\ pc[r] = "done" /\ reply[r] \in InDoubt
      /\ wrote[r] = {}
  BY Zenon DEF TypeOK, AnswerInv, LateInv
<1>2. /\ UNCHANGED control /\ base' = base
      /\ late' = late \ {w}
  BY Zenon DEF LateInsert
<1>3. /\ store \subseteq store'
      /\ wrote' = [wrote EXCEPT ![r] = store' \ store]
      /\ wrote'[r] = {} \/ wrote'[r] = {w.rec}
  BY Zenon, <1>1, InsertReports DEF LateInsert
<1>4. OthersStay(r)
  BY <1>1, <1>2, <1>3 DEF OthersStay, TypeOK, control
<1>5. RequestInv(r)'
  BY Zenon, <1>1, <1>2, <1>3 DEF RequestInv, Answered, InDoubt, control
<1>6. \A q \in Requests : RequestInv(q)'
  BY Zenon, <1>4, <1>5, Frame DEF AnswerInv, OthersStay
<1>7. LateInv'
  <2>1. \A v \in late' : v \in late /\ v.by # r /\ v.by \in Requests
    BY Zenon, <1>2 DEF TypeOK, AnswerInv, LateInv
  <2>2. \A v \in late' : wrote'[v.by] = wrote[v.by]
    BY Zenon, <1>4, <2>1 DEF OthersStay
  <2> QED
    BY Zenon, <1>2, <2>1, <2>2 DEF AnswerInv, LateInv, control
<1>8. OneWriter'
  BY Zenon, <1>1, <1>4, OneWriterStep DEF AnswerInv
<1> QED
  BY Zenon, <1>6, <1>7, <1>8 DEF AnswerInv

(* A crash leaves the calls in flight in doubt. *)
LEMMA CrashAnswer ==
    ASSUME TypeOK, AnswerInv, Crash
    PROVE  AnswerInv'
<1>1. UNCHANGED <<store, call, attempt, rec, outcome, base, wrote>>
  BY Zenon DEF Crash
<1>2. \A q \in Requests :
         \/ q \in InFlight /\ pc'[q] = "done" /\ reply'[q] = "lost"
         \/ q \notin InFlight /\ pc'[q] = pc[q] /\ reply'[q] = reply[q]
  BY Zenon DEF Crash
<1>3. ASSUME NEW q \in Requests
      PROVE  RequestInv(q)'
  <2>1. CASE q \in InFlight
    <3>1. \A x, y \in wrote[q] : x = y
      BY Zenon, <2>1 DEF AnswerInv, RequestInv, Executed, InFlight
    <3> QED
      BY Zenon, <1>1, <1>2, <2>1, <3>1 DEF RequestInv, Answered, InDoubt
  <2>2. CASE q \notin InFlight
    BY Zenon, <1>1, <1>2, <2>2, Frame DEF AnswerInv
  <2> QED
    BY Zenon, <2>1, <2>2
<1>4. LateInv'
  <2>1. PICK S \in SUBSET {r \in Requests : pc[r] = "append"} :
           late' = late \cup {[by |-> r, rec |-> rec[r]] : r \in S}
    BY Zenon DEF Crash
  <2>2. \A w \in late : /\ w.by \in Requests
                        /\ pc[w.by] = "done"
                        /\ reply[w.by] \in InDoubt
                        /\ wrote[w.by] = {}
    BY Zenon DEF TypeOK, AnswerInv, LateInv
  <2>3. \A r \in S : /\ r \in Requests /\ pc[r] = "append"
                     /\ r \in InFlight /\ wrote[r] = {}
    BY Zenon, <2>1 DEF AnswerInv, RequestInv, InFlight
  <2>4. \A w \in late' :
           w \in late \/ \E r \in S : w = [by |-> r, rec |-> rec[r]]
    BY Zenon, <2>1
  <2>5. ASSUME NEW w \in late'
        PROVE  /\ pc'[w.by] = "done"
               /\ reply'[w.by] \in InDoubt
               /\ wrote'[w.by] = {}
    <3>1. CASE w \in late
      BY Zenon, <1>1, <1>2, <2>2, <3>1 DEF InFlight
    <3>2. ASSUME NEW r \in S, w = [by |-> r, rec |-> rec[r]]
          PROVE  /\ pc'[w.by] = "done"
                 /\ reply'[w.by] \in InDoubt
                 /\ wrote'[w.by] = {}
      <4>1. w.by = r
        BY Zenon, <3>2
      <4> QED
        BY Zenon, <1>1, <1>2, <2>3, <4>1 DEF InDoubt
    <3> QED
      BY Zenon, <2>4, <3>1, <3>2
  <2>6. ASSUME NEW v \in late', NEW w \in late', v.by = w.by
        PROVE  v = w
    <3>1. \A u \in late' : u \in late => pc[u.by] = "done"
      BY Zenon, <2>2
    <3>2. \A u \in late' : u \notin late =>
             u = [by |-> u.by, rec |-> rec[u.by]] /\ pc[u.by] = "append"
      BY <2>3, <2>4
    <3> QED
      BY Zenon, <2>6, <3>1, <3>2 DEF AnswerInv, LateInv
  <2> QED
    BY Zenon, <2>5, <2>6 DEF LateInv
<1>5. OneWriter'
  BY Zenon, <1>1 DEF AnswerInv, OneWriter
<1> QED
  BY Zenon, <1>3, <1>4, <1>5 DEF AnswerInv

(* Every step keeps the invariant about calls. *)
LEMMA AnswerStep ==
    ASSUME ChainInv, AnswerInv, [Next]_vars
    PROVE  AnswerInv'
<1> USE DEF ChainInv
<1>1. ASSUME NEW r \in Requests, RejectSequence(r)
      PROVE  AnswerInv'
  BY Zenon, <1>1, EarlyReturn DEF RejectSequence
<1>2. ASSUME NEW r \in Requests, AttemptFails(r)
      PROVE  AnswerInv'
  BY Zenon, <1>2, EarlyReturn DEF AttemptFails
<1>3. ASSUME NEW r \in Requests, AnswerLost(r)
      PROVE  AnswerInv'
  BY Zenon, <1>3, LateReturn DEF AnswerLost, InDoubt
<1>4. ASSUME NEW r \in Requests, InitLedgerReturns(r)
      PROVE  AnswerInv'
  <2>1. PICK result : /\ Return(r, result)
                      /\ \/ outcome[r] = "stored" /\ result = "ok"
                         \/ /\ outcome[r] \in {"ErrChainHeadMoved",
                                               "ErrDuplicateRecord"}
                            /\ result = "ErrLedgerAlreadyInitialized"
                         \/ result = "persist failed"
    BY Zenon, <1>4 DEF InitLedgerReturns
  <2> QED
    BY Zenon, <1>4, <2>1, LateReturn DEF InitLedgerReturns, IsInit, InDoubt
<1>5. ASSUME NEW r \in Requests, AdmitReturns(r)
      PROVE  AnswerInv'
  <2>1. PICK result : /\ Return(r, result)
                      /\ \/ /\ outcome[r] \in {"stored", "ErrDuplicateRecord"}
                            /\ result = "ok"
                         \/ result = "persist failed"
    BY Zenon, <1>5 DEF AdmitReturns
  <2> QED
    BY Zenon, <1>5, <2>1, LateReturn DEF AdmitReturns, IsInit, InDoubt
<1>6. ASSUME UNCHANGED <<store, pc, call, attempt, rec, outcome, reply, base,
                         wrote>>, late' \subseteq late
      PROVE  AnswerInv'
  <2>1. \A q \in Requests : RequestInv(q)'
    BY Zenon, <1>6, Frame DEF AnswerInv
  <2> QED
    BY Zenon, <1>6, <2>1 DEF AnswerInv, LateInv, OneWriter
<1>7. ASSUME NEW r \in Requests, CancelContext(r)
      PROVE  AnswerInv'
  BY Zenon, <1>6, <1>7 DEF CancelContext
<1>8. ASSUME NEW w \in late, LateRollback(w)
      PROVE  AnswerInv'
  BY Zenon, <1>6, <1>8 DEF LateRollback, control
<1>9. CASE UNCHANGED vars
  BY Zenon, <1>6, <1>9 DEF vars, control
<1> QED
  BY Zenon, <1>1, <1>2, <1>3, <1>4, <1>5, <1>7, <1>8, <1>9, ReceiveAnswer,
     RefuseHeadAnswer, SignRecordAnswer, ExecuteInsertAnswer,
     AppendFailsAnswer, AdmitRetriesAnswer, LateInsertAnswer, CrashAnswer
     DEF Next, Step

(* The inductive invariant about calls: what each has written, built,       *)
(* learnt and been told.                                                    *)
THEOREM AnswerInvariant == Spec => []AnswerInv
<1>1. Init => AnswerInv
  BY DEF Init, AnswerInv, RequestInv, LateInv, OneWriter
<1>2. ChainInv /\ AnswerInv /\ [Next]_vars => AnswerInv'
  BY Zenon, AnswerStep
<1> QED
  BY <1>1, <1>2, ChainInvariant, PTL DEF Spec

-----------------------------------------------------------------------------
(* What follows from it *)

(* A call of the service writes at most one row and its answer is true. *)
THEOREM AnswersAreTruthful == Spec => []TruthfulAnswers
<1>1. ChainInv /\ AnswerInv => TruthfulAnswers
  <2> SUFFICES ASSUME ChainInv, AnswerInv, NEW r \in Requests
               PROVE  /\ \A x, y \in wrote[r] : x = y
                      /\ reply[r] = "ok" =>
                            /\ rec[r] \in store
                            /\ rec[r].ledger = call[r].ledger
                            /\ call[r].op # "InitLedger" =>
                                  rec[r].payload = call[r].payload
                      /\ reply[r] \notin InDoubt \cup {"ok", "none"} =>
                            wrote[r] = {}
    BY Zenon DEF TruthfulAnswers
  <2>1. CASE pc[r] = "done"
    BY Zenon, <2>1 DEF AnswerInv, RequestInv, Answered, Built, IsInit
  <2>2. CASE pc[r] # "done"
    <3>1. reply[r] = "none"
      BY Zenon, <2>2 DEF AnswerInv, RequestInv
    <3>2. pc[r] \in {"idle", "attempt", "append"} => wrote[r] = {}
      BY Zenon DEF AnswerInv, RequestInv
    <3>3. pc[r] = "acked" => wrote[r] = {} \/ wrote[r] = {rec[r]}
      BY Zenon DEF AnswerInv, RequestInv, Executed
    <3>4. pc[r] \in {"idle", "attempt", "append", "acked"}
      BY Zenon, <2>2 DEF ChainInv, TypeOK
    <3> QED
      BY Zenon, <3>1, <3>2, <3>3, <3>4
  <2> QED
    BY Zenon, <2>1, <2>2
<1> QED
  BY <1>1, ChainInvariant, AnswerInvariant, PTL

(* Racing calls of InitLedger have at most one winner, and the others are   *)
(* right that the ledger exists.                                            *)
THEOREM InitializersAgree == Spec => []OneInitializer
<1>1. ChainInv /\ AnswerInv => OneInitializer
  <2> SUFFICES ASSUME ChainInv, AnswerInv PROVE OneInitializer
    BY Zenon
  <2>1. \A r \in Requests : reply[r] # "none" => Answered(r)
    BY Zenon DEF AnswerInv, RequestInv
  <2>2. ASSUME NEW r \in Requests, NEW q \in Requests,
               reply[r] = "ok", IsInit(r), reply[q] = "ok", IsInit(q),
               call[r].ledger = call[q].ledger
        PROVE  r = q
    <3>1. \A t \in Requests :
             reply[t] = "ok" /\ IsInit(t) =>
                /\ rec[t] \in store /\ rec[t] \in wrote[t]
                /\ rec[t].seq = 1 /\ rec[t].ledger = call[t].ledger
      BY Zenon, <2>1 DEF Answered, Built
    <3>2. rec[r] = rec[q]
      BY Zenon, <2>2, <3>1 DEF ChainInv, StoreInv, RowsUnique
    <3> QED
      BY Zenon, <2>2, <3>1, <3>2 DEF AnswerInv, OneWriter
  <2>3. ASSUME NEW r \in Requests, reply[r] = "ErrLedgerAlreadyInitialized"
        PROVE  \E x \in Rows(call[r].ledger) \ wrote[r] : x.seq = 1
    <3>1. wrote[r] = {} /\ RowStored(call[r].ledger, 1)
      BY Zenon, <2>1, <2>3 DEF Answered, InDoubt
    <3> QED
      BY Zenon, <3>1 DEF RowStored, Rows
  <2> QED
    BY Zenon, <2>2, <2>3 DEF OneInitializer, IsInit
<1> QED
  BY <1>1, ChainInvariant, AnswerInvariant, PTL

(* Arithmetic used by ContentionIsProgress. *)
LEMMA Within ==
    ASSUME NEW b \in Nat, NEW top \in Nat, NEW m \in Nat, NEW n \in 1..(m + 1),
           top >= b + (m + 1)
    PROVE  b + n \in 1..top
OBVIOUS

(* A call runs out of retries only if MaxRetries + 1 rows of other calls    *)
(* were committed meanwhile.                                                *)
THEOREM ContentionIsProgress == Spec => []ExhaustionMeansProgress
<1>1. ChainInv /\ AnswerInv => ExhaustionMeansProgress
  <2> SUFFICES ASSUME ChainInv, AnswerInv PROVE ExhaustionMeansProgress
    OBVIOUS
  <2>1. /\ \A r \in Requests : base[r] \in Nat
        /\ \A y \in store : y.seq \in Nat
    BY RetryAssumption, MaxSequenceAssumption DEF ChainInv, TypeOK
  <2>2. ASSUME NEW r \in Requests, reply[r] = "exceeded retries"
        PROVE  \A n \in 1..(MaxRetries + 1) :
                  \E x \in Rows(call[r].ledger) \ wrote[r] :
                     x.seq = base[r] + n
    <3>1. wrote[r] = {} /\ Grown(r, MaxRetries + 1)
      BY Zenon, <2>2 DEF AnswerInv, RequestInv, Answered, InDoubt
    <3>2. PICK y \in store : /\ y.ledger = call[r].ledger
                             /\ y.seq >= base[r] + (MaxRetries + 1)
      BY Zenon, <3>1 DEF Grown
    <3>3. \A n \in 1..(MaxRetries + 1) : base[r] + n \in 1..y.seq
      BY Zenon, <2>1, <3>2, RetryAssumption, Within
    <3>4. \A n \in 1..y.seq :
             \E x \in store : x.ledger = y.ledger /\ x.seq = n
      BY Zenon DEF ChainInv, StoreInv, NoGaps
    <3> QED
      BY Zenon, <3>1, <3>2, <3>3, <3>4 DEF Rows
  <2> QED
    BY Zenon, <2>2 DEF ExhaustionMeansProgress
<1> QED
  BY <1>1, ChainInvariant, AnswerInvariant, PTL

-----------------------------------------------------------------------------
(* Rows as their readers see them *)

(* No step of the service removes a row. *)
LEMMA StoreGrows ==
    ASSUME [Next]_vars
    PROVE  store \subseteq store'
  BY Zenon DEF Next, Receive, CancelContext, Step, RefuseHead, RejectSequence,
     SignRecord, AttemptFails, ExecuteInsert, AppendFails, AnswerLost,
     InitLedgerReturns, AdmitReturns, AdmitRetries, LateInsert, LateRollback,
     Crash, Insert, vars

(* A stored sequence is at most the head's, and only an initialized ledger  *)
(* has one.                                                                 *)
LEMMA StoredBelowHead ==
    ASSUME StoreInv, NEW l \in Ledgers, NEW n, n = 0 \/ RowStored(l, n)
    PROVE  /\ n \in 0..Head(l).last
           /\ Head(l).last \in 0..MaxSequence
           /\ Head(l).last = 0 \/ RowStored(l, Head(l).last)
           /\ ~Head(l).initialized => n = 0
<1>1. /\ Head(l).last \in 0..MaxSequence
      /\ {x.seq : x \in Rows(l)} = 1..Head(l).last
      /\ \A i \in 1..Head(l).last : RowAt(l, i) \in Rows(l) /\ RowAt(l, i).seq = i
  BY Zenon, RowsNumbered
<1>2. RowStored(l, n) => \E x \in Rows(l) : x.seq = n
  BY Zenon DEF RowStored, Rows
<1>3. n \in 0..Head(l).last
  BY <1>1, <1>2
<1>4. Head(l).last = 0 \/ RowStored(l, Head(l).last)
  <2>1. CASE Head(l).last # 0
    <3>1. Head(l).last \in 1..Head(l).last
      BY <1>1, <2>1
    <3> QED
      BY Zenon, <1>1, <3>1 DEF RowStored, Rows
  <2> QED
    BY Zenon, <2>1
<1>5. ~Head(l).initialized => n = 0
  <2>1. CASE Rows(l) # {}
    BY <2>1, HeadIsLast DEF StoreInv, ChainStateFromRecord
  <2>2. CASE Rows(l) = {}
    BY Zenon, <1>2, <2>2
  <2> QED
    BY Zenon, <2>1, <2>2
<1> QED
  BY Zenon, <1>1, <1>3, <1>4, <1>5

(* A bounded set of numbers has a greatest element. *)
LEMMA GreatestNumber ==
    ASSUME NEW T, T \subseteq Nat, T # {}, NEW b \in Nat, \A n \in T : n <= b
    PROVE  \E n \in T : \A m \in T : n >= m
<1> DEFINE U == {b - n : n \in T}
<1>1. U \subseteq Nat /\ U # {}
  <2>1. \A n \in T : n \in Nat /\ n <= b /\ b - n \in Nat
    OBVIOUS
  <2> QED
    BY Zenon, <2>1
<1>2. PICK u \in U : \A v \in U : u <= v
  <2> HIDE DEF U
  <2> QED BY Zenon, <1>1, LeastNumber
<1>3. PICK n \in T : u = b - n
  BY Zenon
<1>4. ASSUME NEW m \in T PROVE n >= m
  <2>1. b - m \in U
    BY Zenon
  <2>2. b - n <= b - m /\ n \in Nat /\ m \in Nat
    BY Zenon, <1>2, <1>3, <2>1
  <2> QED
    BY <2>2
<1> QED
  BY Zenon, <1>4

====
