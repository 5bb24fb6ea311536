------------------------------ MODULE Admission ------------------------------
(***************************************************************************)
(* internal/admission: concurrent callers order, sign and persist events   *)
(* on hash chains kept by one PostgreSQL table.                            *)
(*                                                                         *)
(* Each element of Requests is one call of the service (InitLedger,        *)
(* AdmitEndorsement or AdmitRevocation), running in its own goroutine.     *)
(* No lock is held between reading the head and inserting the record, so   *)
(* the interleaving points are the two statements sent to the database:    *)
(*                                                                         *)
(*   idle --Receive--> attempt --Head, NewEvent, Sign--> append            *)
(*        append --INSERT executes--> acked --answer handled--> done       *)
(*        acked --ErrChainHeadMoved, Admit only--> attempt                 *)
(*                                                                         *)
(* The database may refuse or lose a statement, execute it after its       *)
(* caller has given up (late), or execute it and lose the answer.  The     *)
(* process may crash and restart; main then generates a fresh signing key. *)
(***************************************************************************)
EXTENDS LedgerStore

CONSTANTS Requests,          \* calls of the service
          Ops,               \* operations called
          Payloads,          \* encoded endorsement and revocation payloads
          VerifiedPayloads,  \* those whose actor signatures verify
          Stamps,            \* millisecond and nonce a signature depends on
          MaxRetries,        \* Service.maxRetries
          MaxRestarts,       \* bound on process crashes
          Faults,            \* TRUE when the database, the signer or a client
                             \* may fail
          NoRecord

ASSUME OpsAssumption ==
    Ops \subseteq {"InitLedger", "AdmitEndorsement", "AdmitRevocation"}
ASSUME PayloadAssumption == VerifiedPayloads \subseteq Payloads
ASSUME RetryAssumption == MaxRetries \in Nat
ASSUME RestartAssumption == MaxRestarts \in Nat
ASSUME FaultAssumption == Faults \in BOOLEAN

VARIABLES late,       \* statements in the database whose caller has gone
          key,        \* generation of the process's signing key
          pc,         \* [Requests -> where the call is]
          call,       \* [Requests -> operation, ledger and payload]
          attempt,    \* [Requests -> failed attempts of the retry loop]
          rec,        \* [Requests -> the record signed by the last attempt]
          outcome,    \* [Requests -> what the INSERT returned]
          cancelled,  \* requests whose context is done
          reply       \* [Requests -> the result returned to the caller]

(* History of the run, read by no action of the program. *)
VARIABLES base,       \* [Requests -> the head's sequence when first read]
          wrote       \* [Requests -> rows its statements stored]

control == <<pc, call, attempt, rec, outcome, cancelled, reply>>
vars == <<store, late, key, control, base, wrote>>

InFlight == {r \in Requests : pc[r] \in {"attempt", "append", "acked"}}

EventKind(op) ==
    IF op = "AdmitEndorsement" THEN EventKindEndorsementAccepted
                               ELSE EventKindEndorsementRevoked

Init ==
    /\ StoreInit
    /\ late = {}
    /\ key = 0
    /\ pc = [r \in Requests |-> "idle"]
    /\ call = [r \in Requests |-> NoRecord]
    /\ attempt = [r \in Requests |-> 0]
    /\ rec = [r \in Requests |-> NoRecord]
    /\ outcome = [r \in Requests |-> "none"]
    /\ cancelled = {}
    /\ reply = [r \in Requests |-> "none"]
    /\ base = [r \in Requests |-> 0]
    /\ wrote = [r \in Requests |-> {}]

-----------------------------------------------------------------------------
(* Return from the call. *)
Return(r, result) ==
    /\ pc' = [pc EXCEPT ![r] = "done"]
    /\ reply' = [reply EXCEPT ![r] = result]

(* Faulty variant: actor signatures are not verified. *)
ReceiveUnverified(r) ==
    /\ pc[r] = "idle"
    /\ \E op \in Ops, l \in Ledgers, p \in Payloads :
          call' = [call EXCEPT ![r] = [op |-> op, ledger |-> l, payload |-> p]]
    /\ pc' = [pc EXCEPT ![r] = "attempt"]
    /\ UNCHANGED <<store, late, key, attempt, rec, outcome, cancelled, reply,
                   base, wrote>>

(* A call arrives.  AdmitEndorsement and AdmitRevocation verify the actor   *)
(* signatures before anything else; no check looks at the ledger.           *)
Receive(r) ==
    /\ pc[r] = "idle"
    /\ \E op \in Ops, l \in Ledgers, p \in Payloads :
          /\ call' = [call EXCEPT ![r] =
                         [op |-> op, ledger |-> l, payload |-> p]]
          /\ IF op = "InitLedger" \/ p \in VerifiedPayloads
             THEN /\ pc' = [pc EXCEPT ![r] = "attempt"]
                  /\ UNCHANGED reply
             ELSE Return(r, "unverified")
    /\ UNCHANGED <<store, late, key, attempt, rec, outcome, cancelled,
                   base, wrote>>

(* Head finds a genesis to InitLedger, or none to Admit. *)
RefuseHead(r) ==
    /\ pc[r] = "attempt"
    /\ r \notin cancelled
    /\ Head(call[r].ledger).initialized <=> call[r].op = "InitLedger"
    /\ Return(r, IF call[r].op = "InitLedger" THEN "ErrLedgerAlreadyInitialized"
                                              ELSE "uninitialized")
    /\ UNCHANGED <<store, late, key, call, attempt, rec, outcome, cancelled,
                   base, wrote>>

(* The head is as required but NewEvent rejects the sequence after it. *)
RejectSequence(r) ==
    LET head == Head(call[r].ledger)
    IN  /\ pc[r] = "attempt"
        /\ r \notin cancelled
        /\ call[r].op # "InitLedger" /\ head.initialized
        /\ ~ValidSequence(NextSequence(head.last))
        /\ Return(r, "ErrInvalidSequence")
        /\ UNCHANGED <<store, late, key, call, attempt, rec, outcome,
                       cancelled, base, wrote>>

(* Read the head, build the event on it, sign it and assemble the record.   *)
(* Nothing shared is touched after the read, so the steps are one.          *)
SignRecord(r) ==
    LET c == call[r]
        head == Head(c.ledger)
        n == NextSequence(head.last)
    IN  /\ pc[r] = "attempt"
        /\ r \notin cancelled
        /\ head.initialized <=> c.op # "InitLedger"
        /\ head.initialized => ValidSequence(n)
        /\ \E s \in Stamps :
              LET signature == [key |-> key, stamp |-> s]
                  event ==
                      IF c.op = "InitLedger" THEN NewGenesisEvent(c.ledger)
                      ELSE NewEvent(c.ledger, n, head.digest,
                                    EventKind(c.op), c.payload)
              IN  rec' = [rec EXCEPT ![r] = NewRecord(event, signature)]
        /\ pc' = [pc EXCEPT ![r] = "append"]
        /\ base' = [base EXCEPT ![r] = IF attempt[r] = 0 THEN head.last ELSE @]
        /\ UNCHANGED <<store, late, key, call, attempt, outcome, cancelled,
                       reply, wrote>>

(* Reading the head or signing fails, always so once the context is done.   *)
AttemptFails(r) ==
    /\ pc[r] = "attempt"
    /\ Faults \/ r \in cancelled
    /\ Return(r, "unavailable")
    /\ UNCHANGED <<store, late, key, call, attempt, rec, outcome, cancelled,
                   base, wrote>>

(* History: credit r with the row its statement stores, if it stores one. *)
Credit(r) == wrote' = [wrote EXCEPT ![r] = @ \cup (store' \ store)]

(* The database executes the INSERT while the caller waits. *)
ExecuteInsert(r) ==
    /\ pc[r] = "append"
    /\ Insert(rec[r])
    /\ Credit(r)
    /\ outcome' = [outcome EXCEPT ![r] = AppendOutcome(rec[r])]
    /\ pc' = [pc EXCEPT ![r] = "acked"]
    /\ UNCHANGED <<late, key, call, attempt, rec, cancelled, reply, base>>

(* Append fails before the statement has executed; the statement is lost,   *)
(* or reached the database, which will still execute it.                    *)
AppendFails(r) ==
    /\ pc[r] = "append"
    /\ Faults \/ r \in cancelled
    /\ Return(r, "persist failed")
    /\ \/ UNCHANGED late
       \/ late' = late \cup {[by |-> r, rec |-> rec[r]]}
    /\ UNCHANGED <<store, key, call, attempt, rec, outcome, cancelled, base,
                   wrote>>

(* The statement executed but its answer never arrives. *)
AnswerLost(r) ==
    /\ pc[r] = "acked"
    /\ Faults \/ r \in cancelled
    /\ Return(r, "persist failed")
    /\ UNCHANGED <<store, late, key, call, attempt, rec, outcome, cancelled,
                   base, wrote>>

(* Faulty variant: a duplicate genesis counts as a success, as in Admit. *)
InitLedgerIdempotent(r) ==
    /\ pc[r] = "acked"
    /\ call[r].op = "InitLedger"
    /\ Return(r, IF outcome[r] \in {"stored", "ErrDuplicateRecord"}
                 THEN "ok" ELSE "ErrLedgerAlreadyInitialized")
    /\ UNCHANGED <<store, late, key, call, attempt, rec, outcome, cancelled,
                   base, wrote>>

(* The result of Append handled by InitLedger: a genesis that is already    *)
(* there, this very one included, is somebody else's.                       *)
InitLedgerReturns(r) ==
    /\ pc[r] = "acked"
    /\ call[r].op = "InitLedger"
    /\ Return(r, CASE outcome[r] = "stored" -> "ok"
                   [] outcome[r] \in {"ErrChainHeadMoved",
                                      "ErrDuplicateRecord"}
                        -> "ErrLedgerAlreadyInitialized"
                   [] OTHER -> "persist failed")
    /\ UNCHANGED <<store, late, key, call, attempt, rec, outcome, cancelled,
                   base, wrote>>

(* Faulty variant: every constraint violation is taken for a duplicate. *)
AdmitConflictIsDuplicate(r) ==
    /\ pc[r] = "acked"
    /\ call[r].op # "InitLedger"
    /\ Return(r, "ok")
    /\ UNCHANGED <<store, late, key, call, attempt, rec, outcome, cancelled,
                   base, wrote>>

(* The result of Append handled by Admit, other than a lost race.  On a     *)
(* duplicate it returns the stored record, which equals the one it built.   *)
AdmitReturns(r) ==
    /\ pc[r] = "acked"
    /\ call[r].op # "InitLedger"
    /\ outcome[r] # "ErrChainHeadMoved"
    /\ Return(r, IF outcome[r] \in {"stored", "ErrDuplicateRecord"}
                 THEN "ok" ELSE "persist failed")
    /\ UNCHANGED <<store, late, key, call, attempt, rec, outcome, cancelled,
                   base, wrote>>

(* Faulty variants: the loop resends the record it built on the old head,   *)
(* counting its attempts or not.                                            *)
AdmitResends(r) ==
    /\ pc[r] = "acked"
    /\ call[r].op # "InitLedger"
    /\ outcome[r] = "ErrChainHeadMoved"
    /\ attempt' = [attempt EXCEPT ![r] = @ + 1]
    /\ IF attempt[r] < MaxRetries
       THEN pc' = [pc EXCEPT ![r] = "append"] /\ UNCHANGED reply
       ELSE Return(r, "exceeded retries")
    /\ UNCHANGED <<store, late, key, call, rec, outcome, cancelled, base,
                   wrote>>

AdmitResendsForever(r) ==
    /\ pc[r] = "acked"
    /\ call[r].op # "InitLedger"
    /\ outcome[r] = "ErrChainHeadMoved"
    /\ pc' = [pc EXCEPT ![r] = "append"]
    /\ UNCHANGED <<store, late, key, call, attempt, rec, outcome, cancelled,
                   reply, base, wrote>>

(* Admit lost the race for its sequence: give up when the context is done   *)
(* or the attempts are used up, else go round the loop.                     *)
AdmitRetries(r) ==
    /\ pc[r] = "acked"
    /\ call[r].op # "InitLedger"
    /\ outcome[r] = "ErrChainHeadMoved"
    /\ IF r \in cancelled
       THEN Return(r, "context done") /\ UNCHANGED attempt
       ELSE /\ attempt' = [attempt EXCEPT ![r] = @ + 1]
            /\ IF attempt[r] < MaxRetries
               THEN pc' = [pc EXCEPT ![r] = "attempt"] /\ UNCHANGED reply
               ELSE Return(r, "exceeded retries")
    /\ UNCHANGED <<store, late, key, call, rec, outcome, cancelled, base,
                   wrote>>

(* The client disconnects or its deadline passes. *)
CancelContext(r) ==
    /\ Faults
    /\ r \in InFlight \ cancelled
    /\ cancelled' = cancelled \cup {r}
    /\ UNCHANGED <<store, late, key, pc, call, attempt, rec, outcome, reply,
                   base, wrote>>

-----------------------------------------------------------------------------
(* A statement that outlived its call is executed, or rolled back. *)
LateInsert(w) ==
    /\ Insert(w.rec)
    /\ Credit(w.by)
    /\ late' = late \ {w}
    /\ UNCHANGED <<key, control, base>>

LateRollback(w) ==
    /\ late' = late \ {w}
    /\ UNCHANGED <<store, key, control, base, wrote>>

(* The process dies and starts again with a key from GenerateLocalSigner.   *)
(* Calls in flight are never answered; their statements may still execute.  *)
Crash ==
    /\ key < MaxRestarts
    /\ key' = key + 1
    /\ pc' = [r \in Requests |-> IF r \in InFlight THEN "done" ELSE pc[r]]
    /\ reply' = [r \in Requests |-> IF r \in InFlight THEN "lost"
                                                      ELSE reply[r]]
    /\ \E S \in SUBSET {r \in Requests : pc[r] = "append"} :
          late' = late \cup {[by |-> r, rec |-> rec[r]] : r \in S}
    /\ UNCHANGED <<store, call, attempt, rec, outcome, cancelled, base, wrote>>

-----------------------------------------------------------------------------
(* What the goroutine of r, or the database for it, does next. *)
Step(r) ==
    \/ RefuseHead(r) \/ RejectSequence(r) \/ SignRecord(r) \/ AttemptFails(r)
    \/ ExecuteInsert(r) \/ AppendFails(r) \/ AnswerLost(r)
    \/ InitLedgerReturns(r) \/ AdmitReturns(r) \/ AdmitRetries(r)

Next ==
    \/ \E r \in Requests : Receive(r) \/ CancelContext(r) \/ Step(r)
    \/ \E w \in late : LateInsert(w) \/ LateRollback(w)
    \/ Crash

Spec == Init /\ [][Next]_vars

(* The Go scheduler runs every goroutine that can run, and every statement  *)
(* sent to the database is answered or fails.                               *)
FairSpec == Spec /\ \A r \in Requests : WF_vars(Step(r))

-----------------------------------------------------------------------------
(* Properties *)

Results ==
    {"ok", "unverified", "ErrLedgerAlreadyInitialized", "uninitialized",
     "ErrInvalidSequence", "unavailable", "persist failed", "context done",
     "exceeded retries", "lost"}

(* The answers that leave the caller in doubt: the INSERT was sent and its  *)
(* fate is not known to the process that answers.                           *)
InDoubt == {"persist failed", "lost"}

Calls == [op : Ops, ledger : Ledgers, payload : Payloads]

(* Every variable keeps its type.  Records nest their predecessors, so      *)
(* their type is stated by the ledger and sequence of the rows.             *)
TypeOK ==
    /\ \A x \in store : x.ledger \in Ledgers /\ x.seq \in 1..MaxSequence
    /\ \A w \in late : w.by \in Requests
    /\ key \in 0..MaxRestarts
    /\ pc \in [Requests -> {"idle", "attempt", "append", "acked", "done"}]
    /\ call \in [Requests -> Calls \cup {NoRecord}]
    /\ \A r \in Requests : pc[r] # "idle" => call[r] \in Calls
    /\ attempt \in [Requests -> 0..(MaxRetries + 1)]
    /\ \A r \in Requests : pc[r] # "done" => attempt[r] <= MaxRetries
    /\ rec = [r \in Requests |-> rec[r]]
    /\ outcome \in [Requests -> {"none", "stored", "ErrDuplicateRecord",
                                 "ErrChainHeadMoved", "ErrUnknownPredecessor"}]
    /\ cancelled \subseteq Requests
    /\ reply \in [Requests -> Results \cup {"none"}]
    /\ base \in [Requests -> 0..MaxSequence]
    /\ wrote \in [Requests -> SUBSET store]

(* However calls interleave, fail, are retried or outlive their process,    *)
(* the rows of a ledger form one chain: the kernel's                        *)
(* ValidateChainConsistency accepts every row after the row before it, and  *)
(* no two rows extend the same predecessor.  Admission itself never calls   *)
(* ValidateChainConsistency: the two unique indexes must do its work.       *)
ChainValid ==
    /\ \A x \in store :
          \/ ChainConsistent(Uninitialized, x)
          \/ \E p \in store : ChainConsistent(ChainStateFromRecord(p), x)
    /\ \A x, y \in store :
          x.ledger = y.ledger /\ x.prev = y.prev => x = y

(* A row is written only on top of the head as it is when the INSERT        *)
(* commits, though it was built on a head read earlier, and a step writes   *)
(* at most one row and removes none.                                        *)
AppendsAtHead ==
    [][store' # store =>
          \E x \in store' \ store :
             /\ store' = store \cup {x}
             /\ ChainConsistent(Head(x.ledger), x)]_vars

(* The foreign key never fires: when a statement built by admission is      *)
(* executed, even late, the predecessor it names is stored.                 *)
PredecessorPresent ==
    /\ \A r \in Requests :
          pc[r] = "append" => AppendOutcome(rec[r]) # "ErrUnknownPredecessor"
    /\ \A w \in late : AppendOutcome(w.rec) # "ErrUnknownPredecessor"

(* A call stores at most one row, over all its attempts, and tells the      *)
(* truth about it: "ok" means that the returned record is stored, for the   *)
(* ledger and payload of the call; any other answer that is not in doubt    *)
(* means that the call stored nothing.                                      *)
TruthfulAnswers ==
    \A r \in Requests :
       /\ \A x, y \in wrote[r] : x = y
       /\ reply[r] = "ok" =>
             /\ rec[r] \in store
             /\ rec[r].ledger = call[r].ledger
             /\ call[r].op # "InitLedger" => rec[r].payload = call[r].payload
       /\ reply[r] \notin InDoubt \cup {"ok", "none"} => wrote[r] = {}

(* Of the calls that race to initialize a ledger at most one is told that   *)
(* it did, and one that is told ErrLedgerAlreadyInitialized finds a genesis *)
(* that it did not write.                                                   *)
OneInitializer ==
    /\ \A r, q \in Requests :
          /\ reply[r] = "ok" /\ call[r].op = "InitLedger"
          /\ reply[q] = "ok" /\ call[q].op = "InitLedger"
          /\ call[r].ledger = call[q].ledger
          => r = q
    /\ \A r \in Requests :
          reply[r] = "ErrLedgerAlreadyInitialized" =>
             \E x \in Rows(call[r].ledger) \ wrote[r] : x.seq = 1

(* Retries are used up only by other calls' progress: "exceeded retries"    *)
(* means that MaxRetries + 1 rows, none of them this call's, were committed *)
(* after this call first read the head.                                     *)
ExhaustionMeansProgress ==
    \A r \in Requests :
       reply[r] = "exceeded retries" =>
          \A n \in 1..(MaxRetries + 1) :
             \E x \in Rows(call[r].ledger) \ wrote[r] : x.seq = base[r] + n

(* Every call returns: no interleaving of conflicting calls keeps one in    *)
(* the retry loop for ever.                                                 *)
EveryCallReturns ==
    \A r \in Requests : r \in InFlight ~> pc[r] = "done"

(* The log a reader sees: the entry at each stored sequence. *)
Log ==
    [l \in Ledgers |->
        [n \in {x.seq : x \in Rows(l)} |->
            LET x == CHOOSE x \in Rows(l) : x.seq = n
            IN  <<x.kind, x.payload>>]]

Abstract == INSTANCE LedgerLog WITH
    log <- Log,
    Genesis <- <<EventKindLedgerInitialized, GenesisPayload>>,
    Events <- {EventKindEndorsementAccepted, EventKindEndorsementRevoked}
                 \X VerifiedPayloads

(* Admission implements the abstract log: what readers of the table see is  *)
(* a log opened once and extended one verified event at a time.             *)
ImplementsLog == Abstract!LogSpec

-----------------------------------------------------------------------------
(* Replay of a stored ledger *)

RowAt(l, n) == CHOOSE x \in Rows(l) : x.seq = n

(* The chain state after n rows, advanced by ValidateChainConsistency. *)
ValidatedReplay(l) ==
    LET after[n \in 0..Head(l).last] ==
            IF n = 0 THEN Uninitialized
            ELSE IF ChainConsistent(after[n - 1], RowAt(l, n))
                 THEN ChainStateFromRecord(RowAt(l, n))
                 ELSE after[n - 1]
    IN  after[Head(l).last]

(* The same, advanced by the kernel's Apply. *)
AppliedReplay(l) ==
    LET after[n \in 0..Head(l).last] ==
            IF n = 0 THEN Uninitialized ELSE Apply(after[n - 1], RowAt(l, n))
    IN  after[Head(l).last]

(* Validating the rows of a ledger in order, from the empty chain, accepts  *)
(* every one of them and ends in exactly the state that Store.Head derives  *)
(* from the last row alone.                                                 *)
ReplayReachesHead == \A l \in Ledgers : ValidatedReplay(l) = Head(l)

-----------------------------------------------------------------------------
(* What documents and tests say of admission, and the code does not do *)

(* TestConcurrentAdmitContentionResolves: concurrent Admit calls all        *)
(* succeed, none runs out of its MaxRetries retries.                        *)
ContentionResolves == \A r \in Requests : reply[r] # "exceeded retries"

(* The record store's design: the server does not retry a call with another *)
(* sequence.  One call of Admit signs records for one sequence only.        *)
NoServerRenumbering ==
    [][\A r \in Requests :
          rec[r] # NoRecord /\ rec'[r] # rec[r] => rec'[r].seq = rec[r].seq]_vars

(* Signer.KeyReference names one key version.  Every record carries the     *)
(* configured reference, so one key must have signed them all.              *)
KeyReferenceNamesOneKey == \A x, y \in store : x.sig.key = y.sig.key

(* The decision on event ordering: replay from genesis through the kernel's *)
(* Apply reproduces the chain head.                                         *)
ApplyReachesHead == \A l \in Ledgers : AppliedReplay(l) = Head(l)
=============================================================================
