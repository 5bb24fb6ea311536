----------------------------- MODULE LedgerStore -----------------------------
(***************************************************************************)
(* internal/ledgerstore over its PostgreSQL table ledger_record.           *)
(*                                                                         *)
(* The table is a set of rows.  The derived columns repeat the fields of   *)
(* the record bytes, so a row is its record.  Each call of the store is    *)
(* one autocommitted statement, hence one atomic step; that a statement    *)
(* can outlive the call that sent it, or its answer get lost, is modelled  *)
(* by the callers.                                                         *)
(***************************************************************************)
EXTENDS LedgerKernel

CONSTANT Ledgers

VARIABLE store      \* the rows of ledger_record

StoreInit == store = {}

Rows(l) == {x \in store : x.ledger = l}

(* Store.Head: the highest-sequence row, re-derived from its bytes. *)
Head(l) ==
    IF Rows(l) = {}
    THEN Uninitialized
    ELSE ChainStateFromRecord(
             CHOOSE x \in Rows(l) : \A y \in Rows(l) : y.seq <= x.seq)

(* Faulty variant: the table lacks the (ledger_id, sequence_number) index. *)
OutcomeWithoutSequenceIndex(x) ==
    IF x \in store THEN "ErrDuplicateRecord"
    ELSE IF x.prev # NoDigest /\ x.prev[1] \notin store
         THEN "ErrUnknownPredecessor"
    ELSE "stored"

(* The constraint an INSERT meets, in the order PostgreSQL reports them:    *)
(* the digest key is the arbiter of ON CONFLICT DO NOTHING, the sequence    *)
(* index is checked on insertion, the foreign key after it.                 *)
AppendOutcome(x) ==
    IF x \in store THEN "ErrDuplicateRecord"
    ELSE IF \E y \in store : y.ledger = x.ledger /\ y.seq = x.seq
         THEN "ErrChainHeadMoved"
    ELSE IF x.prev # NoDigest /\ x.prev[1] \notin store
         THEN "ErrUnknownPredecessor"
    ELSE "stored"

(* Faulty variant: a conflicting sequence updates the row in place. *)
Upsert(x) ==
    store' = {y \in store : y.ledger # x.ledger \/ y.seq # x.seq} \cup {x}

(* Store.Append as the database executes it.  No statement of the program   *)
(* updates or deletes a row, and triggers refuse both.                      *)
Insert(x) ==
    store' = IF AppendOutcome(x) = "stored" THEN store \cup {x} ELSE store
==============================================================================
