----------------------------- MODULE MCAdmission -----------------------------
(* Instances of Admission for TLC. *)
EXTENDS Admission, TLC

(* Calls are interchangeable: no action or safety property orders them. *)
RequestSymmetry == Permutations(Requests)

(* TestConcurrentAdmitContentionResolves once its workers are started: the  *)
(* ledger is initialized and every call, its payload naming the worker, is  *)
(* about to read the head.                                                  *)
WorkersStarted ==
    \E l \in Ledgers, s \in Stamps :
       /\ store = {NewRecord(NewGenesisEvent(l), [key |-> 0, stamp |-> s])}
       /\ pc = [r \in Requests |-> "attempt"]
       /\ call = [r \in Requests |->
                     [op |-> "AdmitEndorsement", ledger |-> l, payload |-> r]]
       /\ late = {}
       /\ key = 0
       /\ attempt = [r \in Requests |-> 0]
       /\ rec = [r \in Requests |-> NoRecord]
       /\ outcome = [r \in Requests |-> "none"]
       /\ cancelled = {}
       /\ reply = [r \in Requests |-> "none"]
       /\ base = [r \in Requests |-> 0]
       /\ wrote = [r \in Requests |-> {}]

WorkersSpec == WorkersStarted /\ [][Next]_vars
=============================================================================
