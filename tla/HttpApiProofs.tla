--------------------------- MODULE HttpApiProofs ---------------------------
(***************************************************************************)
(* For every set of requests, every mix of endpoints and flaws, every page *)
(* size and every fault: the server drives the admission service only as   *)
(* Admission allows, and a 201 is backed by a stored record.               *)
(***************************************************************************)
EXTENDS HttpApi, AnswerProofs

(* The kind of event an operation of the service records. *)
KindOf(op) ==
    IF op = "InitLedger" THEN EventKindLedgerInitialized ELSE EventKind(op)

(* The record of a call has the kind its operation asks for. *)
Kinded(r) ==
    pc[r] \in {"append", "acked"} \/ reply[r] = "ok"
       => rec[r].kind = KindOf(call[r].op)

KindInv == \A r \in Requests : Kinded(r)

(* The call of r is what its request asks for. *)
Matches(r) ==
    /\ UsesAdmission(request[r].endpoint)
    /\ call[r].op = AdmissionOp(request[r].endpoint)
    /\ call[r].ledger = request[r].ledger
    /\ pc[r] # "idle"

(* A request in the service is its call; a 201 that is decided on, sent or  *)
(* logged is that call's "ok".                                              *)
RequestMatches(r) ==
    /\ stage[r] = "admitting" => Matches(r)
    /\ 201 \in {status[r], sent[r], logged[r]} =>
          Matches(r) /\ pc[r] = "done" /\ reply[r] = "ok"
    /\ stage[r] = "new" => 201 \notin {status[r], sent[r], logged[r]}

HttpTyped ==
    /\ stage = [r \in Requests |-> stage[r]]
    /\ request = [r \in Requests |-> request[r]]
    /\ status = [r \in Requests |-> status[r]]
    /\ sent = [r \in Requests |-> sent[r]]
    /\ logged = [r \in Requests |-> logged[r]]
    /\ mark = [r \in Requests |-> mark[r]]
    /\ acked = [r \in Requests |-> acked[r]]

ApiInv ==
    /\ ChainInv /\ AnswerInv /\ KindInv /\ HttpTyped
    /\ \A r \in Requests : RequestMatches(r)

-----------------------------------------------------------------------------
(* The service below the server *)

(* A call keeps its operation and ledger once it has begun, and its answer  *)
(* and record once it has returned.                                         *)
Settled(r) ==
    /\ pc[r] # "idle" => pc'[r] # "idle" /\ call'[r] = call[r]
    /\ pc[r] = "done" => pc'[r] = "done" /\ reply'[r] = reply[r]

InFlightCall(r) == pc[r] \in {"attempt", "append", "acked"}

(* An idle call stays idle, and none is put in flight. *)
NotBegun(r) ==
    /\ pc[r] = "idle" => pc'[r] = "idle"
    /\ InFlightCall(r)' => InFlightCall(r)

(* A step of a call settles every call, and begins none. *)
LEMMA OthersSettled ==
    ASSUME TypeOK, NEW r \in Requests, CancelContext(r) \/ Step(r)
    PROVE  \A q \in Requests : Settled(q) /\ NotBegun(q)
<1>1. ASSUME NEW result, Return(r, result), UNCHANGED call, pc[r] \notin {"idle", "done"}
      PROVE  \A q \in Requests : Settled(q) /\ NotBegun(q)
  BY Zenon, <1>1 DEF Return, Settled, NotBegun, InFlightCall, TypeOK
<1>2. CASE RefuseHead(r)
  BY Zenon, <1>1, <1>2 DEF RefuseHead
<1>3. CASE RejectSequence(r)
  BY Zenon, <1>1, <1>3 DEF RejectSequence
<1>4. CASE SignRecord(r)
  BY Zenon, <1>4 DEF SignRecord, Settled, NotBegun, InFlightCall, TypeOK
<1>5. CASE AttemptFails(r)
  BY Zenon, <1>1, <1>5 DEF AttemptFails
<1>6. CASE ExecuteInsert(r)
  BY Zenon, <1>6 DEF ExecuteInsert, Settled, NotBegun, InFlightCall, TypeOK
<1>7. CASE AppendFails(r)
  BY Zenon, <1>1, <1>7 DEF AppendFails
<1>8. CASE AnswerLost(r)
  BY Zenon, <1>1, <1>8 DEF AnswerLost
<1>9. CASE InitLedgerReturns(r)
  BY Zenon, <1>1, <1>9 DEF InitLedgerReturns
<1>10. CASE AdmitReturns(r)
  BY Zenon, <1>1, <1>10 DEF AdmitReturns
<1>11. CASE AdmitRetries(r)
  <2>1. CASE \E result : Return(r, result)
    BY Zenon, <1>1, <1>11, <2>1 DEF AdmitRetries
  <2>2. CASE pc' = [pc EXCEPT ![r] = "attempt"] /\ UNCHANGED reply
    BY Zenon, <1>11, <2>2 DEF AdmitRetries, Settled, NotBegun, InFlightCall, TypeOK
  <2> QED
    BY Zenon, <1>11, <2>1, <2>2 DEF AdmitRetries
<1>12. CASE CancelContext(r)
  BY Zenon, <1>12 DEF CancelContext, Settled, NotBegun, InFlightCall
<1> QED
  BY Zenon, <1>2, <1>3, <1>4, <1>5, <1>6, <1>7, <1>8, <1>9, <1>10, <1>11, <1>12
     DEF Step

(* Every step of the service leaves what has begun or returned as it is. *)
LEMMA ServiceSettles ==
    ASSUME ChainInv, [Next]_vars
    PROVE  \A q \in Requests : Settled(q)
<1> USE DEF ChainInv
<1>1. ASSUME NEW r \in Requests, Receive(r)
      PROVE  \A q \in Requests : Settled(q)
  BY Zenon, <1>1 DEF Receive, Return, Settled, TypeOK
<1>2. ASSUME NEW w \in late, LateInsert(w) \/ LateRollback(w)
      PROVE  \A q \in Requests : Settled(q)
  BY Zenon, <1>2 DEF LateInsert, LateRollback, control, Settled
<1>3. CASE Crash
  BY Zenon, <1>3 DEF Crash, InFlight, Settled
<1>4. CASE UNCHANGED vars
  BY Zenon, <1>4 DEF vars, control, Settled
<1> QED
  BY Zenon, <1>1, <1>2, <1>3, <1>4, OthersSettled DEF Next

(* A step that neither signs a record nor answers "ok" keeps the kinds. *)
LEMMA KindKept ==
    ASSUME KindInv, NEW q \in Requests, rec'[q] = rec[q],
           call'[q] = call[q] \/ pc'[q] \notin {"append", "acked"},
           pc'[q] \in {"append", "acked"} => pc[q] \in {"append", "acked"},
           reply'[q] = "ok" => /\ call'[q] = call[q]
                               /\ \/ reply[q] = "ok"
                                  \/ pc[q] \in {"append", "acked"}
    PROVE  Kinded(q)'
  BY Zenon DEF KindInv, Kinded

(* SignRecord builds a record of the kind its operation asks for. *)
LEMMA SignedKind ==
    ASSUME TypeOK, NEW r \in Requests, SignRecord(r)
    PROVE  /\ rec'[r].kind = KindOf(call[r].op)
           /\ rec' = [rec EXCEPT ![r] = rec'[r]]
<1>1. CASE call[r].op = "InitLedger"
  BY <1>1 DEF SignRecord, TypeOK, NewRecord, NewGenesisEvent, NewEvent, KindOf
<1>2. CASE call[r].op # "InitLedger"
  BY <1>2 DEF SignRecord, TypeOK, NewRecord, NewEvent, KindOf
<1> QED
  BY Zenon, <1>1, <1>2

(* Every step of the service keeps the kinds. *)
LEMMA KindStep ==
    ASSUME ChainInv, AnswerInv, KindInv, [Next]_vars
    PROVE  KindInv'
<1> USE DEF ChainInv
<1> SUFFICES ASSUME NEW q \in Requests PROVE Kinded(q)'
  BY Zenon DEF KindInv
<1>1. ASSUME NEW r \in Requests, Receive(r)
      PROVE  Kinded(q)'
  <2>1. pc[r] = "idle" /\ reply[r] = "none"
    BY Zenon, <1>1 DEF Receive, AnswerInv, RequestInv
  <2>2. rec' = rec /\ (q # r => pc'[q] = pc[q] /\ call'[q] = call[q] /\ reply'[q] = reply[q])
    BY Zenon, <1>1 DEF Receive, Return, TypeOK
  <2>3. pc'[r] \notin {"append", "acked"} /\ reply'[r] # "ok"
    BY Zenon, <1>1, <2>1 DEF Receive, Return, TypeOK
  <2> QED
    BY Zenon, <2>2, <2>3, KindKept
<1>2. ASSUME NEW r \in Requests, NEW result, Return(r, result),
             UNCHANGED <<call, rec>>, result = "ok" => pc[r] = "acked"
      PROVE  Kinded(q)'
  <2>1. pc'[r] = "done" /\ reply'[r] = result
    BY Zenon, <1>2 DEF Return, TypeOK
  <2>2. q # r => pc'[q] = pc[q] /\ reply'[q] = reply[q]
    BY Zenon, <1>2 DEF Return, TypeOK
  <2> QED
    BY Zenon, <1>2, <2>1, <2>2, KindKept
<1>3. ASSUME NEW r \in Requests,
             RefuseHead(r) \/ RejectSequence(r) \/ AttemptFails(r)
             \/ AppendFails(r) \/ AnswerLost(r) \/ InitLedgerReturns(r)
             \/ AdmitReturns(r)
      PROVE  Kinded(q)'
  <2>1. CASE RefuseHead(r)
    BY Zenon, <1>2, <2>1 DEF RefuseHead
  <2>2. CASE RejectSequence(r)
    BY Zenon, <1>2, <2>2 DEF RejectSequence
  <2>3. CASE AttemptFails(r)
    BY Zenon, <1>2, <2>3 DEF AttemptFails
  <2>4. CASE AppendFails(r)
    <3>1. Return(r, "persist failed") /\ UNCHANGED <<call, rec>>
      BY Zenon, <2>4 DEF AppendFails
    <3> QED
      BY Zenon, <1>2, <3>1
  <2>5. CASE AnswerLost(r)
    BY Zenon, <1>2, <2>5 DEF AnswerLost
  <2>6. CASE InitLedgerReturns(r)
    BY Zenon, <1>2, <2>6 DEF InitLedgerReturns
  <2>7. CASE AdmitReturns(r)
    BY Zenon, <1>2, <2>7 DEF AdmitReturns
  <2> QED
    BY Zenon, <1>3, <2>1, <2>2, <2>3, <2>4, <2>5, <2>6, <2>7
<1>4. ASSUME NEW r \in Requests, SignRecord(r)
      PROVE  Kinded(q)'
  <2>1. rec' = [rec EXCEPT ![r] = rec'[r]]
    BY Zenon, <1>4, SignedKind
  <2>2. rec'[r].kind = KindOf(call[r].op)
    BY Zenon, <1>4, SignedKind
  <2>3. UNCHANGED <<call, reply>> /\ pc' = [pc EXCEPT ![r] = "append"]
    BY Zenon, <1>4 DEF SignRecord
  <2>4. CASE q = r
    BY Zenon, <2>2, <2>3, <2>4 DEF Kinded
  <2>5. CASE q # r
    BY Zenon, <2>1, <2>3, <2>5 DEF Kinded, KindInv, TypeOK
  <2> QED
    BY Zenon, <2>4, <2>5
<1>5. ASSUME NEW r \in Requests, ExecuteInsert(r)
      PROVE  Kinded(q)'
  BY Zenon, <1>5, KindKept DEF ExecuteInsert, TypeOK
<1>6. ASSUME NEW r \in Requests, AdmitRetries(r)
      PROVE  Kinded(q)'
  <2>1. CASE Return(r, "context done") \/ Return(r, "exceeded retries")
    BY Zenon, <1>2, <1>6, <2>1 DEF AdmitRetries
  <2>2. CASE pc' = [pc EXCEPT ![r] = "attempt"] /\ UNCHANGED reply
    BY Zenon, <1>6, <2>2, KindKept DEF AdmitRetries, TypeOK
  <2> QED
    BY Zenon, <1>6, <2>1, <2>2 DEF AdmitRetries
<1>7. ASSUME NEW r \in Requests, CancelContext(r)
      PROVE  Kinded(q)'
  BY Zenon, <1>7, KindKept DEF CancelContext
<1>8. ASSUME NEW w \in late, LateInsert(w) \/ LateRollback(w)
      PROVE  Kinded(q)'
  BY Zenon, <1>8, KindKept DEF LateInsert, LateRollback, control
<1>9. CASE Crash
  BY Zenon, <1>9, KindKept DEF Crash
<1>10. CASE UNCHANGED vars
  BY Zenon, <1>10, KindKept DEF vars, control
<1> QED
  BY Zenon, <1>1, <1>3, <1>4, <1>5, <1>6, <1>7, <1>8, <1>9, <1>10 DEF Next, Step

-----------------------------------------------------------------------------
(* The server *)

(* A step of the server is a step of the service, or leaves it alone. *)
LEMMA ApiStepIsServiceStep ==
    ASSUME [ApiNext]_apiVars
    PROVE  [Next]_vars
<1>1. ASSUME NEW r, Handle(r)
      PROVE  UNCHANGED vars
  BY Zenon, <1>1 DEF Handle, AdmissionReturns, GetLedgerHead, GetRecord,
     EvaluatePage, ReplayRefused, ReadFails, Respond
<1>2. ASSUME NEW r \in Requests, NEW e, NEW l, NEW flaw,
             Refuse(r, e, l, flaw) \/ CallAdmission(r, e, l, flaw)
             \/ CallStore(r, e, l, flaw)
      PROVE  [Next]_vars
  BY Zenon, <1>2 DEF Refuse, CallAdmission, CallStore, Next
<1>3. CASE Background
  BY Zenon, <1>3 DEF Background, Next
<1>4. CASE ProcessCrash
  BY Zenon, <1>4 DEF ProcessCrash, Next
<1>5. CASE UNCHANGED apiVars
  BY Zenon, <1>5 DEF apiVars
<1> QED
  BY Zenon, <1>1, <1>2, <1>3, <1>4, <1>5 DEF ApiNext

(* A request arrives, and its operation begins or is refused. *)
Arrival(r, e, l, flaw) ==
    Refuse(r, e, l, flaw) \/ CallAdmission(r, e, l, flaw) \/ CallStore(r, e, l, flaw)

(* What the server has of q. *)
Untouched(q) ==
    /\ stage'[q] = stage[q] /\ request'[q] = request[q] /\ mark'[q] = mark[q]
    /\ status'[q] = status[q] /\ sent'[q] = sent[q] /\ logged'[q] = logged[q]
    /\ acked'[q] = acked[q]

(* The tables of the server keep their domains, and a request's handler     *)
(* writes only its own entries.                                             *)
LEMMA ArrivalTables ==
    ASSUME HttpTyped, NEW r \in Requests, NEW e, NEW l, NEW flaw,
           Arrival(r, e, l, flaw)
    PROVE  HttpTyped' /\ \A q \in Requests \ {r} : Untouched(q)
  BY DEF Arrival, Refuse, CallAdmission, CallStore, Arrives, Answer, HttpTyped,
     Untouched

LEMMA HandleTables ==
    ASSUME HttpTyped, NEW r \in Requests, Handle(r)
    PROVE  HttpTyped' /\ \A q \in Requests \ {r} : Untouched(q)
  BY DEF Handle, AdmissionReturns, GetLedgerHead, GetRecord,
     EvaluatePage, ReplayRefused, ReadFails, Respond, ServeLogged, Answer,
     HttpTyped, Untouched

LEMMA TypedStep ==
    ASSUME HttpTyped, [ApiNext]_apiVars
    PROVE  HttpTyped'
<1>1. CASE UNCHANGED http
  BY Zenon, <1>1 DEF http, HttpTyped
<1>2. CASE ProcessCrash
  BY Zenon, <1>2 DEF ProcessCrash, HttpTyped
<1> QED
  BY Zenon, <1>1, <1>2, ArrivalTables, HandleTables
     DEF ApiNext, Arrival, Background, apiVars

(* What an arrival leaves of the request. *)
LEMMA ArrivalEntries ==
    ASSUME HttpTyped, NEW r \in Requests, NEW e, NEW l, NEW flaw,
           Arrival(r, e, l, flaw)
    PROVE  /\ stage[r] = "new" /\ UNCHANGED hasStore
           /\ request'[r].endpoint = e /\ request'[r].ledger = l
           /\ request'[r].flaw = flaw
           /\ request'[r].digest \in KnownDigests(l) \cup {NoRecord}
           /\ acked'[r] = Reported(l) /\ mark'[r] = mark[r]
           /\ sent'[r] = sent[r] /\ logged'[r] = logged[r]
<1>1. PICK d \in KnownDigests(l) \cup {NoRecord} :
         request' = [request EXCEPT ![r] =
                  [endpoint |-> e, ledger |-> l, flaw |-> flaw, digest |-> d]]
  BY Zenon DEF Arrival, Refuse, CallAdmission, CallStore, Arrives
<1>2. request'[r] = [endpoint |-> e, ledger |-> l, flaw |-> flaw, digest |-> d]
  BY Zenon, <1>1 DEF HttpTyped
<1>3. /\ stage[r] = "new" /\ UNCHANGED <<hasStore, mark, sent, logged>>
      /\ acked' = [acked EXCEPT ![r] = Reported(l)]
  BY Zenon DEF Arrival, Refuse, CallAdmission, CallStore, Arrives
<1>4. acked'[r] = Reported(l)
  BY SMTT(20), <1>3 DEF HttpTyped
<1> QED
  BY <1>2, <1>3, <1>4

(* Where an arrival leaves the request: in the service, reading, or with a  *)
(* status that promises nothing.                                            *)
LEMMA ArrivalStages ==
    ASSUME ChainInv, HttpTyped, NEW r \in Requests, NEW e, NEW l, NEW flaw,
           Arrival(r, e, l, flaw)
    PROVE  \/ /\ stage'[r] = "admitting" /\ status'[r] = status[r] /\ pc'[r] # "idle"
              /\ UsesAdmission(e)
              /\ call'[r].op = AdmissionOp(e) /\ call'[r].ledger = l
           \/ stage'[r] = "reading" /\ status'[r] = status[r] /\ UNCHANGED vars
           \/ /\ stage'[r] = "respond" /\ status'[r] \in {200, 400, 404, 405}
              /\ status'[r] = 200 => e = "GetHealthz"
              /\ status'[r] = 404 => ~Reaches(e, flaw)
              /\ UNCHANGED vars
<1>1. CASE CallAdmission(r, e, l, flaw)
  <2>1. /\ stage' = [stage EXCEPT ![r] = "admitting"] /\ UNCHANGED status
        /\ call'[r].op = AdmissionOp(e) /\ call'[r].ledger = l
        /\ UsesAdmission(e)
    BY Zenon, <1>1 DEF CallAdmission
  <2>2. pc'[r] # "idle"
    BY Zenon, <1>1 DEF CallAdmission, Receive, Return, ChainInv, TypeOK
  <2> QED
    BY Zenon, <2>1, <2>2 DEF HttpTyped
<1>2. CASE CallStore(r, e, l, flaw)
  BY Zenon, <1>2 DEF CallStore, HttpTyped
<1>3. ASSUME NEW code, Answer(r, code)
      PROVE  stage'[r] = "respond" /\ status'[r] = code
  BY Zenon, <1>3 DEF Answer, HttpTyped
<1>4. CASE Refuse(r, e, l, flaw)
  <2>1. PICK code \in {200, 400, 404, 405} :
          /\ Answer(r, code) /\ (code = 200 => e = "GetHealthz")
          /\ code = 404 => ~Reaches(e, flaw)
    BY <1>4 DEF Refuse, RouterStatus, RefusalStatus, Reaches
  <2> QED
    BY <1>3, <1>4, <2>1 DEF Refuse
<1> QED
  BY Zenon, <1>1, <1>2, <1>4 DEF Arrival

(* What the handler leaves of a request that it has called for: an answer,  *)
(* or the next page to read.                                                *)
LEMMA HandleEntries ==
    ASSUME HttpTyped, NEW r \in Requests, Handle(r), ~Respond(r)
    PROVE  /\ UNCHANGED <<vars, hasStore, request, sent, logged, acked>>
           /\ \/ stage[r] = "admitting" /\ pc[r] = "done"
              \/ stage[r] = "reading"
  BY Zenon DEF Handle, AdmissionReturns, GetLedgerHead, GetRecord, EvaluatePage,
     ReplayRefused, ReadFails, Reading

(* The status that a handler decides on. *)
LEMMA HandleAnswers ==
    ASSUME HttpTyped, NEW r \in Requests, Handle(r), ~Respond(r)
    PROVE  \/ /\ stage'[r] = "respond" /\ status'[r] \in Codes
              /\ status'[r] = 201 => stage[r] = "admitting" /\ reply[r] = "ok"
           \/ stage'[r] = stage[r] /\ status'[r] = status[r] /\ EvaluatePage(r)
<1>1. ASSUME NEW code \in Codes, Answer(r, code)
      PROVE  stage'[r] = "respond" /\ status'[r] = code
  BY Zenon, <1>1 DEF Answer, HttpTyped
<1>2. CASE AdmissionReturns(r)
  <2>1. CASE request[r].endpoint = "InitLedger"
    BY <1>1, <1>2, <2>1 DEF AdmissionReturns, InitLedgerStatus, Codes
  <2>2. CASE request[r].endpoint # "InitLedger"
    BY <1>1, <1>2, <2>2 DEF AdmissionReturns, AdmitStatus, Codes
  <2> QED
    BY Zenon, <2>1, <2>2
<1>3. GetLedgerHead(r) \/ GetRecord(r) => Answer(r, 200) \/ Answer(r, 404)
  BY Zenon DEF GetLedgerHead, GetRecord
<1>4. EvaluatePage(r) =>
         Answer(r, 200) \/ Answer(r, 400) \/ UNCHANGED <<stage, status>>
  BY Zenon DEF EvaluatePage
<1>5. ReplayRefused(r) \/ ReadFails(r) => Answer(r, 500)
  BY Zenon DEF ReplayRefused, ReadFails
<1> QED
  BY <1>1, <1>2, <1>3, <1>4, <1>5 DEF Handle, Codes

(* What is sent is what was decided on; what is logged, that or a late 500. *)
LEMMA RespondEntries ==
    ASSUME HttpTyped, NEW r \in Requests, Respond(r)
    PROVE  /\ stage[r] = "respond" /\ stage'[r] = "served"
           /\ sent'[r] = status[r] /\ logged'[r] \in {status[r], 500}
           /\ UNCHANGED <<vars, hasStore, request, mark, status, acked>>
  BY DEF Respond, ServeLogged, HttpTyped

-----------------------------------------------------------------------------
(* Requests and calls agree *)

(* A request whose call is settled keeps what it knows of it. *)
LEMMA RequestKept ==
    ASSUME NEW q \in Requests, RequestMatches(q), Settled(q),
           request'[q] = request[q], status'[q] = status[q],
           sent'[q] = sent[q], logged'[q] = logged[q],
           stage'[q] \in {"admitting", "new"} => stage'[q] = stage[q]
    PROVE  RequestMatches(q)'
  BY DEF RequestMatches, Matches, Settled, UsesAdmission, AdmissionOp

(* A request arrives: nothing was promised before, and the call that        *)
(* begins, if one does, is the one asked for.                               *)
LEMMA ArrivalMatches ==
    ASSUME ChainInv, HttpTyped, NEW r \in Requests, NEW e, NEW l, NEW flaw,
           RequestMatches(r), Arrival(r, e, l, flaw)
    PROVE  RequestMatches(r)'
<1>1. /\ stage[r] = "new" /\ request'[r].endpoint = e /\ request'[r].ledger = l
      /\ sent'[r] = sent[r] /\ logged'[r] = logged[r]
  BY ArrivalEntries
<1>2. 201 \notin {status[r], sent'[r], logged'[r]}
  BY Zenon, <1>1 DEF RequestMatches
<1>3. \/ stage'[r] = "admitting" /\ status'[r] = status[r] /\ Matches(r)'
      \/ stage'[r] \in {"reading", "respond"} /\ status'[r] \in {status[r], 200, 400, 404, 405}
  BY <1>1, ArrivalStages DEF Matches
<1> QED
  BY <1>2, <1>3 DEF RequestMatches

(* The service's answer becomes a 201 only when it is "ok", the reads never *)
(* promise anything, and what is sent was decided on.                       *)
LEMMA HandleMatches ==
    ASSUME HttpTyped, NEW r \in Requests, RequestMatches(r), Handle(r)
    PROVE  RequestMatches(r)'
<1>1. CASE Respond(r)
  <2>1. Matches(r) => Matches(r)'
    BY SMTT(20), <1>1, RespondEntries
       DEF Matches, UsesAdmission, AdmissionOp, vars, control
  <2>2. UNCHANGED <<pc, reply, status>>
    BY ZenonT(30), <1>1, RespondEntries DEF vars, control
  <2>3. /\ stage[r] = "respond" /\ stage'[r] = "served"
        /\ sent'[r] = status[r] /\ logged'[r] \in {status[r], 500}
    BY <1>1, RespondEntries
  <2> QED
    BY <2>1, <2>2, <2>3 DEF RequestMatches
<1>2. CASE ~Respond(r)
  <2>1. Matches(r) => Matches(r)'
    BY Zenon, <1>2, HandleEntries DEF Matches, UsesAdmission, AdmissionOp, vars, control
  <2>2. /\ UNCHANGED <<sent, logged, pc, reply>>
        /\ stage[r] = "admitting" => pc[r] = "done"
    BY Zenon, <1>2, HandleEntries DEF vars, control
  <2> QED
    BY <1>2, <2>1, <2>2, HandleAnswers DEF RequestMatches
<1> QED
  BY Zenon, <1>1, <1>2

(* Every step of the server keeps requests and calls in agreement. *)
LEMMA MatchesStep ==
    ASSUME ApiInv, [ApiNext]_apiVars, NEW q \in Requests
    PROVE  RequestMatches(q)'
<1>1. Settled(q) /\ RequestMatches(q) /\ HttpTyped /\ ChainInv
  BY Zenon, ApiStepIsServiceStep, ServiceSettles DEF ApiInv
<1>2. CASE Untouched(q)
  BY Zenon, <1>1, <1>2, RequestKept DEF Untouched
<1>3. CASE UNCHANGED http
  BY Zenon, <1>2, <1>3 DEF http, Untouched
<1>4. CASE ProcessCrash
  BY Zenon, <1>1, <1>4, RequestKept DEF ProcessCrash
<1> QED
  BY Zenon, <1>1, <1>2, <1>3, <1>4, ArrivalTables, ArrivalMatches, HandleTables,
     HandleMatches
     DEF ApiNext, Arrival, Background, apiVars

-----------------------------------------------------------------------------
(* The server implements the service's specification: whatever it does with *)
(* requests, what the store and the calls go through is a behaviour of      *)
(* Admission, so every theorem about Admission holds under the API.         *)
THEOREM ApiImplementsAdmission == ApiSpec => Spec
<1>1. ApiInit => Init
  BY Zenon DEF ApiInit
<1>2. [ApiNext]_apiVars => [Next]_vars
  BY Zenon, ApiStepIsServiceStep
<1> QED
  BY <1>1, <1>2, PTL DEF ApiSpec, Spec

(* The inductive invariant of the server over the service. *)
THEOREM ApiInvariant == ApiSpec => []ApiInv
<1>1. ApiInit => KindInv /\ HttpTyped /\ \A r \in Requests : RequestMatches(r)
  BY DEF ApiInit, Init, KindInv, Kinded, HttpTyped, RequestMatches
<1>2. ChainInv /\ AnswerInv /\ ApiInit => ApiInv
  BY Zenon, <1>1 DEF ApiInv
<1>3. ApiInv /\ [ApiNext]_apiVars /\ ChainInv' /\ AnswerInv' => ApiInv'
  <2> SUFFICES ASSUME ApiInv, [ApiNext]_apiVars, ChainInv', AnswerInv'
               PROVE  ApiInv'
    BY Zenon
  <2>1. KindInv'
    BY Zenon, ApiStepIsServiceStep, KindStep DEF ApiInv
  <2>2. HttpTyped'
    BY Zenon, TypedStep DEF ApiInv
  <2>3. \A q \in Requests : RequestMatches(q)'
    BY Zenon, MatchesStep
  <2> QED
    BY Zenon, <2>1, <2>2, <2>3 DEF ApiInv
<1> QED
  BY <1>2, <1>3, ApiImplementsAdmission, ChainInvariant, AnswerInvariant, PTL
     DEF ApiSpec

(* A 201 that a client or the log has seen is backed by a stored record of  *)
(* the requested ledger and kind.                                           *)
THEOREM CreatedIsStored == ApiSpec => []CreatedMeansStored
<1>1. ApiInv => CreatedMeansStored
  <2> SUFFICES ASSUME ApiInv, NEW r \in Requests,
                      201 \in {sent[r], logged[r]}
               PROVE  /\ rec[r] \in store
                      /\ rec[r].ledger = request[r].ledger
                      /\ rec[r].kind =
                            (CASE request[r].endpoint = "InitLedger"
                                    -> EventKindLedgerInitialized
                               [] request[r].endpoint = "AcceptEndorsement"
                                    -> EventKindEndorsementAccepted
                               [] OTHER -> EventKindEndorsementRevoked)
    BY Zenon DEF CreatedMeansStored
  <2>1. Matches(r) /\ pc[r] = "done" /\ reply[r] = "ok"
    BY Zenon DEF ApiInv, RequestMatches
  <2>2. rec[r] \in store /\ rec[r].ledger = call[r].ledger
    BY Zenon, <2>1 DEF ApiInv, AnswerInv, RequestInv, Answered, Built
  <2>3. rec[r].kind = KindOf(call[r].op)
    BY Zenon, <2>1 DEF ApiInv, KindInv, Kinded
  <2> QED
    BY Zenon, <2>1, <2>2, <2>3 DEF Matches, KindOf, EventKind, UsesAdmission,
       AdmissionOp, EventKindLedgerInitialized,
       EventKindEndorsementAccepted, EventKindEndorsementRevoked
<1> QED
  BY <1>1, ApiInvariant, PTL
=============================================================================
