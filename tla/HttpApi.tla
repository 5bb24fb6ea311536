------------------------------ MODULE HttpApi ------------------------------
(***************************************************************************)
(* internal/httpapi over internal/admission and internal/ledgerstore: from *)
(* a request's arrival to the status its client and the log see.           *)
(*                                                                         *)
(* Each element of Requests is one HTTP request.  One that reaches the     *)
(* admission service is the call of the same name in Admission, whose      *)
(* steps it composes with; the reads run beside them.  What a request says *)
(* is abstracted to the first thing in it that is not right (its flaw).    *)
(*                                                                         *)
(*   new --route, bind, decode, parse--> admitting | reading | respond     *)
(*       admitting --the service returns--> respond                        *)
(*       reading --store answers (page by page)--> respond                 *)
(*       respond --write, log--> served                                    *)
(***************************************************************************)
EXTENDS Admission, FiniteSetsExt

CONSTANTS Endpoints,     \* operations requested
          Flaws,         \* flaws of requests, "none" among them
          BatchSize      \* rows per page of a replay, 256

ASSUME PageAssumption == BatchSize \in Nat \ {0}
ASSUME EndpointAssumption ==
    Endpoints \subseteq {"GetHealthz", "InitLedger", "GetLedgerHead",
        "GetRecord", "AcceptEndorsement", "RevokeEndorsement",
        "EvaluateConfidence"}

VARIABLES hasStore,   \* a database is configured
          stage,      \* [Requests -> where the request is]
          request,    \* [Requests -> endpoint, ledger and flaw]
          mark,       \* [Requests -> sequence replayed or read]
          status,     \* [Requests -> the status the handler decided on]
          sent,       \* [Requests -> the status on the wire, 0 if none]
          logged      \* [Requests -> the status in its log entry, 0 if none]

(* History: the highest sequence a 201 had reported for the ledger when the *)
(* request arrived.                                                         *)
VARIABLE acked

http == <<hasStore, stage, request, mark, status, sent, logged, acked>>
apiVars == <<vars, http>>

NoRequest == [endpoint |-> "none", ledger |-> NoRecord, flaw |-> "none",
              digest |-> NoRecord]

ApiInit ==
    /\ Init
    /\ hasStore \in BOOLEAN
    /\ stage = [r \in Requests |-> "new"]
    /\ request = [r \in Requests |-> NoRequest]
    /\ mark = [r \in Requests |-> 0]
    /\ status = [r \in Requests |-> 0]
    /\ sent = [r \in Requests |-> 0]
    /\ logged = [r \in Requests |-> 0]
    /\ acked = [r \in Requests |-> 0]

----------------------------------------------------------------------------
(* From arrival to the handler.                                            *)

HasBody(e) == e \in {"AcceptEndorsement", "RevokeEndorsement", "EvaluateConfidence"}
UsesAdmission(e) == e \in {"InitLedger", "AcceptEndorsement", "RevokeEndorsement"}

(* chi: no route matches the path, or none the method. *)
Unrouted(flaw) == flaw \in {"path", "method"}
RouterStatus(flaw) == IF flaw = "path" THEN 404 ELSE 405

(* ServerInterfaceWrapper cannot bind the path parameter: its error handler *)
(* answers 400.                                                             *)
BindFails(flaw) == flaw = "parameter"

(* strictHandler cannot decode the body: its error handler answers 400. *)
DecodeFails(flaw) == flaw = "body"

Undecodable(flaw) == BindFails(flaw) \/ DecodeFails(flaw)

(* The handlers' own checks before they call the service or the store:      *)
(* a missing database, parseHex32 of the path parameter, and the fields of  *)
(* the body (keys, signatures, lengths).                                    *)
HandlerRefuses(e, flaw) ==
    /\ e # "GetHealthz"
    /\ ~hasStore \/ flaw \in {"id", "field"}

RefusalStatus(e) ==
    IF e \in {"GetLedgerHead", "GetRecord"} \/ (e = "EvaluateConfidence" /\ ~hasStore)
    THEN 404 ELSE 400

(* The highest sequence that a 201 has reported for a ledger. *)
Reported(l) ==
    Max({0} \cup {rec[q].seq : q \in {q \in Requests :
                                 sent[q] = 201 /\ request[q].ledger = l}})

(* Records a client can name: those a 201 reported, and one that is nowhere. *)
KnownDigests(l) ==
    {NoRecord} \cup {rec[q] : q \in {q \in Requests :
                                 sent[q] = 201 /\ request[q].ledger = l}}

(* A request can only be wrong in a part that its operation has. *)
HasPart(e, flaw) ==
    CASE flaw \in {"parameter", "id"} -> e # "GetHealthz"
      [] flaw \in {"body", "field"} -> HasBody(e)
      [] flaw = "policy" -> e = "EvaluateConfidence"
      [] OTHER -> TRUE

Arrives(r, e, l, flaw) ==
    /\ stage[r] = "new" /\ HasPart(e, flaw)
    /\ \E d \in IF e = "GetRecord" THEN KnownDigests(l) ELSE {NoRecord} :
         request' = [request EXCEPT ![r] =
                       [endpoint |-> e, ledger |-> l, flaw |-> flaw, digest |-> d]]
    /\ acked' = [acked EXCEPT ![r] = Reported(l)]
    /\ UNCHANGED <<hasStore, mark, sent, logged>>

Answer(r, code) ==
    stage' = [stage EXCEPT ![r] = "respond"] /\ status' = [status EXCEPT ![r] = code]

(* Answered without the service or the store. *)
Refuse(r, e, l, flaw) ==
    /\ Arrives(r, e, l, flaw)
    /\ \/ Unrouted(flaw) /\ Answer(r, RouterStatus(flaw))
       \/ ~Unrouted(flaw) /\ Undecodable(flaw) /\ Answer(r, 400)
       \/ /\ ~Unrouted(flaw) /\ ~Undecodable(flaw) /\ HandlerRefuses(e, flaw)
          /\ Answer(r, RefusalStatus(e))
       \/ ~Unrouted(flaw) /\ e = "GetHealthz" /\ Answer(r, 200)
    /\ UNCHANGED vars

Reaches(e, flaw) ==
    /\ e # "GetHealthz" /\ ~Unrouted(flaw)
    /\ ~Undecodable(flaw) /\ ~HandlerRefuses(e, flaw)

AdmissionOp(e) ==
    CASE e = "InitLedger" -> "InitLedger"
      [] e = "AcceptEndorsement" -> "AdmitEndorsement"
      [] OTHER -> "AdmitRevocation"

(* Faulty variant: 201 is answered without waiting for the service. *)
CallAdmissionDetached(r, e, l, flaw) ==
    /\ Arrives(r, e, l, flaw)
    /\ UsesAdmission(e) /\ Reaches(e, flaw)
    /\ Receive(r)
    /\ call'[r].op = AdmissionOp(e) /\ call'[r].ledger = l
    /\ Answer(r, 201)

(* InitLedger, AcceptEndorsement and RevokeEndorsement call the service. *)
CallAdmission(r, e, l, flaw) ==
    /\ Arrives(r, e, l, flaw)
    /\ UsesAdmission(e) /\ Reaches(e, flaw)
    /\ Receive(r)
    /\ call'[r].op = AdmissionOp(e) /\ call'[r].ledger = l
    /\ stage' = [stage EXCEPT ![r] = "admitting"]
    /\ UNCHANGED status

(* GetLedgerHead, GetRecord and EvaluateConfidence go to the store. *)
CallStore(r, e, l, flaw) ==
    /\ Arrives(r, e, l, flaw)
    /\ ~UsesAdmission(e) /\ Reaches(e, flaw)
    /\ stage' = [stage EXCEPT ![r] = "reading"]
    /\ UNCHANGED <<vars, status>>

----------------------------------------------------------------------------
(* The handlers after the call.                                            *)

InitLedgerStatus(result) ==
    CASE result = "ok" -> 201
      [] result = "ErrLedgerAlreadyInitialized" -> 409
      [] OTHER -> 500

(* Faulty variant: an answer that was lost counts as a success. *)
AdmitStatusOptimistic(result) ==
    IF result \in {"ok", "persist failed"} THEN 201 ELSE 400

(* Every error of AdmitEndorsement and AdmitRevocation becomes 400. *)
AdmitStatus(result) == IF result = "ok" THEN 201 ELSE 400

AdmissionReturns(r) ==
    /\ stage[r] = "admitting" /\ pc[r] = "done"
    /\ Answer(r, IF request[r].endpoint = "InitLedger"
                 THEN InitLedgerStatus(reply[r]) ELSE AdmitStatus(reply[r]))
    /\ UNCHANGED <<vars, hasStore, request, mark, sent, logged, acked>>

Reading(r, e) == stage[r] = "reading" /\ request[r].endpoint = e

GetLedgerHead(r) ==
    LET head == Head(request[r].ledger)
    IN  /\ Reading(r, "GetLedgerHead")
        /\ mark' = [mark EXCEPT ![r] = head.last]
        /\ Answer(r, IF head.initialized THEN 200 ELSE 404)
        /\ UNCHANGED <<vars, hasStore, request, sent, logged, acked>>

GetRecord(r) ==
    /\ Reading(r, "GetRecord")
    /\ Answer(r, IF request[r].digest \in store THEN 200 ELSE 404)
    /\ UNCHANGED <<vars, hasStore, request, mark, sent, logged, acked>>

(* The rows ScanRecords returns after a sequence. *)
Page(l, n) == {x \in Rows(l) : x.seq > n /\ x.seq <= n + BatchSize}

(* Faulty variants: the replay ends with its first page, or starts the next *)
(* page where it started this one.                                          *)
EvaluateFirstPage(r) ==
    LET page == Page(request[r].ledger, mark[r])
    IN  /\ Reading(r, "EvaluateConfidence")
        /\ mark' = [mark EXCEPT ![r] = @ + Cardinality(page)]
        /\ Answer(r, IF request[r].flaw = "policy" THEN 400 ELSE 200)
        /\ UNCHANGED <<vars, hasStore, request, sent, logged, acked>>

EvaluateSamePage(r) ==
    LET page == Page(request[r].ledger, mark[r])
    IN  /\ Reading(r, "EvaluateConfidence")
        /\ IF Cardinality(page) < BatchSize
           THEN Answer(r, IF request[r].flaw = "policy" THEN 400 ELSE 200)
           ELSE UNCHANGED <<stage, status>>
        /\ UNCHANGED <<vars, hasStore, request, mark, sent, logged, acked>>

(* EvaluateConfidence replays the ledger page by page and evaluates after   *)
(* a page that is not full.                                                 *)
EvaluatePage(r) ==
    LET page == Page(request[r].ledger, mark[r])
    IN  /\ Reading(r, "EvaluateConfidence")
        /\ mark' = [mark EXCEPT ![r] = @ + Cardinality(page)]
        /\ IF Cardinality(page) < BatchSize
           THEN Answer(r, IF request[r].flaw = "policy" THEN 400 ELSE 200)
           ELSE UNCHANGED <<stage, status>>
        /\ UNCHANGED <<vars, hasStore, request, sent, logged, acked>>

(* The projector refuses a revocation of the page (Projection says which);  *)
(* the handler answers with the error.                                      *)
ReplayRefused(r) ==
    /\ Reading(r, "EvaluateConfidence")
    /\ \E x \in Page(request[r].ledger, mark[r]) : x.kind = EventKindEndorsementRevoked
    /\ Answer(r, 500)
    /\ UNCHANGED <<vars, hasStore, request, mark, sent, logged, acked>>

(* The store fails, the client's context is done, or the handler panics and *)
(* serveLogged recovers.                                                    *)
ReadFails(r) ==
    /\ Faults /\ stage[r] = "reading"
    /\ Answer(r, 500)
    /\ UNCHANGED <<vars, hasStore, request, mark, sent, logged, acked>>

(* A response that the connection's buffers do not hold may fail while it   *)
(* is written.                                                              *)
Large(r) == request[r].endpoint \in {"GetRecord", "EvaluateConfidence"} /\ status[r] = 200

(* serveLogged logs the last status that was set. *)
ServeLogged(r, code) == logged' = [logged EXCEPT ![r] = code]

(* Visit...Response writes the header and the body.  If the body cannot be  *)
(* written the error handler sets 500, which comes too late for the wire.   *)
Respond(r) ==
    /\ stage[r] = "respond"
    /\ stage' = [stage EXCEPT ![r] = "served"]
    /\ sent' = [sent EXCEPT ![r] = status[r]]
    /\ \/ ServeLogged(r, status[r])
       \/ Faults /\ Large(r) /\ ServeLogged(r, 500)
    /\ UNCHANGED <<vars, hasStore, request, mark, status, acked>>

(* The process dies with every request it has not answered. *)
ProcessCrash ==
    /\ Crash
    /\ stage' = [r \in Requests |-> IF stage[r] \in {"new", "served"} THEN stage[r] ELSE "lost"]
    /\ UNCHANGED <<hasStore, request, mark, status, sent, logged, acked>>

----------------------------------------------------------------------------
(* The service and the database, as in Admission. *)
Background ==
    /\ \/ \E r \in Requests : CancelContext(r) \/ Step(r)
       \/ \E w \in late : LateInsert(w) \/ LateRollback(w)
    /\ UNCHANGED http

Handle(r) ==
    \/ AdmissionReturns(r) \/ GetLedgerHead(r) \/ GetRecord(r)
    \/ EvaluatePage(r) \/ ReplayRefused(r) \/ ReadFails(r) \/ Respond(r)

ApiNext ==
    \/ \E r \in Requests, e \in Endpoints, l \in Ledgers, flaw \in Flaws :
          Refuse(r, e, l, flaw) \/ CallAdmission(r, e, l, flaw) \/ CallStore(r, e, l, flaw)
    \/ \E r \in Requests : Handle(r)
    \/ Background
    \/ ProcessCrash

ApiSpec == ApiInit /\ [][ApiNext]_apiVars

(* As in Admission, goroutines run and statements are answered or fail. *)
ApiFairSpec ==
    /\ ApiSpec
    /\ \A r \in Requests : WF_apiVars(Handle(r)) /\ WF_apiVars(Step(r) /\ UNCHANGED http)

----------------------------------------------------------------------------
(* Properties                                                              *)

Codes == {200, 201, 400, 404, 405, 409, 500}

(* Every variable of the API keeps its type, and a request is in the        *)
(* service exactly while its call is.                                       *)
ApiTypeOK ==
    /\ stage \in [Requests -> {"new", "admitting", "reading", "respond", "served", "lost"}]
    /\ mark \in [Requests -> 0..MaxSequence]
    /\ status \in [Requests -> Codes \cup {0}]
    /\ sent \in [Requests -> Codes \cup {0}]
    /\ logged \in [Requests -> Codes \cup {0}]
    /\ acked \in [Requests -> 0..MaxSequence]
    /\ \A r \in Requests :
         /\ pc[r] \in {"attempt", "append", "acked"} => stage[r] = "admitting"
         /\ stage[r] \in {"reading", "new"} => pc[r] = "idle"

(* 201 is a promise: whoever sees it, client or log, the record it reports  *)
(* is in the store, on the requested ledger and of the requested kind, with *)
(* a genesis for InitLedger; whatever races, retries, late statements and   *)
(* restarts came between.                                                   *)
CreatedMeansStored ==
    \A r \in Requests : 201 \in {sent[r], logged[r]} =>
        /\ rec[r] \in store
        /\ rec[r].ledger = request[r].ledger
        /\ rec[r].kind =
              (CASE request[r].endpoint = "InitLedger" -> EventKindLedgerInitialized
                 [] request[r].endpoint = "AcceptEndorsement"
                      -> EventKindEndorsementAccepted
                 [] OTHER -> EventKindEndorsementRevoked)

(* A client that was told 201 sees its write: a head or an evaluation asked *)
(* for afterwards reaches at least that sequence, the head is not 404, and  *)
(* GetRecord finds the record.                                              *)
ReadYourWrites ==
    \A r \in Requests : stage[r] = "served" =>
        LET q == request[r]
        IN  /\ q.endpoint \in {"GetLedgerHead", "EvaluateConfidence"} =>
                  (sent[r] = 200 => mark[r] >= acked[r])
            /\ sent[r] = 404 /\ Reaches(q.endpoint, q.flaw) =>
                  /\ q.endpoint = "GetLedgerHead" => acked[r] = 0
                  /\ q.endpoint = "GetRecord" => q.digest = NoRecord

(* Every request is answered, unless its process dies: no evaluation        *)
(* replays for ever, no admission retries for ever.                         *)
EveryRequestAnswered ==
    \A r \in Requests : stage[r] # "new" ~> stage[r] \in {"served", "lost"}

----------------------------------------------------------------------------
(* What documents and comments say of the API, and the code does not do    *)

(* api/openapi.yaml, 400 of acceptEndorsement: "Invalid request or          *)
(* signatures."  The request was refused, so it stored nothing.             *)
BadRequestStoresNothing ==
    \A r \in Requests : sent[r] = 400 => wrote[r] = {}

(* api/openapi.yaml, 404: "Ledger not found."  A request for a ledger that  *)
(* the service finds uninitialized, or that has no row, is answered 404.    *)
UnknownLedgerIs404 ==
    \A r \in Requests :
        stage[r] = "served" /\ Reaches(request[r].endpoint, request[r].flaw) =>
            /\ reply[r] = "uninitialized" => sent[r] = 404
            /\ request[r].endpoint = "EvaluateConfidence" /\ mark[r] = 0 => sent[r] # 200

(* "`api/openapi.yaml` is the sole HTTP request/response contract": an      *)
(* operation answers with a status the document lists for it.               *)
Declared(e) ==
    CASE e = "GetHealthz" -> {200}
      [] e = "InitLedger" -> {201, 400, 409}
      [] e \in {"GetLedgerHead", "GetRecord"} -> {200, 404}
      [] e = "EvaluateConfidence" -> {200, 400, 404}
      [] OTHER -> {201, 400, 404}

OnlyDeclaredStatuses ==
    \A r \in Requests :
        stage[r] = "served" /\ ~Unrouted(request[r].flaw) =>
            sent[r] \in Declared(request[r].endpoint)

(* "statusRecorder captures the response status": the log entry of a        *)
(* request has the status that was sent.                                    *)
LoggedStatusIsSent == \A r \in Requests : logged[r] = sent[r]
=============================================================================
