---------------------------- MODULE ReadProofs ----------------------------
(***************************************************************************)
(* For every set of requests, every page size and every fault: whoever was *)
(* told 201 reads their write.  A request that arrives after the 201 knows *)
(* its sequence; the store never loses the row, so a head, a record or a   *)
(* replay that is read later, page by page while others write, reaches it. *)
(***************************************************************************)
EXTENDS HttpApiProofs, FiniteSetTheorems

(* A sequence of the ledger r asks about that the store has reached. *)
Reached(r, n) == n = 0 \/ RowStored(request[r].ledger, n)

(* What an answer of a head, a record or an evaluation says to someone who  *)
(* was told 201 before they asked.                                          *)
Tells(r, code) ==
    LET q == request[r]
    IN  /\ q.endpoint \in {"GetLedgerHead", "EvaluateConfidence"} =>
              (code = 200 => mark[r] >= acked[r])
        /\ code = 404 /\ Reaches(q.endpoint, q.flaw) =>
              /\ q.endpoint = "GetLedgerHead" => acked[r] = 0
              /\ q.endpoint = "GetRecord" => q.digest = NoRecord

(* A request knows only sequences and records that the store has. *)
Reads(r) ==
    /\ stage[r] = "new" => mark[r] = 0
    /\ stage[r] # "new" => request[r].ledger \in Ledgers
    /\ Reached(r, mark[r]) /\ Reached(r, acked[r])
    /\ request[r].digest = NoRecord \/ request[r].digest \in store
    /\ stage[r] = "respond" => Tells(r, status[r])
    /\ stage[r] = "served" => Tells(r, sent[r])

(* A request is in one of its stages, in the service while its call is and  *)
(* not before, and has only statuses of the API.                            *)
Placed(r) ==
    /\ stage[r] \in {"new", "admitting", "reading", "respond", "served", "lost"}
    /\ InFlightCall(r) => stage[r] = "admitting"
    /\ stage[r] \in {"reading", "new"} => pc[r] = "idle"
    /\ {status[r], sent[r], logged[r]} \subseteq Codes \cup {0}

ReadInv == \A r \in Requests : Placed(r) /\ Reads(r)

-----------------------------------------------------------------------------
(* Pages *)

(* A set numbered from n + 1 to m has m - n elements. *)
LEMMA NumberedSize ==
    ASSUME NEW S, NEW n \in Nat, NEW m \in Nat, n <= m,
           NEW f \in [(n + 1)..m -> S],
           \A i, j \in (n + 1)..m : f[i] = f[j] => i = j,
           \A x \in S : \E i \in (n + 1)..m : f[i] = x
    PROVE  Cardinality(S) = m - n
<1>1. f \in Bijection((n + 1)..m, S)
  BY Zenon DEF Bijection, Injection, Surjection, IsInjective
<1> DEFINE a == n + 1
<1>2. a \in Int /\ m \in Int
  OBVIOUS
<1>3. /\ IsFiniteSet(a..m)
      /\ Cardinality(a..m) = IF a > m THEN 0 ELSE m - a + 1
  <2> HIDE DEF a
  <2> QED BY Zenon, <1>2, FS_Interval
<1>4. (IF a > m THEN 0 ELSE m - a + 1) = m - n
  OBVIOUS
<1>5. Cardinality(S) = Cardinality(a..m)
  BY Zenon, <1>1, <1>3, FS_Bijection DEF ExistsBijection
<1> QED
  BY Zenon, <1>3, <1>4, <1>5

(* A page after sequence n holds the rows up to its end or the head's. *)
LEMMA PageSize ==
    ASSUME StoreInv, NEW l \in Ledgers, NEW n \in 0..Head(l).last
    PROVE  Cardinality(Page(l, n)) =
             IF Head(l).last < n + BatchSize THEN Head(l).last - n ELSE BatchSize
<1> DEFINE k == Head(l).last
           m == IF k < n + BatchSize THEN k ELSE n + BatchSize
           page == Page(l, n)
           f == [i \in (n + 1)..m |-> RowAt(l, i)]
<1>1. /\ k \in 0..MaxSequence
      /\ {x.seq : x \in Rows(l)} = 1..k
      /\ \A x \in Rows(l) : RowAt(l, x.seq) = x
      /\ \A i \in 1..k : RowAt(l, i) \in Rows(l) /\ RowAt(l, i).seq = i
  BY Zenon, RowsNumbered
<1>2. BatchSize \in Nat \ {0} /\ k \in Nat /\ n \in Nat /\ n <= k
  BY <1>1, PageAssumption
<1>3. m \in Nat /\ n <= m /\ m <= k /\ m <= n + BatchSize
  BY <1>2
<1>4. \A i \in (n + 1)..m : RowAt(l, i) \in page /\ RowAt(l, i).seq = i
  <2> TAKE i \in (n + 1)..m
  <2>1. i \in 1..k /\ i > n /\ i <= n + BatchSize
    BY <1>2, <1>3
  <2> QED
    BY Zenon, <1>1, <2>1 DEF Page
<1>5. ASSUME NEW x \in page PROVE \E i \in (n + 1)..m : RowAt(l, i) = x
  <2>1. x \in Rows(l) /\ x.seq > n /\ x.seq <= n + BatchSize /\ x.seq \in 1..k
    BY Zenon, <1>1 DEF Page
  <2>2. x.seq \in (n + 1)..m
    BY <1>2, <2>1
  <2> QED
    BY Zenon, <1>1, <2>1, <2>2
<1> HIDE DEF page, m, k
<1>6. Cardinality(page) = m - n
  <2>1. f \in [(n + 1)..m -> page]
    BY Zenon, <1>4
  <2>2. \A i, j \in (n + 1)..m : f[i] = f[j] => i = j
    BY Zenon, <1>4
  <2>3. \A x \in page : \E i \in (n + 1)..m : f[i] = x
    BY Zenon, <1>5
  <2> HIDE DEF f
  <2> QED
    BY Zenon, <1>2, <1>3, <2>1, <2>2, <2>3, NumberedSize
<1> QED
  BY <1>2, <1>6 DEF page, m, k

(* What 201s have reported for a ledger is in the store. *)
LEMMA ReportedIsStored ==
    ASSUME ChainInv, CreatedMeansStored, NEW l
    PROVE  /\ Reported(l) = 0 \/ RowStored(l, Reported(l))
           /\ \A d \in KnownDigests(l) : d = NoRecord \/ d \in store
<1> DEFINE Q == {q \in Requests : sent[q] = 201 /\ request[q].ledger = l}
           S == {0} \cup {rec[q].seq : q \in Q}
<1>1. ASSUME NEW q \in Q PROVE rec[q] \in store /\ rec[q].ledger = l
  BY Zenon DEF CreatedMeansStored
<1>2. \A q \in Q : rec[q].seq \in 1..MaxSequence
  BY <1>1 DEF ChainInv, StoreInv, RowsLinked, Linked
<1>3. S \subseteq Nat /\ S # {} /\ MaxSequence \in Nat /\ \A n \in S : n <= MaxSequence
  <2> HIDE DEF Q
  <2> QED BY <1>2, MaxSequenceAssumption
<1>4. \E n \in S : \A m \in S : n >= m
  <2> HIDE DEF S
  <2> QED BY Zenon, <1>3, GreatestNumber
<1>5. Reported(l) \in S
  <2>1. Reported(l) = Max(S)
    BY Zenon DEF Reported
  <2> HIDE DEF S
  <2> QED BY Zenon, <1>4, <2>1 DEF Max
<1>6. Reported(l) = 0 \/ RowStored(l, Reported(l))
  BY Zenon, <1>1, <1>5 DEF RowStored
<1>7. \A d \in KnownDigests(l) : d = NoRecord \/ d \in store
  BY <1>1 DEF KnownDigests
<1> QED
  BY Zenon, <1>6, <1>7

(* A request that a step leaves alone, or loses, knows no less after it. *)
LEMMA ReadsKept ==
    ASSUME NEW q \in Requests, Reads(q), store \subseteq store', UNCHANGED hasStore,
           request'[q] = request[q], mark'[q] = mark[q], acked'[q] = acked[q],
           status'[q] = status[q], sent'[q] = sent[q],
           \/ stage'[q] = stage[q]
           \/ stage'[q] = "lost" /\ stage[q] # "new"
    PROVE  Reads(q)'
<1>1. Tells(q, status[q]) => Tells(q, status[q])'
  BY DEF Tells, Reaches, HandlerRefuses, Unrouted, Undecodable, BindFails, DecodeFails
<1>2. Tells(q, sent[q]) => Tells(q, sent[q])'
  BY DEF Tells, Reaches, HandlerRefuses, Unrouted, Undecodable, BindFails, DecodeFails
<1>3. Reached(q, mark[q])' /\ Reached(q, acked[q])'
  BY Zenon DEF Reads, Reached, RowStored
<1> QED
  BY Zenon, <1>1, <1>2, <1>3 DEF Reads

(* A request that is not touched while no call begins. *)
LEMMA UntouchedReads ==
    ASSUME NEW q \in Requests, Placed(q), Reads(q), Untouched(q), NotBegun(q),
           store \subseteq store', UNCHANGED hasStore
    PROVE  Placed(q)' /\ Reads(q)'
<1>1. Placed(q)'
  BY Zenon DEF Placed, Untouched, NotBegun, InFlightCall
<1> QED
  BY Zenon, <1>1, ReadsKept DEF Untouched

(* A request arrives: it knows what 201s have reported. *)
LEMMA ArrivalReads ==
    ASSUME ChainInv, CreatedMeansStored, HttpTyped, store \subseteq store',
           NEW r \in Requests, NEW e, NEW l \in Ledgers, NEW flaw,
           Placed(r), Reads(r), Arrival(r, e, l, flaw)
    PROVE  Placed(r)' /\ Reads(r)'
<1>1. /\ stage[r] = "new" /\ UNCHANGED hasStore
      /\ request'[r].endpoint = e /\ request'[r].ledger = l
      /\ request'[r].flaw = flaw
      /\ request'[r].digest \in KnownDigests(l) \cup {NoRecord}
      /\ acked'[r] = Reported(l) /\ mark'[r] = mark[r]
      /\ sent'[r] = sent[r] /\ logged'[r] = logged[r]
  BY Zenon, ArrivalEntries
<1>2. \/ stage'[r] = "admitting" /\ status'[r] = status[r] /\ pc'[r] # "idle"
      \/ /\ stage'[r] = "reading" /\ status'[r] = status[r] /\ pc'[r] = pc[r]
      \/ /\ stage'[r] = "respond" /\ status'[r] \in {200, 400, 404, 405}
         /\ status'[r] = 200 => e = "GetHealthz"
         /\ status'[r] = 404 => ~Reaches(e, flaw)
         /\ pc'[r] = pc[r]
  BY ArrivalStages DEF vars, control
<1>3. Placed(r)'
  BY <1>1, <1>2 DEF Placed, InFlightCall, Codes
<1>4. mark'[r] = 0
  BY Zenon, <1>1 DEF Reads
<1>5. Reached(r, mark[r])' /\ Reached(r, acked[r])'
  BY Zenon, <1>1, <1>4, ReportedIsStored DEF Reached, RowStored
<1>6. request'[r].digest = NoRecord \/ request'[r].digest \in store'
  BY Zenon, <1>1, ReportedIsStored
<1>7. stage'[r] = "respond" => Tells(r, status[r])'
  BY <1>1, <1>2 DEF Tells, Reaches, HandlerRefuses, Unrouted,
     Undecodable, BindFails, DecodeFails
<1> QED
  BY <1>1, <1>2, <1>3, <1>4, <1>5, <1>6, <1>7 DEF Reads

(* What is sent is what was decided on. *)
LEMMA RespondReads ==
    ASSUME HttpTyped, NEW r \in Requests, Placed(r), Reads(r), Respond(r)
    PROVE  Placed(r)' /\ Reads(r)'
<1>1. /\ stage[r] = "respond" /\ stage'[r] = "served"
      /\ sent'[r] = status[r] /\ logged'[r] \in {status[r], 500}
  BY RespondEntries
<1>2. UNCHANGED <<hasStore, request, mark, status, acked, store, pc>>
  BY RespondEntries DEF vars, control
<1>3. Placed(r)'
  BY <1>1, <1>2 DEF Placed, InFlightCall, Codes
<1>4. Tells(r, status[r])
  BY Zenon, <1>1 DEF Reads
<1>5. Tells(r, sent[r])'
  BY <1>1, <1>2, <1>4 DEF Tells, Reaches, HandlerRefuses, Unrouted, Undecodable,
     BindFails, DecodeFails
<1>6. Reached(r, mark[r]) /\ Reached(r, acked[r])
  BY Zenon DEF Reads
<1>7. Reached(r, mark[r])' /\ Reached(r, acked[r])'
  BY Zenon, <1>2, <1>6 DEF Reached, RowStored
<1> QED
  BY Zenon, <1>1, <1>2, <1>3, <1>5, <1>7 DEF Reads

(* If a handler that has read up to n answers, the answer is true. *)
Truthful(r, n) ==
    stage'[r] = "respond" =>
       /\ request[r].endpoint \in {"GetLedgerHead", "EvaluateConfidence"} =>
             (status'[r] = 200 => n >= acked[r])
       /\ status'[r] = 404 /\ request[r].endpoint = "GetLedgerHead" => acked[r] = 0
       /\ status'[r] = 404 /\ request[r].endpoint = "GetRecord" =>
             request[r].digest = NoRecord

(* A handler reads up to n and decides on a status, or reads on. *)
LEMMA HandleKeeps ==
    ASSUME HttpTyped, NEW r \in Requests, Placed(r), Reads(r), Handle(r), ~Respond(r),
           NEW n, mark'[r] = n, Reached(r, n), Truthful(r, n)
    PROVE  Placed(r)' /\ Reads(r)'
<1>1. UNCHANGED <<hasStore, request, sent, logged, acked, store, pc>>
  BY Zenon, HandleEntries DEF vars, control
<1>2. (stage[r] = "admitting" /\ pc[r] = "done") \/ stage[r] = "reading"
  BY Zenon, HandleEntries
<1>3. \/ stage'[r] = "respond" /\ status'[r] \in Codes
      \/ stage'[r] = stage[r] /\ status'[r] = status[r]
  BY Zenon, HandleAnswers
<1>4. Placed(r)'
  BY Zenon, <1>1, <1>2, <1>3 DEF Placed, InFlightCall
<1>5. stage'[r] = "respond" => Tells(r, status[r])'
  BY Zenon, <1>1 DEF Tells, Truthful
<1>6. Reached(r, mark[r])' /\ Reached(r, acked[r])'
  BY SMTT(20), <1>1 DEF Reached, RowStored, Reads
<1> QED
  BY SMTT(20), <1>1, <1>2, <1>3, <1>4, <1>5, <1>6 DEF Reads

(* What the store has for a request that reads it. *)
LEMMA ReaderBelowHead ==
    ASSUME StoreInv, NEW r \in Requests, Reads(r), stage[r] # "new"
    PROVE  /\ request[r].ledger \in Ledgers
           /\ Head(request[r].ledger).last \in Nat
           /\ mark[r] \in 0..Head(request[r].ledger).last
           /\ acked[r] \in 0..Head(request[r].ledger).last
           /\ \A n \in 0..Head(request[r].ledger).last : Reached(r, n)
           /\ ~Head(request[r].ledger).initialized => acked[r] = 0
<1> DEFINE l == request[r].ledger
<1>1. l \in Ledgers /\ Reached(r, mark[r]) /\ Reached(r, acked[r])
  BY Zenon DEF Reads
<1>2. mark[r] \in 0..Head(l).last
  BY Zenon, <1>1, StoredBelowHead DEF Reached
<1>3. acked[r] \in 0..Head(l).last /\ (~Head(l).initialized => acked[r] = 0)
  BY Zenon, <1>1, StoredBelowHead DEF Reached
<1>4. Head(l).last \in Nat
  BY <1>1, RowsNumbered, MaxSequenceAssumption
<1>5. ASSUME NEW n \in 0..Head(l).last PROVE Reached(r, n)
  <2>1. n # 0 => RowAt(l, n) \in Rows(l) /\ RowAt(l, n).seq = n
    BY <1>1, <1>4, RowsNumbered
  <2> QED
    BY Zenon, <2>1 DEF Reached, RowStored, Rows
<1> QED
  BY Zenon, <1>1, <1>2, <1>3, <1>4, <1>5

(* The handlers after the call. *)
LEMMA HandleReads ==
    ASSUME ChainInv, HttpTyped, NEW r \in Requests, Placed(r), Reads(r),
           Handle(r), ~Respond(r)
    PROVE  Placed(r)' /\ Reads(r)'
<1> DEFINE l == request[r].ledger
           k == Head(l).last
<1>1. stage[r] # "new" /\ StoreInv
  BY Zenon, HandleEntries DEF ChainInv
<1>2. l \in Ledgers /\ k \in Nat /\ mark[r] \in 0..k /\ acked[r] \in 0..k
  BY Zenon, <1>1, ReaderBelowHead
<1>3. \A n \in 0..k : Reached(r, n)
  BY Zenon, <1>1, ReaderBelowHead
<1>4. ASSUME NEW code, Answer(r, code)
      PROVE  status'[r] = code
  BY Zenon, <1>4 DEF Answer, HttpTyped
<1>5. CASE UNCHANGED mark /\ status'[r] \notin {200, 404}
  <2>1. mark'[r] = mark[r] /\ Reached(r, mark[r])
    BY Zenon, <1>2, <1>3, <1>5
  <2>2. Truthful(r, mark[r])
    BY Zenon, <1>5 DEF Truthful
  <2> QED
    BY Zenon, <2>1, <2>2, HandleKeeps
<1>6. CASE AdmissionReturns(r)
  <2>1. CASE request[r].endpoint = "InitLedger"
    BY <1>4, <1>5, <1>6, <2>1 DEF AdmissionReturns, InitLedgerStatus
  <2>2. CASE request[r].endpoint # "InitLedger"
    BY <1>4, <1>5, <1>6, <2>2 DEF AdmissionReturns, AdmitStatus
  <2> QED
    BY Zenon, <2>1, <2>2
<1>7. CASE ReplayRefused(r) \/ ReadFails(r)
  BY <1>4, <1>5, <1>7 DEF ReplayRefused, ReadFails
<1>8. CASE GetLedgerHead(r)
  <2>1. request[r].endpoint = "GetLedgerHead" /\ mark'[r] = k
    BY Zenon, <1>8 DEF GetLedgerHead, Reading, HttpTyped
  <2>2. status'[r] = 404 => acked[r] = 0
    BY <1>1, <1>4, <1>8, ReaderBelowHead DEF GetLedgerHead
  <2> HIDE DEF k
  <2>3. k \in 0..k /\ k >= acked[r]
    BY <1>2
  <2>4. Truthful(r, k)
    BY Zenon, <2>1, <2>2, <2>3 DEF Truthful
  <2> QED
    BY Zenon, <1>3, <2>1, <2>3, <2>4, HandleKeeps
<1>9. CASE GetRecord(r)
  <2>1. request[r].endpoint = "GetRecord" /\ mark'[r] = mark[r]
    BY Zenon, <1>9 DEF GetRecord, Reading
  <2>2. status'[r] = IF request[r].digest \in store THEN 200 ELSE 404
    BY Zenon, <1>4, <1>9 DEF GetRecord
  <2>3. status'[r] = 404 => request[r].digest = NoRecord
    BY <2>2 DEF Reads
  <2>4. Truthful(r, mark[r])
    BY Zenon, <2>1, <2>3 DEF Truthful
  <2> QED
    BY Zenon, <1>2, <1>3, <2>1, <2>4, HandleKeeps
<1>10. CASE EvaluatePage(r)
  <2> DEFINE size == Cardinality(Page(l, mark[r]))
             n == mark[r] + size
  <2>1. size = IF k < mark[r] + BatchSize THEN k - mark[r] ELSE BatchSize
    BY Zenon, <1>1, <1>2, PageSize
  <2>2. mark'[r] = n /\ request[r].endpoint = "EvaluateConfidence"
    BY Zenon, <1>10 DEF EvaluatePage, Reading, HttpTyped
  <2>3. stage'[r] = "respond" => size < BatchSize /\ status'[r] \in {200, 400}
    <3>1. CASE size < BatchSize
      BY <1>4, <1>10, <3>1 DEF EvaluatePage
    <3>2. CASE ~(size < BatchSize)
      BY Zenon, <1>10, <3>2 DEF EvaluatePage, Reading
    <3> QED
      BY Zenon, <3>1, <3>2
  <2> HIDE DEF size, k
  <2>4. n \in 0..k /\ (size < BatchSize => n >= acked[r])
    BY <1>2, <2>1, PageAssumption
  <2> HIDE DEF n
  <2>5. Truthful(r, n)
    BY Zenon, <2>2, <2>3, <2>4 DEF Truthful
  <2> QED
    BY Zenon, <1>3, <2>2, <2>4, <2>5, HandleKeeps
<1> QED
  BY Zenon, <1>6, <1>7, <1>8, <1>9, <1>10 DEF Handle

(* A step of the service touches no request. *)
LEMMA BackgroundReads ==
    ASSUME ChainInv, Background, store \subseteq store', NEW q \in Requests,
           Placed(q), Reads(q)
    PROVE  Placed(q)' /\ Reads(q)'
<1>1. Untouched(q) /\ UNCHANGED hasStore
  BY Zenon DEF Background, http, Untouched
<1>2. NotBegun(q)
  <2>1. CASE \E r \in Requests : CancelContext(r) \/ Step(r)
    BY Zenon, <2>1, OthersSettled DEF ChainInv
  <2>2. CASE \E w \in late : LateInsert(w) \/ LateRollback(w)
    BY Zenon, <2>2 DEF LateInsert, LateRollback, control, NotBegun, InFlightCall
  <2> QED
    BY Zenon, <2>1, <2>2 DEF Background
<1> QED
  BY Zenon, <1>1, <1>2, UntouchedReads

(* A crash loses the requests that are in the server. *)
LEMMA CrashReads ==
    ASSUME ChainInv, ProcessCrash, store \subseteq store', NEW q \in Requests,
           Placed(q), Reads(q)
    PROVE  Placed(q)' /\ Reads(q)'
<1>1. /\ UNCHANGED <<hasStore, request, mark, status, sent, logged, acked>>
      /\ stage'[q] = IF stage[q] \in {"new", "served"} THEN stage[q] ELSE "lost"
  BY Zenon DEF ProcessCrash
<1>2. ~InFlightCall(q)' /\ (pc[q] = "idle" => pc'[q] = "idle")
  BY Zenon DEF ProcessCrash, Crash, InFlight, InFlightCall, ChainInv, TypeOK
<1>3. Placed(q)'
  BY Zenon, <1>1, <1>2 DEF Placed
<1>4. Reads(q)'
  BY Zenon, <1>1, ReadsKept
<1> QED
  BY Zenon, <1>3, <1>4

(* Every step of the server keeps what requests know true. *)
LEMMA ReadStep ==
    ASSUME ApiInv, CreatedMeansStored, ReadInv, [ApiNext]_apiVars
    PROVE  ReadInv'
<1> SUFFICES ASSUME NEW q \in Requests PROVE Placed(q)' /\ Reads(q)'
  BY Zenon DEF ReadInv
<1>1. store \subseteq store' /\ ChainInv /\ HttpTyped /\ Placed(q) /\ Reads(q)
  BY Zenon, StoreGrows, ApiStepIsServiceStep DEF ApiInv, ReadInv
<1>2. ASSUME NEW r \in Requests, NEW e, NEW l \in Ledgers, NEW flaw, Arrival(r, e, l, flaw)
      PROVE  Placed(q)' /\ Reads(q)'
  <2>1. CASE q = r
    BY Zenon, <1>1, <1>2, <2>1, ArrivalReads
  <2>2. CASE q # r
    <3>1. Untouched(q) /\ UNCHANGED hasStore
      BY Zenon, <1>1, <1>2, <2>2, ArrivalTables, ArrivalEntries
    <3>2. NotBegun(q)
      <4>1. pc'[q] = pc[q]
        BY Zenon, <1>1, <1>2, <2>2 DEF Arrival, Refuse, CallAdmission, CallStore,
           Receive,
           Return, ChainInv, TypeOK, vars, control
      <4> QED
        BY SMTT(20), <4>1 DEF NotBegun, InFlightCall
    <3> QED
      BY Zenon, <1>1, <3>1, <3>2, UntouchedReads
  <2> QED
    BY Zenon, <2>1, <2>2
<1>3. ASSUME NEW r \in Requests, Handle(r)
      PROVE  Placed(q)' /\ Reads(q)'
  <2>1. CASE q = r
    BY Zenon, <1>1, <1>3, <2>1, HandleReads, RespondReads
  <2>2. CASE q # r
    <3>1. Untouched(q)
      BY Zenon, <1>1, <1>3, <2>2, HandleTables
    <3>2. UNCHANGED <<vars, hasStore>>
      BY <1>1, <1>3, HandleEntries, RespondEntries
    <3>3. NotBegun(q)
      BY Zenon, <3>2 DEF vars, control, NotBegun, InFlightCall
    <3> QED
      BY Zenon, <1>1, <3>1, <3>2, <3>3, UntouchedReads
  <2> QED
    BY Zenon, <2>1, <2>2
<1>4. CASE UNCHANGED apiVars
  <2>1. Untouched(q) /\ NotBegun(q) /\ UNCHANGED hasStore
    BY Zenon, <1>4 DEF apiVars, http, vars, control, Untouched, NotBegun, InFlightCall
  <2> QED
    BY Zenon, <1>1, <2>1, UntouchedReads
<1> QED
  BY Zenon, <1>1, <1>2, <1>3, <1>4, BackgroundReads, CrashReads DEF ApiNext, Arrival

(* What requests know of the store, in every state of the server. *)
THEOREM ReadInvariant == ApiSpec => []ReadInv
<1>1. ApiInit => ReadInv
  BY DEF ApiInit, Init, ReadInv, Placed, InFlightCall, Reads, Reached, NoRequest
<1>2. ApiInv /\ CreatedMeansStored /\ ReadInv /\ [ApiNext]_apiVars => ReadInv'
  BY Zenon, ReadStep
<1> QED
  BY <1>1, <1>2, ApiInvariant, CreatedIsStored, PTL DEF ApiSpec

(* The variables of the API keep their types: a mark and an acknowledged    *)
(* sequence never leave the range of the store's.                           *)
THEOREM ApiTypeCorrect == ApiSpec => []ApiTypeOK
<1>1. ApiInv /\ ReadInv => ApiTypeOK
  <2> SUFFICES ASSUME ApiInv, ReadInv PROVE ApiTypeOK
    BY Zenon
  <2>1. \A l, n : n = 0 \/ RowStored(l, n) => n \in 0..MaxSequence
    BY SMTT(20), MaxSequenceAssumption
       DEF RowStored, ApiInv, ChainInv, StoreInv, RowsLinked, Linked
  <2>2. \A r \in Requests : mark[r] \in 0..MaxSequence /\ acked[r] \in 0..MaxSequence
    BY Zenon, <2>1 DEF ReadInv, Reads, Reached
  <2>3. \A r \in Requests : Placed(r)
    BY Zenon DEF ReadInv
  <2>4. HttpTyped
    BY Zenon DEF ApiInv
  <2> QED
    BY Zenon, <2>2, <2>3, <2>4 DEF HttpTyped, Placed, InFlightCall, ApiTypeOK
<1> QED
  BY <1>1, ApiInvariant, ReadInvariant, PTL

(* Whoever was told 201 for a ledger and asks afterwards sees at least that *)
(* write: heads and evaluations reach it, the ledger is not 404, and the    *)
(* record is found.                                                         *)
THEOREM WritesAreRead == ApiSpec => []ReadYourWrites
<1>1. ReadInv => ReadYourWrites
  BY Zenon DEF ReadInv, Reads, Tells, ReadYourWrites
<1> QED
  BY <1>1, ReadInvariant, PTL
=============================================================================
