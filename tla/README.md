# Verification of the Attribution Chain application

TLA+ modules, TLC configurations and TLAPS proofs for the Go program in `src/`: an HTTP
service that admits signed endorsements to hash-chained ledgers kept in PostgreSQL, and
answers confidence queries by replaying a ledger into an attestation graph.

## The system

| Part | State | Operations that change it | Module |
|---|---|---|---|
| Ledger kernel, `internal/ledger/v1` | none (values: event, record, chain state) | `NewEvent`, `NewGenesisEvent`, `NewRecord`, `ValidateChainConsistency`, `Apply`, `ChainStateFromRecord` | `LedgerKernel`, `RecordCodec` |
| Codec and digests, `codec.go`, `digest.go` | none | canonical CBOR, SHA-256 | `RecordCodec` |
| Ledger store, `internal/ledgerstore`, `db/migrations` | table `ledger_record` | `Append`; reads `Head`, `Record`, `ScanRecords` | `LedgerStore`, `Projection`, `HttpApi` |
| Admission, `internal/admission` | none between calls; per call: attempt, head, record | `InitLedger`, `Admit`, `AdmitEndorsement`, `AdmitRevocation` | `Admission`, `LedgerLog` |
| Signer, `internal/signer` | the process's key | `Sign`; `GenerateLocalSigner` at start | part of `Admission`, `Lifecycle` |
| Endorsement payloads, `internal/endorsement/v1` | none | sign, construct, `Verify`, `Encode`, decode | `Endorsement` |
| Graph projection, `internal/graph/v1` | graph: edges, watermark | `ApplyRecord`, `ReplayFromStore`, `AddEdge`, `RevokeEdge`, `SetLastSequence` | `Projection` |
| Evaluator, policy, provenance | per call: the recursion's stack | `Evaluate`, `findPaths`, `Validate` | `Evaluator` |
| HTTP API, `internal/httpapi`, generated server | per request | the seven operations | `HttpApi` |
| Process, `cmd/chain-api`, `internal/app`, `internal/config` | configuration, listener, server, pool, exit status | `run`, `Load`, `Run`, cleanup | `Config`, `Lifecycle` |
| Observability, `internal/observability` | providers, logger | `New`, `Shutdown`, `serveLogged` | `Lifecycle`, `HttpApi` |

How the parts interact: the handlers call the admission service and the store from one
goroutine per request. Admission reads a ledger's head, builds and signs an event on it and
inserts the record; no lock or transaction spans the two statements, so the unique index on
`(ledger_id, sequence_number)` arbitrates between concurrent calls, and `Admit` retries when it
loses. `EvaluateConfidence` replays a ledger in batches of 256, one statement per batch, while
admission keeps appending to it.

The behaviours that are hard to test, each a hazard in `PROJECT.json`: the window between
reading the head and inserting; a statement whose caller timed out, or whose process died, and
that executes all the same; an answer that is lost after the row was committed, and what the
client is then told; racing initializers; retries that run out; the last sequence number; a replay
that straddles appends; records that admission stores and the projection refuses; a
signature presented for another statement; limits written down in several places that
must fit together; a recursion that shares its visited set; a signal that arrives before the server
serves; handlers and exporters that hang while one deadline is shared out among them.

## Modules

**`LedgerKernel`** holds the kernel's values and rules. A record stands for its bytes and is its
own digest, which is what a collision-free hash gives; a signature is reduced to the key that
made it and a stamp (the millisecond and nonce), because these decide whether two records of the
same event are equal. `NextSequence` wraps as `uint64` does.

**`LedgerStore`** is the table as a set of rows. `AppendOutcome` gives the constraint an
`INSERT` meets in PostgreSQL's order (digest key, sequence index, foreign key) and the error
`classifyAppendError` makes of it; `Insert` is the statement's effect; `Head` is the
highest-sequence row.

**`Admission`** runs any number of calls concurrently. A call is at `attempt` (about to read the
head), `append` (its `INSERT` is on its way), `acked` (executed, answer not handled yet) or
`done`. `SignRecord` covers reading the head up to the assembled record, since nothing shared is
touched after the read. `RefuseHead`, `RejectSequence`, `InitLedgerReturns`, `AdmitReturns` and
`AdmitRetries` are the returns and the loop of `InitLedger` and `Admit`. The environment may fail
a read or a signature, drop or delay a statement (`late`), lose an answer, cancel a context, or
crash the process, which comes back with a new key as `main` generates one on every start.
`base` and `wrote` are history variables that no action reads.

**`LedgerLog`** is what the ledger promises to readers: logs opened once, extended at the end.
`Admission` implements it under the mapping `Log`.

**`Projection`** composes the projectors with a ledger that grows as `LedgerLog` says. `Scan` is
one statement, `CheckSequence` is `ApplyRecord` up to its read of the watermark, `ApplyRecord` the
rest of it under the graph's lock. With `Shared` all projectors wrap one graph, as
`NewProjectorWithGraph` allows; without it each has its own, as `EvaluateConfidence` does it.
A revocation may target any existing digest, as nothing in admission looks at the target.

**`RecordCodec`** is the same kernel at the level of encoded fields: an event body inside a record
body inside a ledger record, each with its version, limit and digest. `NewEvent` and `NewRecord` are
the constructors with the validation they end in, `ValidateRecordStructure` is what a reader runs. An
encoded map is its form (canonical, or one of the departures the decoder tells apart), its fields and
its exact size in bytes, so that the limits of the nested maps can be compared; a departure is shorter or
longer than the canonical form, or as long, by `SizeChange`. `Alter` is whatever
keeps the record, at any of the three levels, with digests recomputed or not.

**`Endorsement`** has the statements that parties sign, `ProposalDigest`, `AcceptanceDigest` and
`RevocationDigest`, and the constructors, encoders, decoders and `Verify` of the two payloads with
their bounds. Parties sign any statement within its bounds with their own keys, and accept
any such proposal, signed or not (`NewAcceptance` would take a digest of anything; no payload matches
the others); `AdmitEndorsement` and
`AdmitRevocation` are offered every combination of fields and signatures at hand. A digest is its domain
and fields, a signature the key, digest and length.

**`Evaluator`** runs `Evaluate` on a graph that no longer changes. `findPaths` calls itself, so the
state has a call stack: node, remaining edges and weight of each frame, and the one `visited` map
they share. `SkipEdge`, `ReachTarget`, `Descend` and `Return` are the branches of its loop. Weights are
exact fractions where the code has `float64`.

**`Config`** and **`Lifecycle`** are the process from its environment to its exit status. `Load`
accepts or refuses an environment and applies defaults. Startup may fail at each of its steps and is
then cleaned up; `StartRun` starts the Serve goroutine, which runs beside the main goroutine, handlers,
provider shutdowns and signals. `BeginShutdown`, `DrainEnds`, `AwaitServe`, `Collect`, `SyncLogger` and
`CloseStore` are the main goroutine after the select of `app.Run`. The clock counts seconds from the
moment a deadline is set, and an expired deadline is acted on before the next second.

**`HttpApi`** extends `Admission`: a request that reaches the service is the call of the same name
there. What a request says is abstracted to the first thing wrong with it (`flaw`): `Refuse` covers
the router, the parameter binding, the body decoder and the handlers' own checks, with the status each
gives. `AdmissionReturns`, `GetLedgerHead`, `GetRecord`, `EvaluatePage`, `ReplayRefused` and
`ReadFails` decide on a status; `Respond` puts it on the wire and into the log. `acked` is a history
variable: what a 201 had reported when the request arrived.

The `MC` modules give the constants their values and add symmetry sets and the initial state of one
test. Definitions marked *faulty variant* are not part of the model: each is a plausible mistake in the
definition that follows it, kept to show that the properties notice it.

## What TLC checks

| Run | Instance | Shows |
|---|---|---|
| `admission_faults` | 3 calls, all operations, 1 ledger, 2 stamps, 1 retry, 1 restart, all faults | `ChainValid`, `AppendsAtHead`, `PredecessorPresent`, `TruthfulAnswers`, `OneInitializer`, `TypeOK` |
| `admission_ledgers` | 4 calls over 2 ledgers, 1 retry, sequences up to 3, a payload that does not verify | `ImplementsLog`, `ReplayReachesHead`, `ExhaustionMeansProgress` |
| `projection_replay` | every ledger of up to 4 records over 2 identities, batches of 3, repeated replays, failing scans | `GraphIsProjection`, `ReplayIsFresh`, `StopsAtFirstMeaningless`, `TypeOK` |
| `record_codec` | strings at and past the limits, every combination, 3 alterations | `LegalInputsBuild`, `AcceptedIsCanonical`, `DigestPinsRecord` |
| `endorsement` | 2 keys, 3 signatures, upper bounds of all lengths and one more | `BothPartiesAgreed`, `RevokerAgreed`, `StoredPayloadsDecode`, `AgreementIsAdmissible` |
| `evaluator_paths` | every graph of 4 endorsements between 3 identities, one of them possibly revoked or off topic, 10 policies | `FindsEverySimplePath`, `VisitedIsCurrentPath`, `ProvenanceExact`, `ScoreCountsAllEvidence`, `TypeOK` |
| `lifecycle` | two environments and all that differ from them in one variable, 1 handler, clock to 10 | `AcceptedConfigurationRuns`, `NoRequestAfterTelemetry`, `TelemetryReserve`, `SuccessIsClean`, `NothingLeftOpen`, `RunReturns`, `TypeOK` |
| `api_safety` | 3 requests to six endpoints, refused bodies and policies, all faults, 1 restart or 1 cancelled client, pages of 1 | `CreatedMeansStored`, `ReadYourWrites`, `ApiTypeOK` |
| `api_liveness` | 3 requests to three endpoints, unknown paths, 2 stamps, no restart, no faults, pages of 1 | `EveryRequestAnswered`, `EveryCallReturns` |

- `ChainValid`: the kernel's `ValidateChainConsistency`, which admission never calls, accepts every
  stored row after its predecessor, and no ledger forks.
- `AppendsAtHead`: every row is written on the head of that very moment, though built on an older
  read.
- `PredecessorPresent`: the foreign key never fires, even for a statement that outlived its process.
- `TruthfulAnswers`: a call stores at most one row over all its attempts; `ok` means the returned
  record is stored, and any answer but `persist failed` or no answer means nothing was.
- `OneInitializer`: one winner among racing `InitLedger` calls, and the losers lost to somebody else.
- `ExhaustionMeansProgress`: who runs out of retries was overtaken by `MaxRetries + 1` commits.
- `ImplementsLog`, `ReplayReachesHead`: readers see an append-only log of verified events whose
  replay ends in the head that `Store.Head` derives from the last row alone.
- `GraphIsProjection`: between any two steps of a replay the graph is exactly what the records up to
  its watermark stand for; so equal `EvaluatedAtSequence` means equal graphs.
- `ReplayIsFresh`: a replay that succeeds covers everything admitted before it was called.
- `StopsAtFirstMeaningless`: it fails at the first record that makes no sense and nowhere else, but
  for the wrap of the watermark at the last sequence.
- `LegalInputsBuild`: a legal payload, key reference and signature are never refused for the size of a
  map around them. `AcceptedIsCanonical`, `DigestPinsRecord`: one record has one encoding, and an altered
  one that is accepted has another digest.
- `BothPartiesAgreed`, `RevokerAgreed`: what is stored was signed, field by field, by those it names; no
  signature counts for another statement. `StoredPayloadsDecode`, `AgreementIsAdmissible`: the bounds of
  statements, constructors and decoders agree.
- `FindsEverySimplePath`: the traces are the significant simple paths of a declarative definition, each
  once and in a reproducible order; `VisitedIsCurrentPath`: the shared map is exact at every step.
  `ProvenanceExact`, `ScoreCountsAllEvidence`: the result explains its paths, and no evidence lowers it.
- `AcceptedConfigurationRuns`: what `Load` accepts `app.Run` accepts. `NoRequestAfterTelemetry`,
  `TelemetryReserve`: the order of the shutdown and the reserve of its deadline. `SuccessIsClean`: exit
  status 0 hides nothing. `NothingLeftOpen`: every startup failure is cleaned up after. `RunReturns`:
  hanging handlers and exporters do not keep `app.Run`.
- `CreatedMeansStored`: a 201 is backed by a row of the requested ledger and kind. `ReadYourWrites`: who
  was told 201 finds that sequence in a later head or evaluation. `EveryRequestAnswered`: no request is
  left without an answer while its process lives.

*Bounds.* Three calls are enough for one to be overtaken between head and insert while a third is
late or restarted; two stamps make equal and different records of the same event possible, so both
unique constraints are met; the four calls of `admission_ledgers` reach
`MaxSequence`, so that the wrap occurs and `ImplementsLog` sees what is stored after it; for the
invariants of `admission_faults` the wrap is covered by the proofs. Four records are a
genesis, an endorsement and two revocations of it, and more than one batch of three. Three alterations
change an event and recompute both digests above it. Three signatures are a proposal, an acceptance and
one to mistake for either. Four endorsements between three identities make cycles, parallel edges and
two paths that share a stretch. A clock of ten seconds exceeds the longest timeout, nine. Three requests
are an initialization, a write and a read after it, or two calls that collide; with pages of one row a
replay takes several statements. Of the flaws of a request the two runs have one of
every kind: no route, a body that does not decode, a policy refused after the replay; the handlers' own
refusals happen without a database. The other flaws lead to the same branches. A behaviour of
`api_safety` has a restart or one client that goes away (`OneDisturbance`); `admission_faults` has both
at once, for any number of clients. The endorsement instance has signatures
of the longest legal length and one more; the proofs cover every length.

*Deadlock* is not checked where the system may rest: all calls have returned, the evaluation is done,
the bounds are used up. `Lifecycle` is checked for it: a process that has not exited can always go on.

*Fairness.* `ApiFairSpec` assumes weak fairness of each request's own steps and of each call's: the Go
scheduler runs every runnable goroutine and the driver returns from every statement, with an answer or an
error. Clients, faults and crashes are not assumed to happen. Database faults only end calls early and are
off in the liveness run, as are restarts: a crash ends every call and loses every request of the process. `FairSpec` of `Lifecycle` assumes that the main goroutine is scheduled and that
time passes; Serve, handlers, exporters and signals owe nothing.

### Where the code and what is said of it differ

Each is a configuration whose property TLC refutes. Three are runs with a finding in `PROJECT.json`:

- `refused_replay`: a revocation without an active target, such as the second of two concurrent
  revocations of one endorsement, is admitted, and every later replay of the ledger fails at it.
- `exit_window`: the process is said to stay below a ten-second termination window; the deferred `Close`
  of the pool waits without a deadline for a handler that outlived the drain.
- `bad_request`: 400 is documented as an invalid request; it is also what a client is told whose record
  was stored and whose answer was lost.

The others are kept as configurations beside them:

| Configuration | What is said | What the code does |
|---|---|---|
| `MCTestContention` (MCAdmission) | `TestConcurrentAdmitContentionResolves`: five workers all succeed | with the default three retries one can lose four times and fail |
| `MCRenumbering` (MCAdmission) | the store's design: the server never retries with another sequence | `Admit` does |
| `MCKeyReference` (MCAdmission) | a key reference names a key version | after a restart it names two keys |
| `MCApplyReplay` (MCAdmission) | replay from genesis reproduces the head | `Apply` refuses every record after the genesis |
| `MCSharedGraph` (MCProjection) | a graph is thread-safe | its watermark moves back when two projectors share it; no code in the repository shares one |
| `MCIndependentPaths` (MCEvaluator) | independent paths are combined | paths that share an endorsement are combined as independent |
| `MCUnknownLedger` (MCHttpApi) | `api/openapi.yaml`: 404 for a ledger that does not exist | endorsing gives 400, evaluating 200 |
| `MCDeclaredStatuses` (MCHttpApi) | `api/openapi.yaml` is the whole contract | 500, and 400 for reads, are not listed |
| `MCLoggedStatus` (MCHttpApi) | `statusRecorder` captures the response status | after a failed body write the log has 500, the wire 200 |

## What is proved

The theorems hold for every number of calls, ledgers, payloads, retries and restarts, with the
faults on or off, from the named assumptions on the constants only.

`AdmissionProofs`. `ChainValid` is not inductive: a statement under way could name a row that is
not there. `ChainInv` adds to the types that stored rows are linked to stored predecessors
(`RowsLinked`), unique per sequence (`RowsUnique`) and without gaps below the last one (`NoGaps`),
and that every statement that may still execute was built on a stored row or is a genesis
(`StatementsLinked`). Rows are never removed, so a predecessor once read stays; a row that passes
the sequence index has the head as its predecessor, because its sequence is free and its
predecessor's is taken. From it: `TypeCorrect`, `ChainAlwaysValid`, `ForeignKeyNeverFires`,
`AppendsOnlyAtHead`. `ReplayAgreesWithHead`: the rows of a ledger are numbered without gaps and each
continues the one before it (`RowsContinue`), so by induction on the sequence the replay is at each row
in the state that `Store.Head` would derive from it. `AdmissionImplementsLog` is the refinement, step by
step: a row that is added is the next entry of its ledger's log or the genesis that opens it, and every
other step stutters. It needs `EntryInv` (`EntriesMeant`), because `LedgerLog` has verified events only:
what is signed, stored or still under way is a genesis or was verified on arrival.

`AnswerProofs`. `AnswerInv` says what each stage of a call knows: the record it built, whether its
statement executed and with which outcome, how far the ledger has grown since its first read, and
that no row is credited to two calls (`OneWriter`). From it: `AnswersAreTruthful`,
`InitializersAgree`, `ContentionIsProgress`.

`ProjectionProofs` is, but for its last section, about projectors with graphs of their own (`~Shared`),
the way `EvaluateConfidence` creates them. Its lemmas show first what one record does to the graph that
stands for the records before it: `AddEdge`, `RevokeEdge` or `SetLastSequence` yields the graph that
includes it if it makes sense, and refuses it otherwise (`ProjectStep`); a revocation always follows
its target, so no later record changes what earlier ones mean (`MeaningStable`). `GraphIsProjection`
alone is not inductive: a replay under way could be about to apply the wrong record.
`ProjectionInv` adds where each replay is in its batch, that a short batch reaches what was
stored when the replay began, and what a result says (`Position`, `Verdict`). From it:
`GraphTheorem`, `FreshTheorem`, `StopTheorem`, for every batch size, number of projectors and length
of the ledgers. `TypeCorrect` holds for shared graphs too, where those three do not: `TypeInv` joins
to the types that a batch under way lies within its ledger, so that what is applied was stored.

`ServiceProofs` is about what stands around the ledger.

- Records, of all lengths. `LimitsNest` adds up the largest sizes of the fields of each map and finds each
  limit above them. `CanonicalRecord` and `DigestIdentifies` rest on the shape of what is kept
  (`IsRecord`): every level was encoded with the size its fields give it, whatever was altered.
- Statements. `ConsentInv` joins the properties with one about signatures: each has a legal length, and one
  over a proposal or a revocation covers a statement within its bounds (`SignedLengths`), because the
  constructors refuse others. From it `Consent`, `RevokerConsent`, `StoredReadable` and
  `AgreementAdmitted`, for any keys, lengths and numbers of signatures.
- The process. `Inv` says for each stage of it what is open, what Serve and the providers may have done,
  which errors were recorded and how far the clock can be (`ConfigInv`, `StartupInv`, `ServeInv`,
  `DrainInv`, `ProviderInv`, `ExitInv`, `ClockInv`). From it `ConfigurationRuns`, `TelemetryLast`,
  `ReserveKept`, `CleanSuccess`, `EverythingClosed` and `Typed`, for every set of environments, handlers
  and every timeout.

`EvaluatorProofs`. `VisitedIsCurrentPath` needs that the edges a frame has left are edges out of its node
(`LoopInv`). From it `SearchBounded`, `BacktracksExactly`, for every graph and policy. The rest of the
module prepares the next one.

`SearchProofs`. The search is compared with the declarative `PathsFrom` at every moment. A path is *ahead*
if it parts from the current path at an edge some frame has yet to look at, and *behind* if it parts at one
already looked at. `SearchInv` says that every path of the reference is found or ahead (`Complete`), that
every trace is a path of the reference with its damped weight (`Genuine`), that it is behind (`Passed`), so
that no path is found twice, and that the traces are in order (`Ordered`). The argument that is easily
got wrong is `SkippedIsNoPath`: an edge that leads to a visited node, exceeds the hops or
whose damped weight is below the threshold begins no path that counts, the last because weights only fall
along a path (`PowersDecrease`). From it `SearchIsExhaustive`. `ProvenanceIsExact` follows from the same
invariant and one that keeps records and nodes equal to those of the traces so far (`Provenance`).
`NoEvidenceLost` is an induction along the product of the noisy-OR: each factor is a proper fraction
(`TraceFraction`), and one more lowers the unconfidence below every bound it had (`EvidenceStep`).

`HttpApiProofs`. Every step of the API is a step of `Admission` or leaves it alone
(`ApiImplementsAdmission`: `ApiSpec => Spec`), so the theorems about admission hold for the composed server.
`ApiInv` adds to admission's invariants that a request and its call agree on operation and ledger and
that a 201 was decided on an `ok`; from it `CreatedIsStored`.

`ReadProofs`. `ReadInv` adds what a request knows of the store: the sequence it must see was stored when
it arrived, its replay has reached a row that is stored, and a status that ends a read was decided on a
store at least as long (`Placed`, `Reads`, `Reached`, `Tells`). Pages are counted with the cardinality of
intervals, as rows have no gaps. From it `WritesAreRead` and `ApiTypeCorrect`.

The provers have no induction rule that can be applied to these recursive functions; where a proof needs
one, it argues about the least number for which the claim fails (`LeastNumber`).

A leaf that cites `Zenon` needs first-order and set reasoning only; the others go to the SMT solver, which
has the arithmetic. The distinction keeps the checking of each module under five minutes.

Left to TLC: liveness under fairness (`EveryCallReturns`, `EveryRequestAnswered`, `RunReturns`), which is out
of the prover's reach. Every other property of a passing run is stated by a theorem.

## What is not modelled

- Cryptography and encodings: SHA-256 is free of collisions, a signature verifies for its key and digest
  only, CBOR's deterministic encoding is injective. Hexadecimal and JSON parsing succeed or fail.
- Rounding: the evaluator's weights are exact fractions, so the last bit of a `float64` score, and a path
  whose weight meets the threshold only up to rounding, are out of reach.
- The contents of topics, claims, reasons and explanations, of log entries and trace fields.
- The secondary indexes of a graph, which repeat its edge map, and the accessors no code in the server
  calls (`InEdges`, `TopicEdges`, counters).
- The KMS signer, which nothing constructs, and the generator of protocol vectors, a command that writes
  a file.
- Generated types, parameter error types and `Unimplemented` stubs of the OpenAPI server: data, or never
  called.
- `http.ErrAbortHandler` and panics of handlers that write part of a response first; nothing in the
  repository does either.
