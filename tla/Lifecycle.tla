----------------------------- MODULE Lifecycle -----------------------------
(***************************************************************************)
(* The life of one chain-api process: cmd/chain-api (run), internal/config *)
(* (Load), internal/observability (New, Shutdown) and internal/app (Run).  *)
(*                                                                         *)
(* The main goroutine runs beside the Serve goroutine, the handlers and    *)
(* the goroutines that shut the telemetry providers down.  Handlers and    *)
(* exporters may hang for ever.  The clock counts seconds from the moment  *)
(* a deadline is set; an expired deadline is acted on before the next      *)
(* second.  net/http, pgxpool, the OTLP exporters and signals are external *)
(* and modelled by what this code relies on.                               *)
(***************************************************************************)
EXTENDS Config, FiniteSets

CONSTANTS
    Environments,   \* the environments the process may be started in
    Handlers,       \* requests that may be in progress at once
    MaxClock        \* bound: seconds counted

VARIABLES
    pc, cfg, exit,
    exporters,      \* per telemetry provider
    store, listener,
    serve,          \* the Serve goroutine and its buffered result
    signalled,      \* runCtx is done
    inShutdown,     \* http.Server.Shutdown was called
    handlers, clock,
    collected,      \* the provider results shutdownProviders received
    errs,           \* what Run joins
    returnedAt      \* history: the clock when Serve returned

runVars == <<pc, cfg, exit, exporters, store, listener, serve, signalled,
             inShutdown, handlers, clock, collected, errs, returnedAt>>

Providers == {"metric", "trace"}
TelemetryShutdownReserve == 1
Returned == {"ErrServerClosed", "failed"}
ServeReturned == serve \in Returned
Startup == {"load", "observability", "open", "signer", "listen", "notify"}
Stopping == {"drain", "await", "telemetry", "sync"}
NoConfig == [timeout |-> 0, telemetry |-> FALSE, endpoint |-> Unset,
             database |-> FALSE, keyReference |-> "valid"]

ASSUME ConfigAssumption ==
    /\ Unset # Unparsable
    /\ {Unset, Unparsable} \cap (Int \cup BOOLEAN) = {}
    /\ \A env \in Environments :
         /\ env.timeout \in Int \cup {Unset, Unparsable}
         /\ env.enabled \in BOOLEAN \cup {Unset, Unparsable}
         /\ env.database \in BOOLEAN
ASSUME ClockAssumption == MaxClock \in Nat

RunInit ==
    /\ pc = "load" /\ cfg = NoConfig /\ exit = "none"
    /\ exporters = [p \in Providers |-> "none"]
    /\ store = "none" /\ listener = "none" /\ serve = "none"
    /\ signalled = FALSE /\ inShutdown = FALSE
    /\ handlers = [h \in Handlers |-> "idle"]
    /\ clock = 0 /\ collected = {} /\ errs = {} /\ returnedAt = 0

----------------------------------------------------------------------------
(* Startup: run of cmd/chain-api up to app.Run.                            *)

LoadConfig(env) ==
    /\ pc = "load"
    /\ \/ /\ Accepted(env)
          /\ pc' = "observability" /\ cfg' = Load(env) /\ exit' = exit
       \/ /\ ~Accepted(env)
          /\ pc' = "close" /\ cfg' = cfg /\ exit' = "failure"
    /\ UNCHANGED <<exporters, store, listener, serve, signalled, inShutdown,
                   handlers, clock, collected, errs, returnedAt>>

ParseEndpoint(endpoint) == endpoint \in {"https", "http loopback"}

(* Faulty variant: a failed metric exporter leaves the trace exporter open. *)
NewTelemetryNoRollback ==
    /\ pc = "observability"
    /\ \/ /\ ~cfg.telemetry
          /\ pc' = "open" /\ UNCHANGED <<exit, exporters>>
       \/ /\ cfg.telemetry /\ pc' = "close" /\ exit' = "failure"
          /\ exporters' \in {exporters, [exporters EXCEPT !["trace"] = "open"]}
       \/ /\ cfg.telemetry /\ ParseEndpoint(cfg.endpoint)
          /\ exporters' = [p \in Providers |-> "open"]
          /\ pc' = "open" /\ exit' = exit
    /\ UNCHANGED <<cfg, store, listener, serve, signalled, inShutdown,
                   handlers, clock, collected, errs, returnedAt>>

(* observability.New: the endpoint, the resource and the trace exporter fail *)
(* before anything is open; a failed metric exporter shuts the trace         *)
(* exporter down again.                                                      *)
NewTelemetry ==
    /\ pc = "observability"
    /\ \/ /\ ~cfg.telemetry
          /\ pc' = "open" /\ UNCHANGED <<exit, exporters>>
       \/ /\ cfg.telemetry
          /\ pc' = "close" /\ exit' = "failure" /\ exporters' = exporters
       \/ /\ cfg.telemetry /\ ParseEndpoint(cfg.endpoint)
          /\ exporters' = [exporters EXCEPT !["trace"] = "closed"]
          /\ pc' = "close" /\ exit' = "failure"
       \/ /\ cfg.telemetry /\ ParseEndpoint(cfg.endpoint)
          /\ exporters' = [p \in Providers |-> "open"]
          /\ pc' = "open" /\ exit' = exit
    /\ UNCHANGED <<cfg, store, listener, serve, signalled, inShutdown,
                   handlers, clock, collected, errs, returnedAt>>

(* runtime.Shutdown starts one goroutine for each provider. *)
ShutdownProviders ==
    exporters' = [p \in Providers |->
                    IF exporters[p] = "open" THEN "closing" ELSE exporters[p]]

(* cleanupRuntimeAfterStartupFailure: a deadline of its own from now on. *)
StartupFails ==
    pc' = "telemetry" /\ exit' = "failure" /\ clock' = 0 /\ ShutdownProviders

StartupContinues(next) ==
    pc' = next /\ UNCHANGED <<exit, clock, exporters>>

(* ledgerstore.Open closes the pool itself when the ping fails. *)
OpenStore ==
    /\ pc = "open"
    /\ \/ ~cfg.database /\ StartupContinues("listen") /\ store' = store
       \/ cfg.database /\ StartupContinues("signer") /\ store' = "open"
       \/ cfg.database /\ StartupFails /\ store' = store
    /\ UNCHANGED <<cfg, listener, serve, signalled, inShutdown, handlers,
                   collected, errs, returnedAt>>

(* GenerateLocalSigner validates the key reference; admission.New cannot    *)
(* fail with a store and a signer.                                          *)
GenerateSigner ==
    /\ pc = "signer"
    /\ IF cfg.keyReference = "valid" THEN StartupContinues("listen")
                                     ELSE StartupFails
    /\ UNCHANGED <<cfg, store, listener, serve, signalled, inShutdown,
                   handlers, collected, errs, returnedAt>>

Listen ==
    /\ pc = "listen"
    /\ \/ StartupContinues("notify") /\ listener' = "open"
       \/ StartupFails /\ listener' = listener
    /\ UNCHANGED <<cfg, store, serve, signalled, inShutdown, handlers,
                   collected, errs, returnedAt>>

ValidRunInputs == cfg.timeout > TelemetryShutdownReserve

(* signal.NotifyContext, validateRunInputs and go Serve. *)
StartRun ==
    /\ pc = "notify"
    /\ \/ /\ ValidRunInputs
          /\ pc' = "select" /\ serve' = "starting"
          /\ UNCHANGED <<exit, errs>>
       \/ /\ ~ValidRunInputs
          /\ pc' = "close" /\ exit' = "failure" /\ errs' = {"inputs"}
          /\ serve' = serve
    /\ UNCHANGED <<cfg, exporters, store, listener, signalled, inShutdown,
                   handlers, clock, collected, returnedAt>>

----------------------------------------------------------------------------
(* Serving: the Serve goroutine, the handlers, signals and time.           *)

Return(result) ==
    serve' = result /\ listener' = "closed" /\ returnedAt' = clock

(* http.Server.Serve: it tracks the listener unless Shutdown came first,    *)
(* and closes it when it returns.                                           *)
Serve ==
    /\ \/ /\ serve = "starting" /\ ~inShutdown
          /\ serve' = "serving" /\ UNCHANGED <<listener, returnedAt>>
       \/ serve = "serving" /\ ~inShutdown /\ Return("failed")
       \/ serve \in {"starting", "serving"} /\ inShutdown /\ Return("ErrServerClosed")
    /\ pc # "exited"
    /\ UNCHANGED <<pc, cfg, exit, exporters, store, signalled, inShutdown,
                   handlers, clock, collected, errs>>

(* A handler waits for the database while it holds a connection of the pool; *)
(* a pool that is closing gives none.                                       *)
Handler(h) ==
    /\ pc # "exited"
    /\ \/ handlers[h] = "idle" /\ serve = "serving" /\ ~inShutdown
          /\ handlers' = [handlers EXCEPT ![h] = "running"]
       \/ handlers[h] = "running" /\ store = "open"
          /\ handlers' = [handlers EXCEPT ![h] = "querying"]
       \/ handlers[h] = "querying"
          /\ handlers' = [handlers EXCEPT ![h] = "running"]
       \/ handlers[h] = "running"
          /\ handlers' = [handlers EXCEPT ![h] = "idle"]
    /\ UNCHANGED <<pc, cfg, exit, exporters, store, listener, serve, signalled,
                   inShutdown, clock, collected, errs, returnedAt>>

Provider(p) ==
    /\ pc # "exited" /\ exporters[p] = "closing"
    /\ \E result \in {"closed", "failed"} :
         exporters' = [exporters EXCEPT ![p] = result]
    /\ UNCHANGED <<pc, cfg, exit, store, listener, serve, signalled,
                   inShutdown, handlers, clock, collected, errs, returnedAt>>

(* SIGINT or SIGTERM.  Outside NotifyContext and stopSignals the default    *)
(* disposition ends the process; so does it during a startup cleanup.       *)
Signal ==
    /\ pc # "exited"
    /\ IF pc \in Startup \cup {"close"} \/ exit = "failure"
       THEN pc' = "exited" /\ exit' = "killed" /\ signalled' = signalled
       ELSE signalled' = TRUE /\ UNCHANGED <<pc, exit>>
    /\ UNCHANGED <<cfg, exporters, store, listener, serve, inShutdown,
                   handlers, clock, collected, errs, returnedAt>>

(* Faulty variant: draining may use the whole timeout. *)
HttpDeadlineWhole == cfg.timeout

(* The HTTP deadline lies the telemetry reserve before the shared one. *)
HttpDeadline == cfg.timeout - TelemetryShutdownReserve

(* The main goroutine has something to do at once, so no second passes. *)
Due ==
    \/ pc = "drain" /\ clock >= HttpDeadline
    \/ pc = "await" /\ (ServeReturned \/ clock >= cfg.timeout)
    \/ pc = "telemetry" /\ (~cfg.telemetry \/ clock >= cfg.timeout)
    \/ pc = "close" /\ ~(store = "closing" /\ \E h \in Handlers : handlers[h] = "querying")

Tick ==
    /\ pc \in {"drain", "await", "telemetry", "close"}
    /\ ~Due /\ clock < MaxClock
    /\ clock' = clock + 1
    /\ UNCHANGED <<pc, cfg, exit, exporters, store, listener, serve, signalled,
                   inShutdown, handlers, collected, errs, returnedAt>>

----------------------------------------------------------------------------
(* Shutdown: app.Run after the first select, and the deferred calls of run. *)

NormalizeServeError(result) ==
    IF result = "ErrServerClosed" THEN {} ELSE {"serve"}

(* The select of Run, the two deadlines, and Server.Shutdown closing the    *)
(* listener it tracks.                                                      *)
BeginShutdown ==
    /\ pc = "select"
    /\ ServeReturned \/ signalled
    /\ pc' = "drain" /\ clock' = 0 /\ inShutdown' = TRUE
    /\ listener' = IF serve = "serving" THEN "closed" ELSE listener
    /\ returnedAt' = 0
    /\ UNCHANGED <<cfg, exit, exporters, store, serve, signalled, handlers,
                   collected, errs>>

ShutdownTelemetry ==
    pc' = "telemetry" /\ ShutdownProviders

(* Server.Shutdown returns: every connection is idle, or its deadline passed. *)
DrainEnds ==
    /\ pc = "drain"
    /\ \/ /\ \A h \in Handlers : handlers[h] = "idle"
          /\ errs' = errs
       \/ /\ clock >= HttpDeadline
          /\ errs' = errs \cup {"drain"}
    /\ pc' = "await"
    /\ UNCHANGED <<cfg, exit, exporters, store, listener, serve, signalled,
                   inShutdown, handlers, clock, collected, returnedAt>>

(* Faulty variant: Run does not wait for the Serve goroutine. *)
AwaitServeNot ==
    /\ pc = "await"
    /\ errs' = IF ServeReturned THEN errs \cup NormalizeServeError(serve) ELSE errs
    /\ ShutdownTelemetry
    /\ UNCHANGED <<cfg, exit, store, listener, serve, signalled, inShutdown,
                   handlers, clock, collected, returnedAt>>

(* A result the first select received is still in serve. *)
AwaitServe ==
    /\ pc = "await"
    /\ \/ /\ ServeReturned
          /\ errs' = errs \cup NormalizeServeError(serve)
       \/ /\ clock >= cfg.timeout
          /\ errs' = errs \cup {"wait"}
    /\ ShutdownTelemetry
    /\ UNCHANGED <<cfg, exit, store, listener, serve, signalled, inShutdown,
                   handlers, clock, collected, returnedAt>>

(* Faulty variant: shutdownProviders returns with the first result. *)
CollectFirst ==
    /\ pc = "telemetry"
    /\ \E p \in Providers :
         /\ exporters[p] \in {"closed", "failed"}
         /\ collected' = {p}
         /\ errs' = errs \cup (IF exporters[p] = "failed" THEN {p} ELSE {})
         /\ pc' = "sync"
    /\ UNCHANGED <<cfg, exit, exporters, store, listener, serve, signalled,
                   inShutdown, handlers, clock, returnedAt>>

(* Faulty variant: shutdownProviders waits for every result. *)
CollectWithoutDeadline ==
    /\ pc = "telemetry"
    /\ \/ \E p \in Providers \ collected :
            /\ exporters[p] \in {"closed", "failed"}
            /\ collected' = collected \cup {p}
            /\ errs' = errs \cup (IF exporters[p] = "failed" THEN {p} ELSE {})
            /\ pc' = IF collected' = Providers THEN "sync" ELSE pc
       \/ ~cfg.telemetry /\ pc' = "sync" /\ UNCHANGED <<collected, errs>>
    /\ UNCHANGED <<cfg, exit, exporters, store, listener, serve, signalled,
                   inShutdown, handlers, clock, returnedAt>>

(* shutdownProviders receives the results; without telemetry, noOpShutdown. *)
Collect ==
    /\ pc = "telemetry"
    /\ \/ \E p \in Providers \ collected :
            /\ exporters[p] \in {"closed", "failed"}
            /\ collected' = collected \cup {p}
            /\ errs' = errs \cup (IF exporters[p] = "failed" THEN {p} ELSE {})
            /\ pc' = IF collected' = Providers THEN "sync" ELSE pc
       \/ /\ clock >= cfg.timeout /\ cfg.telemetry
          /\ errs' = errs \cup {"deadline"} /\ pc' = "sync"
          /\ collected' = collected
       \/ /\ ~cfg.telemetry
          /\ pc' = "sync" /\ UNCHANGED <<collected, errs>>
    /\ UNCHANGED <<cfg, exit, exporters, store, listener, serve, signalled,
                   inShutdown, handlers, clock, returnedAt>>

(* isUnsupportedStandardStreamSyncError *)
UnsupportedSync == {"EINVAL"}

(* The leaves of the error tree that are left. *)
FilterStandardStreamSyncErrors(leaves) == leaves \ UnsupportedSync

(* SyncLogger, errors.Join, and the exit status run returns. *)
SyncLogger ==
    /\ pc = "sync"
    /\ \E leaves \in SUBSET {"EINVAL", "EIO"} :
         errs' = errs \cup (IF FilterStandardStreamSyncErrors(leaves) = {}
                            THEN {} ELSE {"sync"})
    /\ exit' = IF exit = "failure" \/ errs' # {} THEN "failure" ELSE "success"
    /\ pc' = "close"
    /\ UNCHANGED <<cfg, exporters, store, listener, serve, signalled,
                   inShutdown, handlers, clock, collected, returnedAt>>

(* The deferred calls: stopSignals, then store.Close, which waits for every *)
(* connection of the pool.                                                  *)
CloseStore ==
    /\ pc = "close"
    /\ \/ store = "open" /\ store' = "closing" /\ pc' = pc
       \/ /\ store = "closing" /\ \A h \in Handlers : handlers[h] # "querying"
          /\ store' = "closed" /\ pc' = "exited"
       \/ store = "none" /\ store' = store /\ pc' = "exited"
    /\ UNCHANGED <<cfg, exit, exporters, listener, serve, signalled, inShutdown,
                   handlers, clock, collected, errs, returnedAt>>

Exited == pc = "exited" /\ UNCHANGED runVars

Main == BeginShutdown \/ DrainEnds \/ AwaitServe \/ Collect \/ SyncLogger

RunNext ==
    \/ \E env \in Environments : LoadConfig(env)
    \/ NewTelemetry \/ OpenStore \/ GenerateSigner \/ Listen \/ StartRun
    \/ Serve \/ (\E h \in Handlers : Handler(h)) \/ (\E p \in Providers : Provider(p))
    \/ Signal \/ Tick
    \/ Main \/ CloseStore \/ Exited

RunSpec == RunInit /\ [][RunNext]_runVars

(* The scheduler runs the main goroutine and time passes; Serve, handlers,  *)
(* exporters and signals owe nothing.                                       *)
FairSpec == RunSpec /\ WF_runVars(Main) /\ WF_runVars(Tick)

----------------------------------------------------------------------------
(* Every variable keeps its type: the process is at one stage of its run,   *)
(* and what is open, owed or recorded is of the kind that stage handles.    *)
TypeOK ==
    /\ pc \in Startup \cup Stopping \cup {"select", "close", "exited"}
    /\ cfg.timeout \in Int /\ cfg.telemetry \in BOOLEAN /\ cfg.database \in BOOLEAN
    /\ exit \in {"none", "success", "failure", "killed"}
    /\ exporters \in [Providers -> {"none", "open", "closing", "closed", "failed"}]
    /\ store \in {"none", "open", "closing", "closed"}
    /\ listener \in {"none", "open", "closed"}
    /\ serve \in {"none", "starting", "serving"} \cup Returned
    /\ signalled \in BOOLEAN /\ inShutdown \in BOOLEAN
    /\ handlers \in [Handlers -> {"idle", "running", "querying"}]
    /\ clock \in 0..MaxClock /\ returnedAt \in 0..MaxClock
    /\ collected \subseteq Providers
    /\ errs \subseteq Providers \cup
                       {"inputs", "serve", "wait", "drain", "deadline", "sync"}

(* A configuration that Load accepts is one that Run accepts: the exclusive *)
(* lower bound of loadShutdownTimeout agrees with validateRunInputs, so the *)
(* process never gets as far as listening only to be refused by Run.        *)
AcceptedConfigurationRuns == "inputs" \notin errs

(* "HTTP, telemetry, and logger order": once Run shuts telemetry down, no   *)
(* request can arrive any more, unless the join reports that Serve never    *)
(* returned.                                                                *)
NoRequestAfterTelemetry ==
    pc \in {"telemetry", "sync", "close"} /\ exit # "failure" /\ "wait" \notin errs
    => listener = "closed" /\ ServeReturned

(* The telemetry reserve: however long the handlers hang, telemetry is      *)
(* reached with the reserve left of the shared deadline, provided Serve     *)
(* returned by the HTTP deadline.                                           *)
TelemetryReserve ==
    [][ (/\ pc = "await" /\ pc' = "telemetry"
         /\ ServeReturned /\ returnedAt <= cfg.timeout - TelemetryShutdownReserve)
        => cfg.timeout - clock >= TelemetryShutdownReserve ]_runVars

(* Exit status 0 is the whole truth: Serve was stopped by Shutdown, every   *)
(* handler had finished when Shutdown returned, every provider was shut     *)
(* down without an error, and the logger was flushed.                       *)
SuccessIsClean ==
    exit = "success" =>
        /\ serve = "ErrServerClosed"
        /\ \A h \in Handlers : handlers[h] = "idle"
        /\ \A p \in Providers : exporters[p] = (IF cfg.telemetry THEN "closed" ELSE "none")
        /\ errs = {}

(* Whatever fails at startup or shutdown, a process that exits by itself    *)
(* has begun to shut down every exporter it created, closed its pool, and   *)
(* closed its listener unless Serve never returned.                         *)
NothingLeftOpen ==
    pc = "exited" /\ exit # "killed" =>
        /\ \A p \in Providers : exporters[p] # "open"
        /\ store \in {"none", "closed"}
        /\ listener = "open" => "wait" \in errs

(* Run returns after a signal or a Serve failure although handlers and      *)
(* exporters hang.                                                          *)
RunReturns == (pc = "select" /\ (signalled \/ ServeReturned)) ~> (pc \in {"close", "exited"})

(* The documented bound: "the process remains below Cloud Run's ten-second  *)
(* termination window".                                                     *)
ExitsWithinWindow == clock >= 10 => pc = "exited"
=============================================================================
