------------------------------- MODULE Config -------------------------------
(***************************************************************************)
(* internal/config: Load, from an environment to a typed configuration.    *)
(*                                                                         *)
(* An environment gives every variable a value: Unset when it is absent or *)
(* blank, Unparsable when the value is not of the variable's type.         *)
(* Durations are in seconds.  The sampler variables are the set of those   *)
(* present; the database is whether its variable is non-empty.  An endpoint *)
(* is named by what parseEndpoint of internal/observability tells apart.   *)
(***************************************************************************)
EXTENDS Integers

CONSTANTS Unset, Unparsable

MinimumShutdownTimeout == 1
MaximumShutdownTimeout == 9

(* lookupOrDefault *)
LookupOrDefault(value, default) == IF value = Unset THEN default ELSE value

LoadPort(env) ==
    LET port == LookupOrDefault(env.port, 8080)
    IN  port # Unparsable /\ port >= 1 /\ port <= 65535

LoadLogLevel(env) ==
    LookupOrDefault(env.level, "info") \in {"debug", "info", "warn", "error"}

(* Faulty variant: the bounds are both inclusive. *)
LoadShutdownTimeoutInclusive(env) ==
    LET timeout == LookupOrDefault(env.timeout, 8)
    IN  /\ timeout # Unparsable
        /\ timeout >= MinimumShutdownTimeout
        /\ timeout <= MaximumShutdownTimeout

LoadShutdownTimeout(env) ==
    LET timeout == LookupOrDefault(env.timeout, 8)
    IN  /\ timeout # Unparsable
        /\ timeout > MinimumShutdownTimeout
        /\ timeout <= MaximumShutdownTimeout

Enabled(env) == LookupOrDefault(env.enabled, FALSE)

LoadTraceSampleRatio(env) ==
    LET ratio == LookupOrDefault(env.ratio, 1)
    IN  ratio # Unparsable /\ ratio >= 0 /\ ratio <= 1

Environment(env) == LookupOrDefault(env.environment, "local")

LoadDeploymentEnvironment(env) ==
    Environment(env) \in {"local", "development", "production"}

(* rejectAmbientOTELSamplerConfiguration looks at presence, not at values. *)
AmbientSampler(env) == env.sampler # {}

LoadTelemetry(env) ==
    /\ Enabled(env) # Unparsable
    /\ Enabled(env) = TRUE => ~AmbientSampler(env)
    /\ LoadTraceSampleRatio(env)
    /\ LoadDeploymentEnvironment(env)
    /\ Enabled(env) = TRUE => env.endpoint # Unset
    /\ Environment(env) = "production" => env.project # Unset
    /\ env.project # Unparsable

(* Load returns no error. *)
Accepted(env) ==
    /\ LoadPort(env)
    /\ LoadLogLevel(env)
    /\ LoadShutdownTimeout(env)
    /\ LoadTelemetry(env)

(* Faulty variant: the timeout is stored as it was looked up. *)
LoadRawTimeout(env) ==
    [timeout |-> env.timeout,
     telemetry |-> Enabled(env),
     endpoint |-> env.endpoint,
     database |-> env.database,
     keyReference |-> LookupOrDefault(env.keyReference, "valid")]

(* The part of the configuration that startup and shutdown depend on.  The  *)
(* database URL and the signer's key reference are not looked at.           *)
Load(env) ==
    [timeout |-> LookupOrDefault(env.timeout, 8),
     telemetry |-> Enabled(env),
     endpoint |-> env.endpoint,
     database |-> env.database,
     keyReference |-> LookupOrDefault(env.keyReference, "valid")]
=============================================================================
