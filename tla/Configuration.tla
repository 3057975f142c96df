---------------------------- MODULE Configuration ----------------------------
(***************************************************************************)
(* The settings of a controller process: the defaults, the environment as  *)
(* the validator reads it, the flags on top, the webhook server, and what  *)
(* of a setting and a policy's own value is in force.                      *)
(*                                                                         *)
(* Source: pkg/config/config.go, internal/config/validator.go, runMain and *)
(* startWebhookServer in cmd/gc-controller/main.go, Start and StartTLS in  *)
(* pkg/webhook/webhook.go, and getRequeueIntervalForPolicy in              *)
(* pkg/controller.                                                         *)
(* A variable of the environment is not set, an integer, a duration, a     *)
(* text that only ends like a duration, or another text.                   *)
(***************************************************************************)
EXTENDS Integers

ControllerConfig == [GCInterval: Int, MaxDeletionsPerSecond: Int, BatchSize: Int,
                     MaxConcurrentEvaluations: Int]

Environment == [GCInterval: [kind: {"unset", "duration", "suffixed", "text"}, value: Int],
                MaxDeletionsPerSecond: [kind: {"unset", "int", "text"}, value: Int],
                BatchSize: [kind: {"unset", "int", "text"}, value: Int],
                MaxConcurrentEvaluations: [kind: {"unset", "int", "text"}, value: Int]]

\* The flags of the admission webhook and the files it finds.
Webhook == [enabled: BOOLEAN, insecure: BOOLEAN, files: SUBSET {"cert", "key"}]

\* What a process is started with.
Setup == [env: Environment, flags: ControllerConfig, webhook: Webhook]

\* Seconds, deletions per second, objects, policies.
NewControllerConfig ==
    [GCInterval |-> 60, MaxDeletionsPerSecond |-> 10, BatchSize |-> 50, MaxConcurrentEvaluations |-> 5]

Numbers == {"MaxDeletionsPerSecond", "BatchSize", "MaxConcurrentEvaluations"}

\* OptionalInt and OptionalDuration note what is set and cannot be read; for a duration the
\* last letter decides.
RefusedInts(env) == {k \in Numbers : env[k].kind = "text"}
RefusedDurations(env) == {k \in {"GCInterval"} : env[k].kind = "text"}

\* Validate: one refused variable is enough.
Refused(env) == RefusedInts(env) \cup RefusedDurations(env)

\* Only a positive number counts, but any duration that parses; "5xm" passes the validator
\* and keeps the default.
FromEnv(c, env, k) ==
    IF env[k].kind = "duration" \/ (env[k].kind = "int" /\ env[k].value > 0) THEN env[k].value ELSE c[k]

LoadFromEnv(c, env) == [k \in DOMAIN c |-> FromEnv(c, env, k)]

\* A slip: only what the user gave on the command line is set.
WithFlagsGiven(c, flags) == [k \in DOMAIN c |-> IF flags[k] = NewControllerConfig[k] THEN c[k] ELSE flags[k]]

\* The four With calls: a flag that was not given has its default, and wins as well.
WithFlags(c, flags) == [k \in DOMAIN c |-> flags[k]]

HasTLS(w) == w.files = {"cert", "key"}

\* startWebhookServer ends the process when a file is missing, but for a test.
WebhookStarts(w) == w.enabled /\ ~HasTLS(w) => w.insecure

\* The API server calls a webhook by HTTPS only.
ServesAdmission(setup) == setup.webhook.enabled /\ HasTLS(setup.webhook)

\* runMain returns 1 when a variable was refused.
Starts(setup) == Refused(setup.env) = {} /\ WebhookStarts(setup.webhook)

Settings(setup) == WithFlags(LoadFromEnv(NewControllerConfig, setup.env), setup.flags)

-----------------------------------------------------------------------------
(* A policy's own value and the setting.                                   *)

RequeueInterval(own, c) == IF own > 0 THEN own ELSE c.GCInterval
==============================================================================
