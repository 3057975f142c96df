---------------------------- MODULE PolicyLifecycle ----------------------------
(***************************************************************************)
(* One policy from what its author wrote to the deletions it causes: the   *)
(* author applies it, with or without the webhooks, the API server stores  *)
(* what is left of it, and the controller carries that out on one object   *)
(* that changes under it.  What evaluation does around a single decision   *)
(* is GCEvaluation.                                                        *)
(*                                                                         *)
(* The two webhooks are configured one by one, the Helm chart has neither, *)
(* mutation is for CREATE only, and both need a process that serves them.  *)
(* A stored policy outlives the process and may meet one with other        *)
(* settings.                                                               *)
(***************************************************************************)
EXTENDS TTLEvaluation, ResourceMatching, Admission, Configuration

CONSTANTS
    Manifests,      \* policies an author may write
    Objects,        \* objects as users may leave them
    MaxTime,        \* bound on the clock
    Setups,         \* environments and flags a process may be started with
    None            \* no policy, no object, or no process

IsOptional(o) == \A v, w \in o : v \in Int /\ v = w

IsTTL(ttl) ==
    /\ IsOptional(ttl.secondsAfterCreation) /\ IsOptional(ttl.default) /\ IsOptional(ttl.secondsAfter)
    /\ \A s \in DOMAIN ttl.mappings : ttl.mappings[s] \in Int

BehaviorSpec == [maxDeletionsPerSecond : Int, batchSize : Int, dryRun : BOOLEAN,
                 propagationPolicy : STRING, gracePeriodSeconds : SUBSET Int]

IsPolicy(p) ==
    /\ p \in [targetResource : {p.targetResource}, ttl : {p.ttl}, conditions : {p.conditions},
              behavior : BehaviorSpec, paused : BOOLEAN, evaluationInterval : SUBSET Nat]
    /\ LET t == p.targetResource
       IN t \in [apiVersion : {t.apiVersion}, kind : {t.kind}, namespace : STRING,
                 matchLabels : {t.matchLabels}, matchExpressions : {t.matchExpressions},
                 matchFields : {t.matchFields}]
    /\ IsTTL(p.ttl)

IsObject(o) ==
    o.created \in Int /\ \A path \in DOMAIN o.fields : o.fields[path].kind = "int" => o.fields[path].value \in Int

HasPaths(o, ttl) == {ttl.fieldPath, ttl.relativeTo} \ {""} \subseteq DOMAIN o.fields

ASSUME ConfigAssumption == MaxTime \in Nat /\ Setups \subseteq Setup
ASSUME ManifestAssumption == \A p \in Manifests : IsPolicy(p)
ASSUME ObjectAssumption ==
    \A o \in Objects : IsObject(o) /\ \A p \in Manifests : HasPaths(o, p.ttl)
ASSUME NoneAssumption ==
    None \notin Objects \cup Setups /\ \A p \in Manifests : None \notin {p, Prune(p), MutatePolicy(Prune(p))}

VARIABLES
    declared,       \* what the author last got accepted
    stored,         \* what the API server keeps of it
    checked,        \* it went through the validating webhook
    object,         \* the object
    now,
    process         \* the environment and flags of the running process

policy == <<declared, stored, checked>>
vars   == <<declared, stored, checked, object, now, process>>

\* What may be stored of a manifest.
StoredForms(p) == {Prune(p), MutatePolicy(Prune(p))}

TypeOK ==
    /\ declared \in Manifests \cup {None} /\ checked \in BOOLEAN
    /\ IF declared = None THEN stored = None /\ ~checked ELSE stored \in StoredForms(declared)
    /\ object \in Objects \cup {None}
    /\ now \in 0 .. MaxTime
    /\ process \in Setups \cup {None}

Init ==
    /\ declared = None /\ stored = None /\ checked = FALSE
    /\ object \in Objects /\ now = 0 /\ process = None

-----------------------------------------------------------------------------
(* The author and the API server.                                          *)

\* A webhook that is called answers, or its failurePolicy refuses the write.
Served == process # None /\ ServesAdmission(process)

Store(p, q, validating) ==
    /\ SchemaAccepts(q) /\ (validating => Served /\ ValidatePolicy(q))
    /\ declared' = p /\ stored' = q /\ checked' = validating
    /\ UNCHANGED <<object, now, process>>

CreatePolicy(p, mutating, validating) ==
    /\ stored = None /\ (mutating => Served)
    /\ Store(p, IF mutating THEN MutatePolicy(Prune(p)) ELSE Prune(p), validating)

\* A slip: an update does not reach the behaviour.
UpdatePolicyKeepsBehavior(p, validating) ==
    stored # None /\ Store(p, [Prune(p) EXCEPT !.behavior = stored.behavior], validating)

UpdatePolicy(p, validating) == stored # None /\ Store(p, Prune(p), validating)

RemovePolicy ==
    /\ stored # None
    /\ declared' = None /\ stored' = None /\ checked' = FALSE
    /\ UNCHANGED <<object, now, process>>

-----------------------------------------------------------------------------
(* The object, and time.                                                   *)

ChangeObject(o) == object' = o /\ UNCHANGED <<policy, now, process>>

Tick == now < MaxTime /\ now' = now + 1 /\ UNCHANGED <<policy, object, process>>

-----------------------------------------------------------------------------
(* The controller.                                                         *)

\* A variable that cannot be read, or a missing certificate, ends the process before it
\* does anything.
StartProcess(s) ==
    /\ process = None /\ Starts(s) /\ process' = s
    /\ UNCHANGED <<policy, object, now>>

EndProcess == process # None /\ process' = None /\ UNCHANGED <<policy, object, now>>

\* The batch size in force.
BatchSize(p) == ResolveBatchSize(p.behavior, Settings(process).BatchSize)

\* Reconcile, EvaluatePolicy and evaluateResources for one object.
Judgement(p, o, t, later) ==
    IF p.paused THEN "Paused"
    ELSE IF ~Parses(p.targetResource) THEN "InvalidGVR"
    ELSE IF ~Watched(o, p.targetResource) THEN "NotListed"
    ELSE IF ~MatchesSelectors(o, p.targetResource) THEN "Unmatched"
    ELSE IF ~MeetsConditions(o, p.conditions) THEN "ConditionNotMet"
    ELSE ShouldDelete(o, p.ttl, t, later)

\* An evaluation that ends at a time at which the clock is read again; a dry run only
\* reports.  The loop over batches of less than one object gets nowhere.
Evaluate(later) ==
    /\ process # None /\ stored # None /\ object # None
    /\ later \in now .. MaxTime
    /\ now' = later
    /\ object' = IF Judgement(stored, object, now, later) = "TTLExpired" /\ ~stored.behavior.dryRun
                    /\ BatchSize(stored) > 0
                 THEN None ELSE object
    /\ UNCHANGED <<policy, process>>

Next ==
    \/ \E p \in Manifests, mutating, validating \in BOOLEAN : CreatePolicy(p, mutating, validating)
    \/ \E p \in Manifests, validating \in BOOLEAN : UpdatePolicy(p, validating)
    \/ RemovePolicy
    \/ \E o \in Objects : ChangeObject(o)
    \/ Tick
    \/ \E s \in Setups : StartProcess(s)
    \/ EndProcess
    \/ \E later \in 0 .. MaxTime : Evaluate(later)

Spec == Init /\ [][Next]_vars

-----------------------------------------------------------------------------
(* Properties.                                                             *)

Deleted == object # None /\ object' = None

\* What the documents say: an integer field is the TTL, a string has a mapping, and the
\* default is for everything else.
DocumentedSeconds(field, ttl) ==
    LET mapped == {ttl.mappings[s] : s \in {s \in DOMAIN ttl.mappings :
                                              field.kind = "string" /\ field.value = s}}
    IN IF field.kind = "int" THEN {field.value} ELSE IF mapped # {} THEN mapped ELSE ttl.default

Timestamps(field) == {TimeOf[s] : s \in {s \in DOMAIN TimeOf : field.kind = "string" /\ field.value = s}}

\* The start and the seconds of the TTL, at most one pair.
Terms(o, ttl) ==
    IF ttl.secondsAfterCreation # {} THEN {o.created} \X ttl.secondsAfterCreation
    ELSE IF ttl.fieldPath # "" THEN {o.created} \X DocumentedSeconds(o.fields[ttl.fieldPath], ttl)
    ELSE IF ttl.relativeTo # "" THEN Timestamps(o.fields[ttl.relativeTo]) \X ttl.secondsAfter
    ELSE {}

\* A duration that int64 nanoseconds can express, and a time that is not time.Time{}.
Representable(term) ==
    /\ -Half <= term[2] * Second /\ term[2] * Second < Half
    /\ term[1] + term[2] * Second # ZeroTime

\* A string field of a policy without mappings: the default is documented, not used.
DefaultIgnored(o, ttl) ==
    /\ ttl.secondsAfterCreation = {} /\ ttl.fieldPath # "" /\ DOMAIN ttl.mappings = {}
    /\ o.fields[ttl.fieldPath].kind = "string"

\* An object is found expired exactly from the documented moment on, in all four modes,
\* though an expired relative TTL is an error of the calculation and the clock is read
\* twice (CalculateExpirationTime and shouldDelete).
DecisionExact ==
    stored # None /\ object # None
      /\ ~DefaultIgnored(object, stored.ttl)
      /\ (\A term \in Terms(object, stored.ttl) : Representable(term))
    => \A later \in now .. MaxTime :
          ShouldDelete(object, stored.ttl, now, later) = "TTLExpired"
            <=> \E term \in Terms(object, stored.ttl) : later > term[1] + term[2] * Second

\* A policy that validation let through has a TTL for the evaluator, whatever the object:
\* the two read the six optional fields in different orders (validateTTL against
\* CalculateExpirationTime).
AdmittedHasTTL ==
    checked /\ object # None
    => CalculateExpirationTime(object, stored.ttl, now).err # "ErrNoValidTTLConfiguration"

\* The defaults of the webhook and those of the controller are the same: under the default
\* batch size a policy is carried out alike whether it was mutated or not (mutatePolicy
\* against resolveBatchSize, getOrCreateRateLimiterShared and buildDeleteOptions).
Carried(p) ==
    [batchSize |-> BatchSize(p), rate |-> ResolveRate(p.behavior),
     options |-> DeleteOptions(p.behavior), dryRun |-> p.behavior.dryRun]

DefaultsTransparent ==
    stored # None /\ process # None /\ Settings(process).BatchSize = DefaultBatchSize
    => Carried(stored) = Carried(declared)

\* No policy and no environment makes the batch loop endless or stops the limiter, checked
\* or not; only --batch-size can, and not for a policy that was mutated (runMain,
\* LoadFromEnv, mutatePolicy, resolveBatchSize and getOrCreateRateLimiterShared).
Sized == process.flags.BatchSize > 0 \/ (checked /\ stored = MutatePolicy(Prune(declared)))

BatchUsable ==
    stored # None /\ process # None /\ Sized
    => BatchSize(stored) > 0 /\ ResolveRate(stored.behavior) > 0

AsDeclared ==
    /\ declared # None /\ ~declared.behavior.dryRun
    /\ MatchesSelectors(object, declared.targetResource)
    /\ MeetsConditions(object, declared.conditions)

\* Only what the author's own words select is deleted, and never by a dry run, whatever
\* the API server and the webhooks made of them.
DeletionDeclared == [][Deleted => AsDeclared]_vars

\* docs/DEPLOYMENT.md:52: "Paused policies (`spec.paused`) are skipped entirely".  The
\* shipped CRD does not have the field.
PausedSkipped == [][Deleted => ~declared.paused]_vars
================================================================================
