------------------------------- MODULE Admission -------------------------------
(***************************************************************************)
(* What becomes of a policy on its way into the API server: the schema of  *)
(* the CRD drops what it does not know, the mutating webhook fills in      *)
(* defaults, the validating webhook refuses.  And what the controller      *)
(* makes of the numbers and names of a stored policy.                      *)
(*                                                                         *)
(* Source: deploy/crds, pkg/webhook/webhook.go, pkg/validation/validator.go*)
(* and gvr.go; batch_config.go, getOrCreateRateLimiterShared and           *)
(* buildDeleteOptions in pkg/controller.  An apiVersion is the sequence of *)
(* its parts between slashes.  What is a label is that of ResourceMatching.*)
(***************************************************************************)
EXTENDS ResourceMatching, Sequences

CONSTANTS
    \* properties of strings
    VPrefixed,      \* starts with "v"
    LongerThanV,    \* starts with "v" and has more to it
    Numeric,        \* has digits only
    DNSNames,       \* DNS-1123 subdomains
    Namespaces,     \* DNS-1123 labels that do not start with a digit
    Padded          \* has white space at an end

-----------------------------------------------------------------------------
(* The API server with the CRD.                                            *)

\* spec.paused and spec.evaluationInterval are not in the schema.
Prune(p) == [p EXCEPT !.paused = FALSE, !.evaluationInterval = {}]

PropagationPolicies == {"Foreground", "Background", "Orphan"}

\* "" stands for a field that is left out.
SchemaAccepts(p) == p.behavior.propagationPolicy \in PropagationPolicies \cup {""}

-----------------------------------------------------------------------------
(* The mutating webhook, on creation.                                      *)

DefaultMaxDeletionsPerSecond == 10
DefaultBatchSize == 50

\* A slip: a limit of one is taken for none.
OrDefaultFromOne(n, default) == IF n \in {0, 1} THEN default ELSE n

OrDefault(n, default) == IF n = 0 THEN default ELSE n

\* A behaviour of which nothing is given is replaced as a whole, to the same effect.
MutateBehavior(b) ==
    [b EXCEPT !.maxDeletionsPerSecond = OrDefault(@, DefaultMaxDeletionsPerSecond),
              !.batchSize = OrDefault(@, DefaultBatchSize),
              !.propagationPolicy = IF @ = "" THEN "Background" ELSE @]

\* A slip: every new policy becomes cluster-wide.
MutatePolicyEverywhere(p) ==
    [p EXCEPT !.behavior = MutateBehavior(@), !.targetResource.namespace = "*"]

MutatePolicy(p) ==
    [p EXCEPT !.behavior = MutateBehavior(@),
              !.targetResource.namespace = IF @ = "" THEN "*" ELSE @]

-----------------------------------------------------------------------------
(* The validating webhook.                                                 *)

IsValidVersion(v) == v \in LongerThanV \cup Numeric

ValidateLabelExpression(e) ==
    /\ AreLabels(e.key, e.values)
    /\ e.operator \in Operators
    /\ e.operator \in {"In", "NotIn"} => e.values # {}

ValidateTargetResource(target) ==
    /\ target.apiVersion # <<"">>
    /\ {target.apiVersion[1], target.apiVersion[Len(target.apiVersion)]} \cap Padded = {}
    /\ Len(target.apiVersion) = 1 => IsValidVersion(target.apiVersion[1]) \/ target.apiVersion[1] \in DNSNames
    /\ target.kind # "" /\ target.kind \notin Padded
    /\ target.namespace \in {"", "*"} \cup Namespaces
    /\ \A k \in DOMAIN target.matchLabels : AreLabels(k, {target.matchLabels[k]})
    /\ \A e \in target.matchExpressions : ValidateLabelExpression(e)

\* A slip: a relative TTL is one that has a field.
ValidateTTLRelativeOnly(ttl) ==
    /\ \/ \E s \in ttl.secondsAfterCreation : s > 0
       \/ ttl.fieldPath # ""
       \/ ttl.relativeTo # ""
    /\ ttl.fieldPath # "" => \A s \in DOMAIN ttl.mappings : ttl.mappings[s] > 0

ValidateTTL(ttl) ==
    /\ \/ \E s \in ttl.secondsAfterCreation : s > 0
       \/ ttl.fieldPath # ""
       \/ ttl.relativeTo # "" /\ \E s \in ttl.secondsAfter : s > 0
    /\ ttl.fieldPath # "" => \A s \in DOMAIN ttl.mappings : ttl.mappings[s] > 0

ValidateBehavior(b) ==
    /\ b.maxDeletionsPerSecond >= 0 /\ b.batchSize >= 0
    /\ b.propagationPolicy \in PropagationPolicies \cup {""}
    /\ \A s \in b.gracePeriodSeconds : s >= 0

ValidatePolicy(p) ==
    ValidateTargetResource(p.targetResource) /\ ValidateTTL(p.ttl) /\ ValidateBehavior(p.behavior)

-----------------------------------------------------------------------------
(* The controller.                                                         *)

\* ParseGVR, of which evaluation needs only that it succeeds.
Parses(target) ==
    /\ target.apiVersion # <<"">> /\ target.kind # ""
    /\ Len(target.apiVersion) = 1 => target.apiVersion[1] \in VPrefixed
    /\ Len(target.apiVersion) <= 2 /\ (Len(target.apiVersion) = 2 => "" \notin {target.apiVersion[1], target.apiVersion[2]})

\* A slip: any size but zero is taken over.
ResolveBatchSizeAsGiven(b, configured) == IF b.batchSize # 0 THEN b.batchSize ELSE configured

ResolveBatchSize(b, configured) == IF b.batchSize > 0 THEN b.batchSize ELSE configured

ResolveRate(b) ==
    IF b.maxDeletionsPerSecond > 0 THEN b.maxDeletionsPerSecond ELSE DefaultMaxDeletionsPerSecond

\* getDeletionPropagationPolicy
Propagation(name) == IF name \in {"Foreground", "Orphan"} THEN name ELSE "Background"

\* buildDeleteOptions
DeleteOptions(b) ==
    [propagationPolicy |-> Propagation(b.propagationPolicy),
     gracePeriodSeconds |-> b.gracePeriodSeconds]
================================================================================
