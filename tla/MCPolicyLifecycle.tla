--------------------------- MODULE MCPolicyLifecycle ---------------------------
(***************************************************************************)
(* The instance of PolicyLifecycle for TLC.  A second has 2 ticks and an   *)
(* int64 ends at 8 of them, so that 3 seconds can be expressed and 4 wrap. *)
(* Manifests vary one part of a policy at a time.                          *)
(***************************************************************************)
EXTENDS PolicyLifecycle, TLC

MCTimeOf == [noon |-> 1]
MCZeroTime == -1000

-----------------------------------------------------------------------------
(* Objects.                                                                *)

Number(n)    == [kind |-> "int", value |-> n]
Text(s)    == [kind |-> "string", value |-> s]
Absent    == [kind |-> "absent"]
OtherType == [kind |-> "other"]

Fields(ttl, phase) == ("spec.ttl" :> ttl) @@ ("status.phase" :> phase) @@ ("escaped.path" :> Text("low"))

Plain == [created |-> 0, namespace |-> "a", labels |-> [app |-> "x"], annotations |-> <<>>,
          fields |-> Fields(Number(1), Text("Done"))]

MCObjects ==
    {[Plain EXCEPT !.fields = Fields(f, Text("Done"))] :
        f \in {Number(0), Number(4), Absent, OtherType, Text("low"), Text("odd"), Text("noon")}}
    \cup {Plain,
          [Plain EXCEPT !.created = 1],
          [Plain EXCEPT !.namespace = "b"],
          [Plain EXCEPT !.labels = <<>>],
          [Plain EXCEPT !.labels = [app |-> ""]],
          [Plain EXCEPT !.annotations = [keep |-> "no"]],
          [Plain EXCEPT !.fields = Fields(Number(1), Absent)]}

-----------------------------------------------------------------------------
(* Manifests.                                                              *)

TTL == [secondsAfterCreation : {{}, {0}, {1}, {4}}, fieldPath : {"", "spec.ttl"},
        mappings : {<<>>, [low |-> 1], [low |-> 0]}, default : {{}, {2}},
        relativeTo : {"", "spec.ttl"}, secondsAfter : {{}, {0}, {1}}]

\* What a mode does not read is left out, but for one combination of all.
TTLs == {t \in TTL :
    /\ t.secondsAfterCreation # {} => t.mappings = <<>> /\ t.default = {} /\ t.secondsAfter \in {{}, {1}}
    /\ t.fieldPath = "" => t.mappings = <<>> /\ t.default = {}
    /\ t.fieldPath # "" => t.relativeTo = "" /\ t.secondsAfter = {}
    /\ t.relativeTo = "" => t.secondsAfter = {}}

Base == [
    targetResource |-> [apiVersion |-> <<"v1">>, kind |-> "Pod", namespace |-> "",
                        matchLabels |-> <<>>, matchExpressions |-> {}, matchFields |-> {}],
    ttl |-> [secondsAfterCreation |-> {1}, fieldPath |-> "", mappings |-> <<>>, default |-> {},
             relativeTo |-> "", secondsAfter |-> {}],
    conditions |-> [phase |-> {}, hasLabels |-> {}, hasAnnotations |-> {}, and |-> {}],
    behavior |-> [maxDeletionsPerSecond |-> 0, batchSize |-> 0, dryRun |-> FALSE,
                  propagationPolicy |-> "", gracePeriodSeconds |-> {}],
    paused |-> FALSE, evaluationInterval |-> {}]

Targets ==
    {[Base.targetResource EXCEPT !.apiVersion = v] :
        v \in {<<"">>, <<"1">>, <<"Apps">>, <<"apps", "v1">>, <<"apps", "">>, <<"a", "b", "c">>}}
    \cup {[Base.targetResource EXCEPT !.namespace = n] : n \in {"*", "a", "9"}}
    \cup {[Base.targetResource EXCEPT !.kind = ""],
          [Base.targetResource EXCEPT !.matchLabels = [app |-> "x"]],
          [Base.targetResource EXCEPT !.matchLabels = [app |-> "?"]],
          [Base.targetResource EXCEPT !.matchFields = {[key |-> "escaped.path", value |-> "low"]}],
          [Base.targetResource EXCEPT !.matchFields = {[key |-> "status.phase", value |-> "Done"]}]}
    \cup {[Base.targetResource EXCEPT !.matchExpressions = {[key |-> "app", operator |-> op, values |-> vs]}] :
            op \in {"In", "NotIn", "Exists", "DoesNotExist", "Near"}, vs \in {{}, {"x"}}}
    \cup {[Base.targetResource EXCEPT !.matchExpressions = {[key |-> k, operator |-> "NotIn", values |-> {v}]}] :
            k \in {"app", "-app"}, v \in {"x", "?"}}

NoConditions == Base.conditions

Conditions ==
    {[NoConditions EXCEPT !.phase = {"Done"}], [NoConditions EXCEPT !.hasAnnotations = {[key |-> "keep", value |-> "no"]}]}
    \cup {[NoConditions EXCEPT !.hasLabels = {[key |-> "app", operator |-> op, value |-> v]}] :
            op \in {"", "Exists", "In", "NotIn", "Near"}, v \in {"", "x"}}
    \cup {[NoConditions EXCEPT !.and = {[fieldPath |-> "spec.ttl", operator |-> op, value |-> "low", values |-> {"odd"}]}] :
            op \in {"Equals", "NotEquals", "In", "NotIn", "Exists"}}

Behaviors ==
    {[Base.behavior EXCEPT !.maxDeletionsPerSecond = r, !.batchSize = b] : r \in {-1, 0, 1}, b \in {-1, 0, 1}}
    \cup {[Base.behavior EXCEPT !.propagationPolicy = pp] : pp \in {"Foreground", "Orphan", "Sometimes"}}
    \cup {[Base.behavior EXCEPT !.dryRun = TRUE], [Base.behavior EXCEPT !.gracePeriodSeconds = {-1}]}

MCManifests ==
    {[Base EXCEPT !.ttl = t] : t \in TTLs}
    \cup {[Base EXCEPT !.targetResource = r] : r \in Targets}
    \cup {[Base EXCEPT !.conditions = c] : c \in Conditions}
    \cup {[Base EXCEPT !.behavior = b] : b \in Behaviors}
    \cup {[Base EXCEPT !.paused = TRUE, !.evaluationInterval = {60}]}

-----------------------------------------------------------------------------
(* Processes, whose environment names a batch size as well.                *)

Unset == [kind |-> "unset", value |-> 0]

MCEnvironment ==
    [GCInterval |-> Unset, MaxDeletionsPerSecond |-> Unset,
     BatchSize |-> [kind |-> "int", value |-> 7], MaxConcurrentEvaluations |-> Unset]

TLSWebhook == [enabled |-> TRUE, insecure |-> FALSE, files |-> {"cert", "key"}]

Process == [env |-> MCEnvironment, flags |-> NewControllerConfig, webhook |-> TLSWebhook]

\* A plain process, one without a batch size, one as the Helm chart starts it, and two that
\* do not come up.
MCSetups ==
    {Process, [Process EXCEPT !.flags.BatchSize = 0], [Process EXCEPT !.webhook.enabled = FALSE],
     [Process EXCEPT !.env.GCInterval.kind = "text"], [Process EXCEPT !.webhook.files = {"cert"}]}
================================================================================
