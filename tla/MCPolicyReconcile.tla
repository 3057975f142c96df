-------------------------- MODULE MCPolicyReconcile --------------------------
(* Two policies, one with an interval of its own, under the defaults and     *)
(* --gc-interval=0, each with a zero interval in the environment; and a      *)
(* process that refuses to start.                                            *)
EXTENDS PolicyReconcile

CONSTANTS p, q

MCOwnInterval == [n \in Policies |-> IF n = p THEN 300 ELSE 0]

Unset == [kind |-> "unset", value |-> 0]

MCEnvironment ==
    [GCInterval |-> [kind |-> "duration", value |-> 0], MaxDeletionsPerSecond |-> Unset,
     BatchSize |-> Unset, MaxConcurrentEvaluations |-> Unset]

Process == [env |-> MCEnvironment, flags |-> NewControllerConfig,
            webhook |-> [enabled |-> FALSE, insecure |-> FALSE, files |-> {}]]

MCSetups ==
    {Process, [Process EXCEPT !.flags.GCInterval = 0], [Process EXCEPT !.env.BatchSize.kind = "text"]}
==============================================================================
