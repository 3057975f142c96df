-------------------------- MODULE CollectorPromise --------------------------
(***************************************************************************)
(* What the collector promises about the objects of a target, whatever it  *)
(* lists, retries, loses or forgets on the way: an object is <<n, u>>, the *)
(* u-th one under the name n.  Under a name they come one after the other, *)
(* what has gone stays gone, the collector takes only what is there, and   *)
(* reports only what has gone.                                             *)
(*                                                                         *)
(* GCRefinement shows that GCEvaluation implements it, from a cluster that *)
(* has none yet; FailoverProofs, that Failover does: several replicas      *)
(* together, and objects that are there from the start.                    *)
(***************************************************************************)
EXTENDS Naturals

CONSTANT Names

VARIABLES
    newest,     \* how many objects there have been under a name
    gone,       \* those that were removed, or are terminating
    collected,  \* those of them that the collector removed
    reported    \* those it has reported as deleted

vars == <<newest, gone, collected, reported>>

Init ==
    /\ newest \in [Names -> {0, 1}]
    /\ gone = {} /\ collected = {} /\ reported = {}

There(n) == newest[n] # 0 /\ <<n, newest[n]>> \notin gone

Create(n) ==
    /\ ~There(n) /\ newest' = [newest EXCEPT ![n] = @ + 1]
    /\ UNCHANGED <<gone, collected, reported>>

\* Somebody else removes the object.
Leave(n) ==
    /\ There(n) /\ gone' = gone \cup {<<n, newest[n]>>}
    /\ UNCHANGED <<newest, collected, reported>>

Collect(n) ==
    /\ There(n) /\ gone' = gone \cup {<<n, newest[n]>>}
    /\ collected' = collected \cup {<<n, newest[n]>>}
    /\ UNCHANGED <<newest, reported>>

Report(o) ==
    /\ o \in gone /\ reported' = reported \cup {o}
    /\ UNCHANGED <<newest, gone, collected>>

Next ==
    \/ \E n \in Names : Create(n) \/ Leave(n) \/ Collect(n)
    \/ \E o \in gone : Report(o)

Spec == Init /\ [][Next]_vars
=============================================================================
