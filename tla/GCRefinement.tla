---------------------------- MODULE GCRefinement ----------------------------
(***************************************************************************)
(* GCEvaluation as an implementation of CollectorPromise.  The mapping     *)
(* forgets the cache, the watch, the requests and the run; it keeps which  *)
(* objects there have been, which are gone, and the two histories.         *)
(***************************************************************************)
EXTENDS GCEvaluation

Born == UNION {{<<n, u>> : u \in 1 .. uids[n]} : n \in Names}

\* A terminating object counts as gone: nothing brings it back.
Departed == {o \in Born : live[o[1]].uid # o[2] \/ live[o[1]].terminating}

Collected == {<<v.name, v.uid>> : v \in victims}

\* A dry run reports a rehearsal, not a deletion.
Reported == {<<a.name, a.uid>> : a \in {b \in announced : ~b.dry}}

Promise == INSTANCE CollectorPromise WITH
    newest <- uids, gone <- Departed, collected <- Collected, reported <- Reported

\* Stale listings, lost answers, retries, deletes by name and changes of leader never
\* show from outside as more than objects that come, go and are reported once gone
\* (EvaluatePolicy, deleteResourceWithBackoffShared, performResourceDeletion).
PromiseKept == Promise!Spec
=============================================================================
