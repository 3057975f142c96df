-------------------------- MODULE PolicyReconcile --------------------------
(***************************************************************************)
(* Policies and the reconcile loop of the leader: the manager's cache and  *)
(* work queue, Reconcile with the three maps it keeps per policy, the      *)
(* requeue after every outcome, and the status write, whose watch event    *)
(* comes back into the queue.                                              *)
(*                                                                         *)
(* Source: Reconcile and the functions it calls in                         *)
(* pkg/controller/reconciler.go and reconciler_helpers.go, and             *)
(* status_updater.go.  One worker (MaxConcurrentReconciles is left at 1).  *)
(* The maps live as long as the process: Init is a process that has        *)
(* started with some settings, has been elected and has listed the         *)
(* policies.                                                               *)
(***************************************************************************)
EXTENDS Configuration, Sequences

CONSTANTS
    Policies,       \* namespaced names of policies
    OwnInterval,    \* spec.evaluationInterval of each, 0 when there is none
    Setups,         \* environments and flags the process may be started with
    MaxEdits        \* bound: changes users make to policies

ASSUME EditAssumption == MaxEdits \in Nat
ASSUME IntervalAssumption == OwnInterval \in [Policies -> Nat]
ASSUME SetupAssumption == Setups \subseteq Setup

VARIABLES
    \* the API server
    stored,     \* the policy under each name
    uids,       \* UIDs handed out under each name
    status,     \* its status: the phase, and the UID whose evaluation the counts are of
    feed,       \* versions the manager's watch has not delivered yet
    echo,       \* a status change the watch has not delivered yet
    edits,      \* changes users may still make
    \* the manager
    cached,     \* the manager's cache
    queue,      \* the work queue: not there, waiting for its time, ready
    \* the reconciler
    policyUIDs, \* UID tracked under each name, 0 when none
    policySpecs, rateLimiters,  \* UIDs with an entry in the map
    pc, cur, policy,    \* where Reconcile stands, for which name, on which copy
    clash,      \* the policy changed after UpdateStatus read it
    process     \* the environment and flags the process was started with

vars == <<stored, uids, status, feed, echo, edits, cached, queue, policyUIDs, policySpecs,
          rateLimiters, pc, cur, policy, clash, process>>

given == <<stored, uids, status, edits, process>>
maps == <<policyUIDs, policySpecs, rateLimiters>>

Policy == [uid: Nat, paused: BOOLEAN]
Absent == [uid |-> 0, paused |-> FALSE]
NoStatus == [phase |-> "", of |-> 0]

TypeOK ==
    /\ stored \in [Policies -> Policy] /\ cached \in [Policies -> Policy]
    /\ uids \in [Policies -> Nat] /\ feed \in [Policies -> Seq(Policy)]
    /\ status \in [Policies -> [phase: {"", "Active", "Paused"}, of: Nat]]
    /\ echo \in [Policies -> BOOLEAN] /\ edits \in Nat
    /\ queue \in [Policies -> {"none", "waiting", "ready"}]
    /\ policyUIDs \in [Policies -> Nat]
    /\ policySpecs \in SUBSET (Policies \X Nat) /\ rateLimiters \in SUBSET (Policies \X Nat)
    /\ pc \in {"idle", "evaluate", "getStatus", "putStatus"}
    /\ cur \in Policies /\ policy \in Policy /\ clash \in BOOLEAN
    /\ process \in Setups

Init ==
    /\ stored \in [Policies -> {Absent} \cup [uid: {1}, paused: BOOLEAN]]
    /\ uids = [n \in Policies |-> stored[n].uid] /\ status = [n \in Policies |-> NoStatus]
    /\ feed = [n \in Policies |-> <<>>] /\ echo = [n \in Policies |-> FALSE]
    /\ edits = MaxEdits /\ cached = stored
    /\ queue = [n \in Policies |-> IF stored[n] = Absent THEN "none" ELSE "ready"]
    /\ policyUIDs = [n \in Policies |-> 0] /\ policySpecs = {} /\ rateLimiters = {}
    /\ pc = "idle" /\ cur \in Policies /\ policy = Absent /\ clash = FALSE
    /\ process \in {s \in Setups : Starts(s)}

-----------------------------------------------------------------------------
(* Users, the watch and the work queue.                                    *)

\* A user's write: it bumps the resource version and queues an event.
Store(n, o) ==
    /\ edits > 0 /\ edits' = edits - 1
    /\ stored' = [stored EXCEPT ![n] = o] /\ feed' = [feed EXCEPT ![n] = Append(@, o)]
    /\ clash' = (clash \/ (pc = "putStatus" /\ n = cur))
    /\ UNCHANGED <<echo, cached, queue, maps, pc, cur, policy, process>>

Create(n, paused) ==
    /\ stored[n] = Absent
    /\ Store(n, [uid |-> uids[n] + 1, paused |-> paused])
    /\ uids' = [uids EXCEPT ![n] = @ + 1] /\ status' = [status EXCEPT ![n] = NoStatus]

\* The spec changes: paused, resumed, or something else.
Update(n, paused) ==
    /\ stored[n] # Absent /\ Store(n, [stored[n] EXCEPT !.paused = paused])
    /\ UNCHANGED <<uids, status>>

Remove(n) ==
    /\ stored[n] # Absent /\ Store(n, Absent)
    /\ status' = [status EXCEPT ![n] = NoStatus] /\ UNCHANGED uids

\* The watch delivers the next version, or a re-list the latest; the event handler
\* adds the name, which stays one entry however often it is added.
Deliver(n) ==
    /\ feed[n] # <<>>
    /\ \E k \in {1, Len(feed[n])} :
         /\ cached' = [cached EXCEPT ![n] = feed[n][k]]
         /\ feed' = [feed EXCEPT ![n] = SubSeq(@, k + 1, Len(@))]
    /\ queue' = [queue EXCEPT ![n] = "ready"]
    /\ UNCHANGED <<given, echo, maps, pc, cur, policy, clash>>

\* No predicate filters the controller's own status writes.
DeliverStatus(n) ==
    /\ echo[n] /\ echo' = [echo EXCEPT ![n] = FALSE]
    /\ queue' = [queue EXCEPT ![n] = "ready"]
    /\ UNCHANGED <<given, feed, cached, maps, pc, cur, policy, clash>>

\* RequeueAfter runs out.
Fire(n) ==
    /\ queue[n] = "waiting" /\ queue' = [queue EXCEPT ![n] = "ready"]
    /\ UNCHANGED <<given, feed, echo, cached, maps, pc, cur, policy, clash>>

-----------------------------------------------------------------------------
(* Reconcile.                                                              *)

\* A slip: the rate limiter is left behind.
CleanupWithoutLimiter(n) ==
    /\ policyUIDs' = [policyUIDs EXCEPT ![n] = 0]
    /\ policySpecs' = policySpecs \ {<<n, policyUIDs[n]>>} /\ UNCHANGED rateLimiters

\* cleanupPolicyResources: what is tracked under the name goes.
Cleanup(n) ==
    /\ policyUIDs' = [policyUIDs EXCEPT ![n] = 0]
    /\ policySpecs' = policySpecs \ {<<n, policyUIDs[n]>>}
    /\ rateLimiters' = rateLimiters \ {<<n, policyUIDs[n]>>}

\* A slip: the limiter of a policy that shows up is made afresh.
TrackAfresh(n, uid) ==
    /\ policyUIDs' = [policyUIDs EXCEPT ![n] = uid]
    /\ policySpecs' = policySpecs \cup {<<n, uid>>}
    /\ rateLimiters' = rateLimiters \ {<<n, uid>>}

\* trackPolicyUID, handleInformerRecreation and trackPolicySpec.
Track(n, uid) ==
    /\ policyUIDs' = [policyUIDs EXCEPT ![n] = uid]
    /\ policySpecs' = policySpecs \cup {<<n, uid>>} /\ UNCHANGED rateLimiters

\* The entry of n once its reconcile returned with RequeueAfter: controller-runtime forgets
\* it when that is not positive.
After(n, delay) == IF queue[n] = "ready" THEN "ready" ELSE IF delay > 0 THEN "waiting" ELSE "none"

\* A slip: after an error only the events of the watch bring a policy back.
ErrorDelayNone == 0

\* handleEvaluationError.
ErrorDelay == 30

\* getRequeueIntervalForPolicy.
Interval(n) == RequeueInterval(OwnInterval[n], Settings(process))

\* The policy is gone from the cache.
ReconcileDeleted(n) ==
    /\ pc = "idle" /\ queue[n] = "ready" /\ cached[n] = Absent
    /\ Cleanup(n) /\ queue' = [queue EXCEPT ![n] = "none"]
    /\ UNCHANGED <<given, feed, echo, cached, pc, cur, policy, clash>>

\* The read fails: nothing is tracked and the name is queued again.
FailFetch(n) ==
    /\ pc = "idle" /\ queue[n] = "ready" /\ queue' = [queue EXCEPT ![n] = "waiting"]
    /\ UNCHANGED <<given, feed, echo, cached, maps, pc, cur, policy, clash>>

\* A paused policy is tracked and looked at again after the interval of the controller,
\* not after its own.
ReconcilePaused(n) ==
    /\ pc = "idle" /\ queue[n] = "ready" /\ cached[n].paused
    /\ Track(n, cached[n].uid)
    /\ queue' = [queue EXCEPT ![n] = IF Settings(process).GCInterval > 0 THEN "waiting" ELSE "none"]
    /\ UNCHANGED <<given, feed, echo, cached, pc, cur, policy, clash>>

\* The copy read from the cache is the one evaluated.
StartEvaluation(n) ==
    /\ pc = "idle" /\ queue[n] = "ready" /\ cached[n] # Absent /\ ~cached[n].paused
    /\ Track(n, cached[n].uid) /\ queue' = [queue EXCEPT ![n] = "none"]
    /\ pc' = "evaluate" /\ cur' = n /\ policy' = cached[n]
    /\ UNCHANGED <<given, feed, echo, cached, clash>>

\* Every way out of an evaluation ends with RequeueAfter.
Return(delay) ==
    /\ pc' = "idle" /\ policy' = Absent /\ clash' = FALSE
    /\ queue' = [queue EXCEPT ![cur] = After(cur, delay)]
    /\ UNCHANGED <<uids, stored, edits, process, feed, cached, policyUIDs, policySpecs, cur>>

\* No informer, no valid target, no list.
FailEvaluation ==
    /\ pc = "evaluate" /\ Return(ErrorDelay) /\ UNCHANGED <<status, echo, rateLimiters>>

\* The rate limiter is made when the first object is due.
Evaluate ==
    /\ pc = "evaluate" /\ pc' = "getStatus"
    /\ rateLimiters' \in {rateLimiters, rateLimiters \cup {<<cur, policy.uid>>}}
    /\ UNCHANGED <<given, feed, echo, cached, queue, policyUIDs, policySpecs, cur, policy, clash>>

\* UpdateStatus reads the policy by name.
GetStatus ==
    /\ pc = "getStatus" /\ stored[cur] # Absent
    /\ pc' = "putStatus" /\ clash' = FALSE
    /\ UNCHANGED <<given, feed, echo, cached, queue, maps, cur, policy>>

\* A slip: the status object has no phase.
AcceptStatusPartial ==
    /\ pc = "putStatus" /\ ~clash
    /\ status' = [status EXCEPT ![cur] = [of |-> policy.uid]]
    /\ echo' = [echo EXCEPT ![cur] = TRUE]

\* A slip: a write that would not change the phase is spared.
AcceptStatusSpared ==
    /\ pc = "putStatus" /\ ~clash
    /\ status' = IF status[cur].phase = "Active" THEN status
                 ELSE [status EXCEPT ![cur] = [phase |-> "Active", of |-> policy.uid]]
    /\ echo' = [echo EXCEPT ![cur] = TRUE]

\* The API server accepts the status when the version is still the one read.  The
\* times in it have a resolution of a second, so a second write may change nothing.
AcceptStatus ==
    /\ pc = "putStatus" /\ ~clash
    /\ LET new == [phase |-> IF policy.paused THEN "Paused" ELSE "Active", of |-> policy.uid] IN
       /\ status' = [status EXCEPT ![cur] = new]
       /\ \/ echo' = [echo EXCEPT ![cur] = TRUE]
          \/ status[cur] = new /\ UNCHANGED echo

\* UpdateStatus returns an error: the policy is gone, has changed, or cannot be read or
\* written; or it was written and the answer is lost.
StatusError ==
    /\ pc \in {"getStatus", "putStatus"}
    /\ AcceptStatus \/ UNCHANGED <<status, echo>>

\* The error is that of the evaluation.
FailStatus == StatusError /\ Return(ErrorDelay) /\ UNCHANGED rateLimiters

\* Its context has timed out or is canceled: the evaluation has succeeded all the same.
TimeOutStatus == StatusError /\ Return(Interval(cur)) /\ UNCHANGED rateLimiters

PutStatus == AcceptStatus /\ Return(Interval(cur)) /\ UNCHANGED rateLimiters

-----------------------------------------------------------------------------
Users == \E n \in Policies :
    (\E p \in BOOLEAN : Create(n, p) \/ Update(n, p)) \/ Remove(n)

Pick(n) == ReconcileDeleted(n) \/ ReconcilePaused(n) \/ StartEvaluation(n)

Work == FailEvaluation \/ Evaluate \/ GetStatus \/ FailStatus \/ TimeOutStatus \/ PutStatus

Next ==
    \/ Users \/ Work
    \/ \E n \in Policies : Deliver(n) \/ DeliverStatus(n) \/ Fire(n) \/ Pick(n) \/ FailFetch(n)

Spec == Init /\ [][Next]_vars

\* The watch delivers, timers run out, the worker runs and takes the entries of the
\* queue in turn, and reading the cache does not fail for ever.
FairSpec ==
    /\ Spec /\ WF_vars(Work)
    /\ \A n \in Policies :
         WF_vars(Deliver(n)) /\ WF_vars(DeliverStatus(n)) /\ WF_vars(Fire(n)) /\ SF_vars(Pick(n))

-----------------------------------------------------------------------------
(* Safety.                                                                 *)

\* Nothing is kept of a policy that nobody tracks: what is left behind belongs to an
\* older incarnation than the tracked one, or than the last one that was cleaned up
\* (cleanupPolicyResources).
OnlyOvertakenLeak ==
    \A n \in Policies : \A u \in 1 .. uids[n] :
        <<n, u>> \in policySpecs \cup rateLimiters =>
            u = policyUIDs[n] \/ (policyUIDs[n] = 0 /\ u < uids[n]) \/ u < policyUIDs[n]

\* The limiter of a policy that exists is never dropped, whatever the cache says: its
\* budget would start anew (cleanupRateLimiter).
LiveLimiterKept ==
    [][\A n \in Policies : <<n, stored[n].uid>> \in rateLimiters => <<n, stored[n].uid>> \in rateLimiters']_vars

-----------------------------------------------------------------------------
(* Liveness.                                                               *)

Active(n) == stored[n] # Absent /\ ~stored[n].paused

\* A policy that stays active is evaluated again and again, after every outcome of the
\* evaluation before, of a pause, and of errors.  Its own interval or --gc-interval has to be
\* positive, which nothing checks; what the environment says does not matter
\* (getRequeueIntervalForPolicy, runMain).
EvaluatedForEver ==
    \A n \in Policies :
        OwnInterval[n] > 0 \/ process.flags.GCInterval > 0 => []<>(~Active(n)) \/ []<>(pc = "evaluate" /\ cur = n)

\* When the status of a policy that stays active is written again and again it becomes that
\* of its own evaluation for good: a write of the policy that had the name before, which
\* UpdateStatus lets through because it reads the policy by name, does not last.
StatusCatchesUp ==
    \A n \in Policies :
        <>[]Active(n) /\ []<><<cur = n /\ PutStatus>>_vars
        => <>[](status[n] = [phase |-> "Active", of |-> stored[n].uid])

\* A policy that is removed for good leaves nothing of its last incarnation.
CleanedUp ==
    \A n \in Policies : stored[n] = Absent ~>
        \/ stored[n] # Absent
        \/ policyUIDs[n] = 0 /\ <<n, uids[n]>> \notin policySpecs \cup rateLimiters
=============================================================================
