---------------------------- MODULE GCEvaluation ----------------------------
(***************************************************************************)
(* One GarbageCollectionPolicy, the objects of its target resource, the    *)
(* informer cache the controller reads them through, and the evaluation    *)
(* cycle of the leader: list the cache, classify every object, delete the  *)
(* due ones in batches with retries, write the status.                     *)
(*                                                                         *)
(* Source: EvaluatePolicy and what it calls in                             *)
(* pkg/controller/evaluate_policy_refactored.go, shared.go and             *)
(* reconciler.go.  Reconcile runs with MaxConcurrentReconciles = 1, so one *)
(* evaluation is active at a time; it interleaves with users, the API      *)
(* server, the watch stream, the clock and the loss of the lease.          *)
(***************************************************************************)
EXTENDS Integers, Sequences, FiniteSets

CONSTANTS
    Names,          \* names of objects of the target resource
    BatchSize,      \* resolveBatchSize of the policy
    Steps,          \* backoff.DefaultConfig().Steps
    EvalCheck,      \* contextCheckInterval of evaluateResources
    DeleteCheck,    \* contextCheckInterval of deleteBatchShared
    TTL,            \* spec.ttl.secondsAfterCreation
    MaxEdits,       \* bound: changes users make to objects and to the policy
    MaxFaults,      \* bound: lost answers, final errors, cancellations, crashes
    MaxNow          \* bound: the clock

ASSUME BatchSizeAssumption == BatchSize \in Nat \ {0}
ASSUME IntervalAssumption  == EvalCheck \in Nat \ {0} /\ DeleteCheck \in Nat \ {0}
ASSUME StepsAssumption     == Steps \in Nat \ {0}
ASSUME BoundAssumption     == TTL \in Nat /\ MaxEdits \in Nat /\ MaxFaults \in Nat /\ MaxNow \in Nat

VARIABLES
    \* the cluster
    live,       \* the object stored under each name
    uids,       \* UIDs handed out under each name
    feed,       \* versions the watch has not delivered yet, per name
    now,        \* wall clock
    mode,       \* the policy in the API server
    edits,      \* changes users may still make
    faults,     \* faults that may still happen
    inflight,   \* DELETE requests the API server has not settled
    status,     \* counts in the policy's status subresource
    \* the leader process
    cache,      \* informer store
    cancelled,  \* the context of the reconciler is done
    pc,         \* where the evaluation stands
    runDry,     \* behavior.dryRun of the policy copy being evaluated
    items,      \* listed objects not classified yet
    seen,       \* listed objects classified so far
    matched, pending, todo,     \* results of the classification
    idx, deleted, errs,         \* progress through todo
    step,       \* backoff step of the current resource
    reply,      \* answer to the DELETE the evaluation waits for
    \* history
    announced,  \* deletions reported by ResourceDeleted events
    victims     \* objects the API server removed on behalf of the controller

world   == <<live, uids, feed, now, mode, edits>>
cluster == <<world, faults>>
work    == <<items, seen, matched, pending, todo>>
progress == <<idx, deleted, errs>>
vars == <<live, uids, feed, now, mode, edits, faults, inflight, status, cache,
          cancelled, pc, runDry, items, seen, matched, pending, todo, idx, deleted, errs, step,
          reply, announced, victims>>

Classes == {"unmatched", "held", "candidate"}
Object  == [uid: Nat, class: Classes, born: Nat, terminating: BOOLEAN]
Entry   == [name: Names, uid: Nat, class: Classes, born: Nat]
Count   == [matched: Nat, deleted: Nat, pending: Nat]
Request == [name: Names, uid: Nat, try: Nat]

Absent == [uid |-> 0, class |-> "unmatched", born |-> 0, terminating |-> FALSE]
NoCount == [matched |-> 0, deleted |-> 0, pending |-> 0]

\* matchesSelectors and meetsConditions hold and the expiration time has passed.
Due(o) == o.class = "candidate" /\ now > o.born + TTL

\* What a fresh look at the object would say of it.
Verdict(o) == IF Due(o) THEN "due"
              ELSE IF o.class = "candidate" THEN "early" ELSE "changed"

Listed == {[name |-> n, uid |-> cache[n].uid, class |-> cache[n].class,
            born |-> cache[n].born] : n \in {m \in Names : cache[m].uid # 0}}

Current == [name |-> todo[idx + 1].name, uid |-> todo[idx + 1].uid, try |-> step]
InBatch == idx % BatchSize

TypeOK ==
    /\ live \in [Names -> Object] /\ cache \in [Names -> Object]
    /\ uids \in [Names -> Nat] /\ feed \in [Names -> Seq(Object)]
    /\ now \in Nat /\ mode \in {"active", "dry", "paused", "gone"}
    /\ edits \in Nat /\ faults \in Nat
    /\ inflight \in SUBSET Request /\ status \in Count
    /\ cancelled \in BOOLEAN /\ runDry \in BOOLEAN
    /\ pc \in {"idle", "classify", "batch", "attempt", "inflight", "status", "down"}
    /\ items \in SUBSET Entry /\ seen \in Nat /\ todo \in Seq(Entry)
    /\ matched \in Nat /\ pending \in Nat
    /\ idx \in Nat /\ deleted \in Nat /\ errs \in Nat /\ step \in Nat
    /\ reply \in {"none", "done", "retryable", "fatal"}
    /\ announced \in SUBSET [name: Names, uid: Nat, dry: BOOLEAN]
    /\ victims \in SUBSET [name: Names, uid: Nat, judged: Nat, state: {"due", "early", "changed"}]

Init ==
    /\ live = [n \in Names |-> Absent] /\ cache = live
    /\ uids = [n \in Names |-> 0] /\ feed = [n \in Names |-> <<>>]
    /\ edits = MaxEdits /\ faults = MaxFaults
    /\ now = 0 /\ mode = "active" /\ inflight = {} /\ status = NoCount
    /\ cancelled = FALSE /\ pc = "idle" /\ runDry = FALSE
    /\ items = {} /\ seen = 0 /\ matched = 0 /\ pending = 0 /\ todo = <<>>
    /\ idx = 0 /\ deleted = 0 /\ errs = 0 /\ step = 0 /\ reply = "none"
    /\ announced = {} /\ victims = {}

-----------------------------------------------------------------------------
(* Users, finalizer controllers, the clock and the watch stream.           *)

\* The API server stores version o of name n and queues it for the watch.
Store(n, o) ==
    /\ live' = [live EXCEPT ![n] = o]
    /\ feed' = [feed EXCEPT ![n] = Append(@, o)]

Edit  == edits > 0 /\ edits' = edits - 1
Fault == faults > 0 /\ faults' = faults - 1

leader == <<faults, inflight, status, cancelled, pc, runDry, work, progress, step, reply,
            announced, victims>>

Create(n, class) ==
    /\ live[n] = Absent /\ Edit
    /\ uids' = [uids EXCEPT ![n] = @ + 1]
    /\ Store(n, [uid |-> uids[n] + 1, class |-> class, born |-> now, terminating |-> FALSE])
    /\ UNCHANGED <<now, mode, cache, leader>>

Relabel(n, class) ==
    /\ live[n] # Absent /\ class # live[n].class /\ Edit
    /\ Store(n, [live[n] EXCEPT !.class = class])
    /\ UNCHANGED <<uids, now, mode, cache, leader>>

\* A user deletes the object, or the last finalizer of a terminating one goes.
Remove(n) ==
    /\ live[n] # Absent /\ Edit
    /\ Store(n, Absent)
    /\ UNCHANGED <<uids, now, mode, cache, leader>>

Tick ==
    /\ now < MaxNow
    /\ now' = now + 1
    /\ UNCHANGED <<live, uids, feed, mode, edits, cache, leader>>

EditPolicy(m) ==
    /\ mode # "gone" /\ m # mode /\ Edit
    /\ mode' = m
    /\ UNCHANGED <<live, uids, feed, now, cache, leader>>

\* The watch hands over the next version, or a re-list jumps to the latest.
Deliver(n) ==
    /\ pc # "down" /\ feed[n] # <<>>
    /\ \E k \in {1, Len(feed[n])} :
         /\ cache' = [cache EXCEPT ![n] = feed[n][k]]
         /\ feed' = [feed EXCEPT ![n] = SubSeq(@, k + 1, Len(@))]
    /\ UNCHANGED <<live, uids, now, mode, edits, leader>>

-----------------------------------------------------------------------------
(* Listing and classification.                                             *)

\* Reconcile found an active policy and calls EvaluatePolicy.
StartEvaluation ==
    /\ pc = "idle" /\ mode \in {"active", "dry"}
    /\ pc' = "classify" /\ runDry' = (mode = "dry")
    /\ items' = Listed
    /\ seen' = 0 /\ matched' = 0 /\ pending' = 0 /\ todo' = <<>>
    /\ idx' = 0 /\ deleted' = 0 /\ errs' = 0
    /\ UNCHANGED <<cluster, inflight, status, cache, cancelled, step, reply, announced, victims>>

ClassificationStops == items = {} \/ (cancelled /\ seen % EvalCheck = 0)

\* A slip: what meets the conditions is listed for deletion before it expired.
ClassifyUnexpired(e) ==
    /\ pc = "classify" /\ ~ClassificationStops
    /\ items' = items \ {e} /\ seen' = seen + 1
    /\ IF e.class = "candidate"
       THEN matched' = matched + 1 /\ todo' = Append(todo, e) /\ UNCHANGED pending
       ELSE UNCHANGED <<matched, pending, todo>>
    /\ UNCHANGED <<cluster, inflight, status, cache, cancelled, pc, runDry, progress,
                   step, reply, announced, victims>>

Classify(e) ==
    /\ pc = "classify" /\ ~ClassificationStops
    /\ items' = items \ {e} /\ seen' = seen + 1
    /\ \/ e.class = "unmatched" /\ UNCHANGED <<matched, pending, todo>>
       \/ /\ e.class # "unmatched" /\ ~Due(e)
          /\ matched' = matched + 1 /\ pending' = pending + 1 /\ UNCHANGED todo
       \/ /\ Due(e)
          /\ matched' = matched + 1 /\ todo' = Append(todo, e) /\ UNCHANGED pending
    /\ UNCHANGED <<cluster, inflight, status, cache, cancelled, pc, runDry, progress,
                   step, reply, announced, victims>>

EndClassification ==
    /\ pc = "classify" /\ ClassificationStops
    /\ pc' = IF todo = <<>> THEN "status" ELSE "batch"
    /\ UNCHANGED <<cluster, inflight, status, cache, cancelled, runDry, work, progress,
                   step, reply, announced, victims>>

-----------------------------------------------------------------------------
(* Batch deletion with retries.                                            *)

\* A batch, or the loop over batches, sees a done context: nothing more is tried.
StopDeleting == cancelled /\ InBatch % DeleteCheck = 0

\* A slip: the loop over batches returns after the first one.
EndDeletionFirstBatch ==
    /\ pc = "batch" /\ (idx = Len(todo) \/ StopDeleting \/ (idx > 0 /\ InBatch = 0))
    /\ pc' = "status"
    /\ UNCHANGED <<cluster, inflight, status, cache, cancelled, runDry, work, progress,
                   step, reply, announced, victims>>

EndDeletion ==
    /\ pc = "batch" /\ (idx = Len(todo) \/ StopDeleting)
    /\ pc' = "status"
    /\ UNCHANGED <<cluster, inflight, status, cache, cancelled, runDry, work, progress,
                   step, reply, announced, victims>>

\* A slip: the index of the batch is advanced for every resource of it.
NextResourceByBatch == pc' = "batch" /\ idx' = idx + BatchSize /\ reply' = "none"

\* The current resource is done: the batch goes on with the next one.
NextResource == pc' = "batch" /\ idx' = idx + 1 /\ reply' = "none"

Fail ==
    /\ NextResource /\ errs' = errs + 1
    /\ UNCHANGED <<cluster, inflight, status, cache, cancelled, runDry, work, deleted,
                   step, announced, victims>>

Succeed ==
    /\ NextResource /\ deleted' = deleted + 1
    /\ announced' = announced \cup {[name |-> Current.name, uid |-> Current.uid, dry |-> runDry]}
    /\ UNCHANGED <<cluster, inflight, status, cache, cancelled, runDry, work, errs,
                   step, victims>>

\* The per-resource wait for the rate limiter, which fails once the context is done.
TakeToken ==
    /\ pc = "batch" /\ idx < Len(todo) /\ ~StopDeleting
    /\ IF cancelled THEN Fail
       ELSE /\ pc' = "attempt" /\ step' = 0
            /\ UNCHANGED <<cluster, inflight, status, cache, cancelled, runDry, work,
                           progress, reply, announced, victims>>

Send ==
    /\ pc' = "inflight" /\ inflight' = inflight \cup {Current}
    /\ UNCHANGED <<cluster, status, cache, cancelled, runDry, work, progress, step, reply,
                   announced, victims>>

\* A slip: the context is not looked at before the request is sent.
AttemptCanceled ==
    /\ pc = "attempt"
    /\ \/ step >= Steps /\ Fail
       \/ step < Steps /\ runDry /\ Succeed
       \/ step < Steps /\ ~runDry /\ Send

\* A slip: running out of steps leaves the wait but not the loop.
AttemptForever ==
    /\ pc = "attempt"
    /\ \/ cancelled /\ Fail
       \/ step < Steps /\ ~cancelled /\ runDry /\ Succeed
       \/ step < Steps /\ ~cancelled /\ ~runDry /\ Send

\* One round of the retry loop: exhausted, canceled, rehearsed or sent.
Attempt ==
    /\ pc = "attempt"
    /\ \/ (step >= Steps \/ cancelled) /\ Fail
       \/ step < Steps /\ ~cancelled /\ runDry /\ Succeed
       \/ step < Steps /\ ~cancelled /\ ~runDry /\ Send

\* A slip: an overloaded API server is taken for a success.
ReceiveOptimist ==
    /\ pc = "inflight"
    /\ \/ reply \in {"done", "retryable"} /\ Succeed
       \/ reply = "fatal" /\ Fail
       \/ reply = "none" /\ cancelled /\ Fail

\* The answer arrives: success (NotFound included), a retryable or a final error.
Receive ==
    /\ pc = "inflight"
    /\ \/ reply = "done" /\ Succeed
       \/ reply = "fatal" /\ Fail
       \/ reply = "none" /\ cancelled /\ Fail
       \/ /\ reply = "retryable"
          /\ pc' = "attempt" /\ step' = step + 1 /\ reply' = "none"
          /\ UNCHANGED <<cluster, inflight, status, cache, cancelled, runDry, work,
                         progress, announced, victims>>

-----------------------------------------------------------------------------
(* The API server's side of a DELETE: attempts it has not settled pile up. *)

Awaited(r) == pc = "inflight" /\ reply = "none" /\ r = Current

Answer(r, a) == reply' = IF Awaited(r) THEN a ELSE reply

server == <<uids, now, mode, edits, status, cache, cancelled, pc, runDry, work, progress,
            step, announced>>

\* The request carries a name and no UID: whatever lives there is removed, or
\* marked terminating when it has finalizers or a grace period.
ServerDelete(r) ==
    /\ inflight' = inflight \ {r}
    /\ \/ /\ live[r.name] = Absent \/ live[r.name].terminating
          /\ UNCHANGED <<live, feed, victims>>
       \/ /\ live[r.name] # Absent /\ ~live[r.name].terminating
          /\ \/ Store(r.name, Absent)
             \/ Store(r.name, [live[r.name] EXCEPT !.terminating = TRUE])
          /\ victims' = victims \cup
                {[name |-> r.name, uid |-> live[r.name].uid, judged |-> r.uid,
                  state |-> Verdict(live[r.name])]}
    /\ \/ Answer(r, "done") /\ UNCHANGED faults
       \/ \E a \in {"retryable", "fatal"} : Answer(r, a) /\ Fault  \* the success is lost
    /\ UNCHANGED server

\* An overloaded server may refuse as often as it likes; a final refusal is a fault.
ServerReject(r) ==
    /\ inflight' = inflight \ {r}
    /\ \/ Answer(r, "retryable") /\ UNCHANGED faults
       \/ Answer(r, "fatal") /\ Fault
    /\ UNCHANGED <<live, feed, victims, server>>

\* The server reports a timeout while the request is still being processed.
ServerTimeout(r) ==
    /\ Awaited(r) /\ Answer(r, "retryable") /\ Fault
    /\ UNCHANGED <<live, feed, victims, inflight, server>>

-----------------------------------------------------------------------------
(* Status, cancellation, crash and restart.                                *)

EndRun ==
    /\ pc' = "idle" /\ items' = {} /\ todo' = <<>>
    /\ seen' = 0 /\ matched' = 0 /\ pending' = 0 /\ idx' = 0 /\ deleted' = 0 /\ errs' = 0
    /\ UNCHANGED <<cluster, inflight, cache, cancelled, runDry, step, reply, announced, victims>>

\* A slip: resourcesPending is left out of the status object.
WriteStatusPartial ==
    /\ pc = "status" /\ ~cancelled /\ mode # "gone"
    /\ status' = [matched |-> matched, deleted |-> deleted]
    /\ EndRun

\* updatePolicyStatus succeeds: its context derives from the reconciler's.
WriteStatus ==
    /\ pc = "status" /\ ~cancelled /\ mode # "gone"
    /\ status' = [matched |-> matched, deleted |-> deleted, pending |-> pending]
    /\ EndRun

\* The status call fails, times out or is canceled; the counts are lost.
LoseStatus ==
    /\ pc = "status" /\ UNCHANGED status /\ EndRun

\* SIGTERM, or the lease could not be renewed in time.
Cancel ==
    /\ pc # "down" /\ ~cancelled /\ Fault
    /\ cancelled' = TRUE
    /\ UNCHANGED <<world, inflight, status, cache, pc, runDry, work, progress, step,
                   reply, announced, victims>>

\* The process exits (after Cancel or by a crash); requests on the wire stay there.
Exit ==
    /\ pc # "down" /\ (IF cancelled THEN UNCHANGED faults ELSE Fault)
    /\ pc' = "down" /\ runDry' = FALSE /\ step' = 0 /\ reply' = "none"
    /\ items' = {} /\ todo' = <<>> /\ seen' = 0 /\ matched' = 0 /\ pending' = 0
    /\ idx' = 0 /\ deleted' = 0 /\ errs' = 0
    /\ UNCHANGED <<world, inflight, status, cache, cancelled, announced, victims>>

\* A slip: the new leader evaluates before its informer has synced.
TakeoverUnsynced ==
    /\ pc = "down" /\ pc' = "idle" /\ cancelled' = FALSE
    /\ cache' = [n \in Names |-> Absent] /\ feed' = [n \in Names |-> <<>>]
    /\ UNCHANGED <<live, uids, now, mode, edits, faults, inflight, status, runDry, work, progress,
                   step, reply, announced, victims>>

\* The next leader lists the target anew before its first evaluation.
Takeover ==
    /\ pc = "down" /\ pc' = "idle" /\ cancelled' = FALSE
    /\ cache' = live /\ feed' = [n \in Names |-> <<>>]
    /\ UNCHANGED <<live, uids, now, mode, edits, faults, inflight, status, runDry, work, progress, step,
                   reply, announced, victims>>

-----------------------------------------------------------------------------
Users ==
    \/ \E n \in Names : (\E c \in Classes : Create(n, c) \/ Relabel(n, c)) \/ Remove(n)
    \/ \E m \in {"active", "dry", "paused", "gone"} : EditPolicy(m)

Evaluation ==
    \/ StartEvaluation \/ (\E e \in items : Classify(e)) \/ EndClassification
    \/ EndDeletion \/ TakeToken \/ Attempt \/ Receive \/ WriteStatus \/ LoseStatus

Server == \E r \in inflight : ServerDelete(r) \/ ServerReject(r) \/ ServerTimeout(r)

Next ==
    \/ Users \/ Tick \/ (\E n \in Names : Deliver(n)) \/ Evaluation \/ Server
    \/ Cancel \/ Exit \/ Takeover

Spec == Init /\ [][Next]_vars

\* The evaluation's goroutine and the watch make progress, time passes, requests are
\* settled and not refused for ever, a canceled process exits, and a pod that went
\* down is replaced.  Users, final errors, cancellations and crashes are free.
FairSpec ==
    /\ Spec
    /\ WF_vars(Evaluation) /\ WF_vars(Server) /\ WF_vars(Tick)
    /\ SF_vars(\E r \in inflight : ServerDelete(r))
    /\ WF_vars(cancelled /\ Exit) /\ WF_vars(Takeover)
    /\ \A n \in Names : WF_vars(Deliver(n))

-----------------------------------------------------------------------------
(* Safety.                                                                 *)

\* The counts of a run add up: every matched object is pending or to be
\* deleted, and every object tried was either deleted or recorded as an error
\* (evaluateResources, deleteBatchShared).
CountsConserved ==
    /\ matched = pending + Len(todo)
    /\ idx = deleted + errs /\ idx <= Len(todo)
    /\ status.deleted + status.pending <= status.matched

\* The event and the count of a deletion are true: the object the evaluation
\* listed is gone or terminating, whatever lives under its name now, even when
\* answers were lost, retried, or the delete met NotFound (deleteBatchShared).
AnnouncedIsGone ==
    \A a \in announced : ~a.dry => live[a.name].uid # a.uid \/ live[a.name].terminating

\* Deleting by name never reaches back to an older object than the one judged,
\* and an object that was judged is not removed before it expired: what is hit
\* unexpired is a successor under the same name (performResourceDeletion).
CollateralIsSuccessor ==
    \A v \in victims : v.judged <= v.uid /\ (v.state = "early" => v.judged < v.uid)

\* Every DELETE the controller sends is backed by the run's own policy copy and
\* listing: not a dry run, not after cancellation, and for an entry that met the
\* selectors, the conditions and the TTL (deleteResource, evaluateResources).
DeletesAuthorised ==
    [][\A r \in inflight' \ inflight :
          /\ ~runDry /\ ~cancelled /\ pc = "attempt"
          /\ \E i \in 1 .. Len(todo) :
                todo[i].name = r.name /\ todo[i].uid = r.uid /\ Due(todo[i])]_vars

\* A run cut short by cancellation never reaches the status: what is written
\* counts every listed object and every deletion tried (updatePolicyStatus).
StatusIsComplete ==
    [][status' # status =>
          /\ items = {} /\ idx = Len(todo)
          /\ status'.matched = status'.deleted + status'.pending + errs]_vars

-----------------------------------------------------------------------------
(* Liveness.                                                               *)

\* Every evaluation ends: retries are bounded and no wait outlasts the answer of
\* the API server or the context (deleteResourceWithBackoffShared).
EvaluationEnds == pc = "classify" ~> pc \in {"idle", "down"}

Overdue(n) == live[n].uid # 0 /\ ~live[n].terminating /\ Due(live[n])

\* An expired object goes, as long as the policy stays active: a failed or
\* abandoned deletion is tried again by a later evaluation, also by a new leader.
OverdueCollected == \A n \in Names : Overdue(n) ~> ~Overdue(n) \/ mode # "active"

-----------------------------------------------------------------------------
(* What the documents say and the code does not do.                        *)

\* docs/validation/leader-election-safety.md: "No not-yet-expired resource
\* deletion".  What the API server removes for the controller had expired.
OnlyExpiredRemoved == \A v \in victims : v.state # "early"
=============================================================================
