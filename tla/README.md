# zen-gc in TLA+

zen-gc is a Kubernetes controller. A `GarbageCollectionPolicy` names a target
resource (apiVersion, kind, namespace), selectors, conditions, a TTL and a
behaviour (dry run, batch size, rate); the controller deletes the objects of the
target that match and have expired, and writes the counts to the policy's
status. These modules model the controller's own logic, TLC checks them on small
instances, and TLAPS proves the central results for every instance.

## The system

| Component | State | Operations | What is hard | What must hold |
|---|---|---|---|---|
| Policy evaluation (`evaluate_policy_refactored.go`, `shared.go`, `reconciler.go`) | the run's list, counts, position, backoff step | list, classify, batch, delete with retries, write status | the list is stale while the run deletes; requests outlive their caller; cancellation between any two steps; deletes go by name | counts are true, every DELETE is justified, an interrupted run is never published, what is due is collected in the end |
| Shared informers and services (`reconciler.go`, `adapters.go`) | two maps under two RW locks | find, create, sync, time out | entry published before it is synced, locks held for a whole sync, double-checked creation, fallback path | nobody reads an unsynced or foreign store, no deadlock, a failed sync heals |
| GVR resolution (`gvr_resolver.go`) | cache of kinds | resolve, with a guess while discovery lags | a guess that is kept | a target is served once it can be |
| Health probes (`health.go`, `internal/health`) | none of their own; read the maps | readiness, liveness, startup | they take the lock a sync holds | probes are answered, readiness means what it says |
| Policy tracking (`reconciler.go`) | `policyUIDs`, `policySpecs`, `rateLimiters`, work queue | reconcile, clean up, requeue | coalesced events, a lagging cache, the controller's own status writes come back as events | nothing leaks, nothing live is dropped, every active policy is evaluated again |
| Status updater (`status_updater.go`) | the status subresource | get, merge, update | read-modify-write by name against concurrent edits | counts and phase tell the truth |
| Leader election (`internal/election`, `leadership.go`, `main.go`) | the lease, `LeaderState`, the stage of each process | acquire, renew, give up, exit, restart | every replica has a clock of its own and a view of the lease that is late; answers get lost; the callbacks are a goroutine of their own | old and new leader overlap for a bounded time, standbys do not reconcile, somebody always does again |
| Rate limiter, backoff (`internal/ratelimiter`, `internal/backoff`) | a bucket of tokens per policy; step and next pause | wait, set rate; next | two tokens per deletion, retries that draw on the same bucket, a rate edited while it is partly full, a restart with a full one | bounded deletions and requests in any second, every run ends |
| TTL, selectors, conditions (`internal/ttl`, `shared.go`) | pure functions of policy, object and clock | match, expire | four modes with fallbacks of their own, a clock read twice, int64 overflow | an object is due exactly when the documents say |
| Admission (`deploy/crds`, `pkg/webhook`, `pkg/validation`) | the stored policy | prune, default, validate | each step is optional and none knows what the controller does with the result | what is admitted can be evaluated, and means what its author wrote |
| Configuration and start (`pkg/config`, `internal/config/validator.go`, `main.go`) | what the process was started with | defaults, environment, flags, webhook server | four sources for one number, checks that some of them do not get, a start that fails | no environment or policy makes a loop endless or stops a policy |
| Logging, errors, events, metrics | counters | - | - | not modelled |

The components interact as follows. The leader's `Reconcile` gets a policy from the
manager's cache, finds the informer of its target, evaluates from the informer's
store, deletes through the API server, and writes the status through it. The
watch streams bring every write back later. Health probes run in their own
goroutines and read the informer map. Leadership starts and cancels all of it.

## Modules

### GCEvaluation

One policy, its target's objects, the informer store and the evaluation of the
leader. The cluster is `live` (the object under each name), `feed` (versions the
watch has not delivered), `mode` (what the policy says now), `inflight` (DELETE
requests not settled), `status`. The process is `cache` (the informer store),
`pc` and the locals of `EvaluatePolicy` and what it calls: `items` and `seen` of
the classification loop, the counts, `todo` with `idx` for the nested loops over
batches and their resources, `step` of the backoff, `reply` of the pending call.
`announced` and `victims` are history: what `ResourceDeleted` events said, and
what the API server really removed on behalf of the controller.

| Actions | Code |
|---|---|
| `StartEvaluation`, `Classify`, `EndClassification` | `EvaluatePolicy`, `ListResources`, `evaluateResources`, with the context looked at every `EvalCheck` objects |
| `TakeToken`, `EndDeletion` | `deleteResourcesInBatches`, `deleteBatchShared`, the context looked at every `DeleteCheck` resources of a batch |
| `Attempt`, `Receive` | `deleteResourceWithBackoffShared` and `deleteResource`: exhausted, canceled, dry run, request, and the answer's class |
| `WriteStatus`, `LoseStatus` | `updatePolicyStatus`, `UpdateStatus` |
| `Cancel`, `Exit`, `Takeover` | signal or lost lease, process end, the next leader with a newly synced informer |
| `ServerDelete`, `ServerReject`, `ServerTimeout` | the API server: success, refusal, a timeout whose request lives on, a success whose answer is lost |
| `Create`, `Relabel`, `Remove`, `EditPolicy`, `Deliver`, `Tick` | users, finalizers, the watch, the clock |

The two evaluation paths of the code (the service and the fallback of
`evaluatePolicy`) make the same decisions in the same order and share the model.
Abstractions: an object's class says whether the selectors match and the
conditions hold; the TTL is `secondsAfterCreation`; retries of one entry that sit
on the wire are told apart by their step only; a status call in flight when the
context ends counts as lost; leaders do not overlap, except through the requests
the old one left on the wire; the policy's TTL does not change during a run.

### InformerRegistry

The maps `resourceInformers` (`registry`) and `evaluationServices` (`services`),
their write locks (`infMu`, `svcMu`), the GVR cache (`resolved`), and every
informer ever started (`informers`): a factory runs until the manager stops, so
none is removed. A section under a read lock is one lookup and one step; the
section under the write locks is as long as the cache sync. `direct` is the
fallback path of `evaluatePolicy`. A key whose plural was guessed wrong never
syncs, one whose kind cannot be listed does not until that changes, and
`SyncTimeout` models `DefaultCacheSyncTimeout`. Probes take a snapshot under the
read lock and then ask each informer of it.

The controller runs one worker (`MaxConcurrentReconciles` is left at 1). The
code is written for several ("another goroutine might have created it"), so the
safety run has two.

### SharedStores and InformerRefinement

`SharedStores` is what the registry promises to the evaluations: the first one of a target opens a
store for it, all that follow share it, and none is closed, replaced or opened for two targets.
`InformerRefinement` maps `InformerRegistry` to it: `target` is `key`, `read` is `lister`, and
`opened` is `registry` without the entries a worker still waits for, since only the end of that
wait decides whether an informer is kept or dropped. Locks, services, discovery, probes and the
informers of failed syncs are stutters. `StoresShared` is this refinement as a property.

### PolicyReconcile

All policies of the leader. The API server's side is `stored` (the policy under each
name), `uids` (how many there have been under it) and `status`; `feed` and `echo`
are watch events on their way. `cached` is the manager's cache. `queue` is the work
queue, in which a name is one entry however often it is added: absent, waiting for its
`RequeueAfter`, ready. `policyUIDs`, `policySpecs` and `rateLimiters` are the
reconciler's maps. `pc`, `cur`, `policy` are the one worker inside `Reconcile` and the
copy it works on, `clash` is the resource version it may have lost.

| Actions | Code |
|---|---|
| `ReconcileDeleted`, `FailFetch`, `ReconcilePaused` | the three early returns of `Reconcile`: the policy is not found (`cleanupPolicyResources`), cannot be read, is paused |
| `StartEvaluation`, `Evaluate`, `FailEvaluation` | `trackPolicyUID`, `handleInformerRecreation`, `trackPolicySpec`, `evaluatePolicy` with `getOrCreateRateLimiter`, `handleEvaluationError` |
| `GetStatus`, `PutStatus` | `StatusUpdater.UpdateStatus`: read by name, merge, update under optimistic concurrency (`AcceptStatus`) |
| `FailStatus`, `TimeOutStatus` | the two error paths of `updatePolicyStatus`: the error becomes that of the evaluation and `handleEvaluationError` brings the policy back after 30 s; if the context of the call is done, the evaluation has succeeded and the interval applies. The write may have been executed in both (`StatusError`) |
| `Deliver`, `DeliverStatus`, `Fire` | a watch event or a re-list that coalesces several, the controller's own status write coming back (the watch has no predicate), a timer of the queue |
| `Create`, `Update`, `Remove` | users |

A change of leader is `Init`: the maps live as long as the process. `process` is the
environment and the flags the process was started with (`Configuration`). Intervals have
no length, they run out, if they are positive: controller-runtime forgets a result with
another `RequeueAfter` (`After`). A status write whose answer is lost is executed before the call
returns or not at all. `nextGCRun`, the conditions and the manager's periodic
resync are left out. The content of an evaluation is `GCEvaluation`. The CRD shipped
in `deploy/crds` does not declare `spec.paused` and `spec.evaluationInterval`, so an API
server with that CRD drops both; the model follows the Go types.

### CollectorPromise and GCRefinement

`CollectorPromise` is what is visible from outside: under a name, objects come one
after the other; each goes once, by somebody else (`Leave`) or by the collector
(`Collect`); only what has gone is reported. `GCRefinement` maps `GCEvaluation` to it:
`newest` is `uids`; `gone` is every object that is no longer live or is terminating;
`collected` is `victims`; `reported` is `announced` without the rehearsals of dry runs.
A deletion that waits for a finalizer is collected at once and its removal later is a
stutter; so are listings, retries, lost answers, status writes and restarts. `Failover` is mapped
to the same promise in `FailoverProofs`, where the objects are there from the start, which is why
an initial state of the promise may have one under a name.

### PolicyLifecycle, with TTLEvaluation, ResourceMatching and Admission

What becomes of one policy between its author and the deletions it causes. `declared` is
the manifest its author last got accepted, `stored` what the API server keeps of it,
`checked` whether the validating webhook saw it; `object` and `now` are the object it
is carried out on and the clock.

| Actions | Code |
|---|---|
| `CreatePolicy`, `UpdatePolicy` | pruning by the schema of the CRD, `mutatePolicy` on creation only, the enumeration of the schema, `validatePolicy`; each webhook may be missing (the Helm chart has neither), and one that is there refuses the write unless a process serves it (`failurePolicy: Fail`) |
| `Evaluate` | `Reconcile`, `EvaluatePolicy` and `evaluateResources` for one object, which goes if `Judgement` says so and the run is not dry |
| `RemovePolicy`, `ChangeObject`, `Tick` | users and time |
| `StartProcess`, `EndProcess` | `runMain` with some environment, flags and certificates; the end of the process. A stored policy outlives it |

The operators of the other three modules are the code's pure functions: `TTLEvaluation`
is `CalculateExpirationTime` and `shouldDelete`, which read the clock one after the other;
`ResourceMatching` is `matchesSelectorsShared` and `meetsConditionsShared`; `Admission` is
`mutatePolicy`, `ValidatePolicy`, `ParseGVR` as far as it refuses, and what the controller
makes of batch size, rate and delete options.

Abstractions: strings are model values with the properties the code asks of them
(`DNSNames`, `LabelKeys`, `Padded`, ...); an apiVersion is the sequence of its parts; a
pointer is a set of at most one value; a field of an object is what the unstructured
accessors tell apart. Durations wrap at 64 bits; the addition to a time, whose range
is wider, does not. Nothing is stale here: the object is read and deleted in one step,
since the lag between the two is `GCEvaluation`'s. The finalizer of the behaviour is
not read by the code and left out.

### Configuration

The settings of a process, as pure operators: `NewControllerConfig`, `LoadFromEnv` with the
validator behind it, `WithFlags`, whether the process `Starts` at all, the webhook server
it serves (`ServesAdmission`), and the interval between evaluations (`RequeueInterval`). A
variable of the environment is unset, a number or duration, or something else, of which a text
that only ends like a duration passes the validator. `PolicyReconcile` and `PolicyLifecycle`
extend it: there a process is one of `Setups`, and what it does depends on its `Settings`.

### LeaderElection

Replicas and their lease. `holder` is what the lease says, `quiet` and `held` how long ago it
was written and changed hands. Each replica has the elector of client-go, as
`RunWithLeaderElection` sets it up: whether it has `seen` the lease as it is now and for how long
(`age`), the time since its last renewal (`idle`), and its write on the way (`request`, with
`delay` for the answer). Of the process there are its `stage`, the goroutine of runController
(`running`) and the flag of `LeaderState` (`leading`). Whether there is an election is chosen
once (`enabled`).

| Actions | Code |
|---|---|
| `RunDirectly`, `OnStartedLeading`, `OnStoppedLeading` | `RunWithLeaderElection` and its callbacks |
| `ManagerFails`, `Exit`, `Signal`, `Crash` | `runController`, the end of `runMain`, `ShutdownContext`, `os.Exit` |
| `Try`, `Execute`, `Refuse`, `Receive`, `StopRenewing` | the elector (external): read, write under optimistic concurrency, answer, renewal deadline |
| `Lose`, `Disconnect`, `Reconnect`, `Restart`, `Tick` | network, kubelet, time |

Abstractions: timers are ages that stop at the largest value a guard asks for, so that the
state space is finite without a bound on time; the lease's record is who holds it and when it
changed, so its transition counter and the jitter of the retries are left out; `Works` is about
`runController`, and what an evaluation leaves behind when its context is canceled is
`Failover`'s and `GCEvaluation`'s.

### Failover

The composition of the election with the collection: the replicas of `LeaderElection`, which it
extends, and in each the evaluation of one policy, cut down to what another replica can notice.
`todo` is what is left of a replica's listing, `waiting` the object whose DELETE it waits for,
`deletes` are the requests on their way with their age, `reported` the `ResourceDeleted` events,
and `overlapped` notes that two replicas have reconciled at a time.

| Actions | Code |
|---|---|
| `List`, `Send`, `Report`, `FailDelete` | `ListResources`; `deleteBatchShared` with the context it and the limiter look at, `performResourceDeletion`; the event after a success; an error, or the last retry |
| `Lead` | any step of a replica in `LeaderElection`; the replicas whose context ends with it drop their listing and wait no more (`Interrupt`) |
| `Land` | the API server deletes by name, whether or not the sender still waits |
| `Elapse` | time, for requests and for the lease |

Abstractions: the objects are due and nobody makes them anew; retries of one deletion are one
request, and an evaluation that finds nothing left is a stutter, since both are in
`GCEvaluation`. A listing that lags behind is one that was taken earlier. That a success is
reported at the moment the context ends is a report before it.

### TokenBucket

The rate limiter of one policy and what draws on it. `limiter` is the policy's entry in
`rateLimiters`: its rate, which is also its burst, and its tokens in units of 1/`Second` of a
token, so that a limiter of rate r earns r units per tick. `pc`, `due`, `dry` and `step` are where
the run stands, `pause` and `sleep` the backoff's next pause and what is left of the current one.
`watch` is history: a window of one second that `OpenWindow` may open at any moment, in which
requests, deletions, processes that start and the highest rate in force are noted.

| Actions | Code |
|---|---|
| `StartDeleting`, `EndDeleting` | `deleteResourcesInBatches` with `getOrCreateRateLimiterShared` and `SetRate` |
| `WaitForBatch` | the wait of `deleteBatchShared`, one per resource, and its new `Backoff` |
| `WaitForAttempt`, `Send` | `deleteResource`: the second wait, one per attempt, the end of a dry run, the request |
| `GiveUp`, `Receive`, `WakeUp` | `deleteResourceWithBackoffShared`: exhausted, the three kinds of answer, the pause |
| `Tick`, `Restart` | `golang.org/x/time/rate` (external) and time; the process ends and its successor has no limiters |

Abstractions: the jitter of the pauses is below a tick; batches have no length, since no token depends on it; a wait that
fails because the context is done is `TakeToken` of `GCEvaluation`. The limiter is per
policy, so what the API server sees is the sum over the policies; and of one process, so that the
overlap of two leaders, which is `LeaderElection`'s, adds another bucket, as `fresh` does for one
that follows the other.

## Runs

| Run | Instance | Shows |
|---|---|---|
| `recreate` | one name, batches of 1, 2 attempts, 3 edits, 1 fault, fair | `CollateralIsSuccessor`, `PromiseKept`, `EvaluationEnds`, `OverdueCollected`: users replace the object under the run's feet while answers are lost and retried |
| `batches` | three interchangeable names, batches of 2, context checks every 2 | `DeletesAuthorised`, `StatusIsComplete`, `CountsConserved`: short last batch, cancellation between and inside batches |
| `locks` | two workers, one probe, two targets of one irregular kind | `ListsSynced`, `NeverUnready`, `StoresShared`, no deadlock |
| `informers_live` | one worker, one probe, an irregular and a regular kind, fair | `ReconcileEnds`, `ProbeAnswered`, `TargetServed` |
| `policies` | two policies, one with an interval of its own, `--gc-interval` 60 or 0, `GC_INTERVAL=0s`, 2 edits, fair | `OnlyOvertakenLeak`, `LiveLimiterKept`, `EvaluatedForEver`, `StatusCatchesUp`, `CleanedUp` |
| `rates` | rates 1, 2 and unset (3), seconds of 10 ticks, the default backoff, up to 2 resources a run, one restart per window, fair | `DeletionsBounded`, `RequestsBounded`, `RunEnds`, no deadlock |
| `lifecycle` | 80 manifests, 14 objects, clock up to 5, seconds of 2 ticks, int64 of 8, processes with `--batch-size` 50 and 0 against another number in the environment, with and without a webhook server, and two that do not come up | `DecisionExact`, `AdmittedHasTTL`, `DefaultsTransparent`, `BatchUsable`, `DeletionDeclared` |
| `leaders` | two replicas, the default durations in ticks of 5 s, answers up to one tick late, 2 faults, 1 failing manager, with and without election, fair | `OverlapBounded`, `TakenWhenSilent`, `StandbyIdle`, `Reconciled`, no deadlock |
| `failover` | two replicas, one due object, the default durations in ticks of 5 s, requests up to one tick on their way, 1 fault, with and without election, fair | `StrayDeletesBounded`, `ReportedOnce`, `CollectedAcrossLeaders`, no deadlock |

Each module has one type invariant, `TypeOK`, checked by `recreate`, `locks`,
`policies`, `rates`, `lifecycle` and `leaders`, and `CollectionTypeOK` by `failover`; `TTLEvaluation`,
`ResourceMatching`, `Admission` and `Configuration` have no state.

What they say. `EvaluatedForEver` has a condition: the policy's own interval or `--gc-interval`
has to be positive. The environment does not matter, because the flags are set over it.
`StatusCatchesUp` is about a policy that was replaced between its evaluation and the status write:
the new one gets the counts of the old one, since `UpdateStatus` reads by name, but not for good.
`BatchUsable` says that neither a policy, validated or not, nor the environment can make the batch
loop endless; only `--batch-size` can, and not for a policy both webhooks have seen.
`StrayDeletesBounded` is the overlap of the leaders carried over to what they send: a DELETE of a
replica that has lost the lease is at most its own time on the wire older than the deadlines allow.
`ReportedOnce` says that a failover by itself reports nothing twice: a new leader lists only what
is still there, so that an object reported by both takes two leaders at a time (without election,
or for as long as an answer is late).

Bounds. Edits, faults and the clock of `GCEvaluation` are budgets. Three edits
are enough to create an object, replace it and change the policy or the
replacement; one fault is a lost answer, a cancellation or a crash, and a second of these in one
behaviour is left to the proofs, which hold for every `MaxFaults`. `TTL = 0` with a clock that moves once tells young from expired.
Two context-check intervals of 2 in a batch of 2 and three objects put
cancellation before, inside and after a batch. In `InformerRegistry`, attempts
bounds only the reconciles of targets that cannot be watched, because each of
them starts informers that are never stopped. In `PolicyReconcile` every name may
start with a policy, active or paused, so two edits are a removal and a new creation of
one policy, a creation and a pause, or a change of both; the queue and the
single worker make the two policies wait for each other. Its limits on edits bound only the
feed: `IInv` of the proofs was found on instances with five. The manifests of `lifecycle` vary
one part at a time, the TTL alone with all combinations of its six fields that a mode
reads, so that each rule meets every object. Its arithmetic is scaled: 3 seconds can be
expressed and 4 wrap into the past. In `LeaderElection` a tick is the greatest common divisor of
the default durations, which makes them 3, 2 and 1; two faults are a lost answer and a crash of
the one that was to take over, or two interruptions in a row; faults budget only how often
things go wrong, not how long. `failover` has them once, and answers of the lease that are not late
(`leaders` and the proofs have both): one fault is a lost write, a lost connection, a signal or a
crash of the leader while its request is on its way, which may stay there for a third of the lease.
Losing a DELETE costs nothing of the budget. Managers do not fail there, and one object is enough to
have it listed, requested and reported by two replicas. In `TokenBucket` ticks are tenths of a second, so the five pauses
of `DefaultConfig` last 1 to 16 ticks and the cap is out of reach, as it is in the code with these
steps; rates of 1 to 3 make the run wait for tokens at times and for the backoff at others, two
resources a run let a run find the bucket partly full, and any number of runs follow each
other. Runs of `GCEvaluation` and `PolicyReconcile` do not
check deadlock: with the budgets spent and the policy paused, or every policy removed, the
system rests; nor do those of `PolicyLifecycle`, where users may stop. The runs of
`InformerRegistry`, `TokenBucket`, `LeaderElection` and `Failover` do. On two workers the longest runs
take about two and a half minutes (`recreate`, 735,000 states; `failover`, 850,000).

Fairness. The evaluation is one goroutine and its waits (limiter, backoff, HTTP)
are finite, so `Evaluation` is weakly fair; the API server settles every request
and does not refuse for ever (strong fairness of `ServerDelete`); the watch
delivers; a canceled process exits and its pod is replaced. Users, faults,
cancellations and crashes are not fair. For the informers: `sync.RWMutex` does not
starve a waiter, reflectors list what can be listed, and the work queue brings
every policy again. A sync that times out although its target can be listed
(`MaxSlow`) is excluded from the liveness run. In `PolicyReconcile` the worker's steps,
the watch and the timers are weakly fair; `Pick(n)` is strongly fair because the worker is
busy with other names in between and takes the ready entries in turn, and because the
cache read does not fail for ever. In `TokenBucket` time
passes and the worker's goroutine runs whenever it can; that a wait for a token ends has to follow
from what the bucket earns. In `LeaderElection` goroutines run, requests are answered,
connections and containers come back and time passes (weak fairness). Its safety needs that time
does not pass a deadline by: `Tick` waits for a leader that has to give up, for a leader's
callback that is due, and for an answer that is `Delay` old. A process that is suspended longer
breaks this, as it breaks every lease that is not checked with each write. In `Failover`, on top of
that, an evaluation gets on when its replica leads again and again (strong fairness of `List`
and `SendAny`: a term lasts for `GiveUp` ticks, and the code needs none of them), an answer is reported,
and not every request is lost (strong fairness of `Land`).

### Where documents and code differ

| Run | The document | The code |
|---|---|---|
| `only_expired` | `docs/validation/leader-election-safety.md:35`: no deletion of what has not expired | the delete goes by name without a UID precondition and may hit a successor |
| `manager_ends` | `main.go:376`: no `os.Exit`, the deferred `cancel()` runs for cleanup | the manager runs in a goroutine of the elector, which keeps renewing: when it fails, its replica leads and reconciles nothing until it is restarted, and `/leaderz` says `leader` |
| `paused_skipped` | `docs/DEPLOYMENT.md:52`: paused policies are skipped entirely | the shipped CRD does not declare `spec.paused`, the API server drops it, and the policy deletes |

More were met while modelling and have no run of their own:

- environment variables override defaults (`pkg/config/config.go:71`), and they do until `runMain`
  sets all four flags over them, given or not (`main.go:131`): a variable has no effect, but one
  that cannot be read ends the process;
- `--max-deletions-per-second` is the default maximum (`main.go:82`, `config.go:47`), but the limiter
  of a policy without a rate is made with the constant 10 (`shared.go:120`);
- the maximum of concurrent evaluations (`config.go:55`) is never read;
- the requeue of a paused policy does not use the policy's own interval (`reconciler_helpers.go:67`),
  though the function it calls says so (`reconciler.go:249`);
- neither `--gc-interval` nor `--batch-size` is checked: with 0 a policy is evaluated once, or the
  batch loop is endless;
- a new leader may delete what a request of the old one is about to delete, though there are no
  duplicate deletion attempts on the same resource
  (`docs/validation/leader-election-safety.md:33`); only the reports are not repeated
  (`ReportedOnce`);
- the evaluation interval is the interval between evaluations (`pkg/api/v1alpha1/types.go:47`),
  but the status write of one queues the policy again at once (`reconciler.go:788`), until a write
  changes nothing; `PolicyReconcile` has it in `DeliverStatus`;
- a deletion takes two tokens (`shared.go:199`, `reconciler.go:451`), so a policy whose deletions
  all succeed at once gets half of its `maxDeletionsPerSecond` in the long run, though a benchmark
  reports the rate "as configured" (`docs/BENCHMARKS.md:24`);
- `maxDeletionsPerSecond` must be positive (`docs/API_REFERENCE.md:438`), but validation admits
  zero (`validator.go:308`), which means the default;
- with the default durations a leader gives up when the lease has just run out for the others
  (`election.go:122`), so that two may reconcile for as long as the last answer took, though
  there is exactly one (`docs/validation/leader-election-safety.md:30`); see
  `SlackGivesExactlyOne` below;
- without election nobody calls `OnLeadingChange` (`election.go:170`): the one replica reconciles,
  answers `standby` and is ready whatever its informers do (`health.go:103`), though a standby
  does not reconcile by design (`health.go:52`);
- every failed cache sync leaves an informer running (`reconciler.go:548`), though unreferenced
  ones are bounded by the distinct targets (`reconciler.go:723`);
- a string field of a policy without mappings does not get the default (`evaluator.go:97` asks
  whether it was found), though it is for a field that has no mapping (`internal/ttl/types.go:39`);
- an object that is terminating, or gone and still in the store, is deleted, counted and
  logged again, though deletion log entries have no duplicate UIDs
  (`docs/validation/leader-election-safety.md:129`);
- a removal and a creation that coalesce into one reconcile overwrite the tracked UID
  (`reconciler.go:654`), and the rate limiter of the old one stays, though there is one
  per policy (`docs/METRICS.md:123`); `OnlyOvertakenLeak` says that nothing else leaks;
- `Reconcile` returns before the status of a paused policy is written, so it never shows
  the phase `Paused` (`docs/API_REFERENCE.md:217`);
- a dry run counts its rehearsals in `resourcesDeleted` (`docs/API_REFERENCE.md:205` and
  `:223`);
- readiness does not look at the informer of a failed sync, which is dropped from the
  map and runs on (`health.go:98`);
- validation admits what cannot be carried out: an apiVersion `apps` or `1`, which
  `ParseGVR` refuses (`validator.go:101`), label expressions `Exists` with values, which
  match nothing (`validator.go:240`), a field condition `Exists` (`types.go:140`), which no
  code knows; and `secondsAfterCreation: 0` with a `fieldPath`, which deletes at once;
- the mutating webhook writes a batch size of 50 into every new policy, after which the
  controller's `--batch-size` has no effect;
- escaped dots work in the paths of TTLs (`evaluator.go:144`) and not in those of
  conditions (`field_path.go:8`).

## Proofs

`GCEvaluationProofs` proves, for all names, batch sizes, retry budgets, check
intervals and bounds (assuming only that sizes and intervals are positive):

- `TypeCorrect`: types, and that a run that is deleting has a current entry;
- `CountsCorrect`: `CountsConserved`, by a small invariant over the counters alone;
- `InvariantHolds`: the inductive invariant `IInv`, from which follow
- `AnnouncementsTrue` (`AnnouncedIsGone`, which `PromiseKept` of the run implies) and `CollateralBounded`
  (`CollateralIsSuccessor`);
- `DeletesCorrect` (`DeletesAuthorised`) and `StatusCorrect` (`StatusIsComplete`).

`AnnouncedIsGone` is not inductive: a success is announced on the strength of a
reply, so the invariant must say that a reply `done` implies that the listed object
is gone; this needs that the store never runs ahead of the cluster (UIDs in the
cache, the feed, the listing and the requests are at most the newest one
handed out under the name) and that a UID, once gone, does not return.
`CollateralIsSuccessor` needs in addition that a request's entry was due when it
was judged, and that an object's birth never changes. `StatusIsComplete` needs
that an uncancelled run has classified everything when it leaves the
classification, and tried everything when it leaves the batches. `EvaluationAdvances` gives the
evaluation a measure, its stage, then the objects still to classify, then the resources still to
delete, then the attempts left to the current one: each of its own steps lowers it and no step of
the API server, the users or the watch raises it.

`GCRefinementProofs` proves `PromiseCorrect`, that `GCEvaluation` implements
`CollectorPromise` under the mapping of `GCRefinement`. The initial states map to the
initial state, and each action to one step or a stutter: `Create` to `Create`,
`Remove` of an object that is not terminating to `Leave`, `ServerDelete` and
`ServerTimeout` to `Collect` when they take the live object, `Receive` of a success to
`Report`, for which `AnnouncedIsGone` and the invariant behind it are needed, and
everything else to a stutter.

`InformerRegistryProofs` proves, for any number of workers, probes, targets and kinds,
`RegistryTyped`, `ListsAlwaysSynced`, `ServicesAlwaysRegistered` (`ServicesRegistered`: a service reads
the informer that is registered for its key) and `ReadinessNeverNegative` from one invariant
(`RegistryInvariant`). None of them is inductive, since an informer is registered before it has synced and the services live
under another lock than the informers. The invariant says which steps of a worker hold
which lock, that a registered informer belongs to its key and has synced unless
a holder of the lock is waiting for it, and that a key somebody syncs for has no
service. Informers are only ever added and stay synced, which keeps what a probe or a
list has seen. `StoresAlwaysShared` adds that `InformerRegistry` implements `SharedStores`: the end of
a sync is `Open`, a hit in either map is `Share`, whether the worker came by the service or by the
fallback path, and a sync that times out changes nothing, because the mapping has not
shown its informer yet. It rests on the locks: whoever finds a service or an entry finds it
while nobody waits for a sync of its key.

`PolicyReconcileProofs` proves, for any policies and any number of edits,
`MapsTyped`, `LeaksAreOvertaken` and the action property
`LiveLimiterAlwaysKept` from `MapsInvariant`. Apart from limiters without a spec
(`LimitersHaveSpecs`), the invariant is about one name at a time:
the versions in the feed carry UIDs in order (`Ordered`), whatever the maps hold
is not younger than anything the manager knows or is going to hear of (`EntriesOld`), and
once it has seen or will see a removal, what it tracked is older than the policy that
carries the name now (`Overtaken`). That last part is why a cleanup never takes the
limiter of a successor.

A second invariant (`QueueInvariant`) is about what is still to be done: if no event is on its way,
the cache shows what is stored, a policy that has to come back is queued or in hand, and so is a name
of which the maps still hold something that has to be cleaned up. `NeverForgotten`,
`PausedNeverForgotten` and `RemovedNotForgotten` follow, the safety halves of `EvaluatedForEver` and
`CleanedUp`: no error, pause, removal in the middle of an evaluation or coalescing of events lets
the worker forget a name. The second holds only with a positive `--gc-interval`, since the requeue of a
paused policy does not look at the policy's own. `StatusAlwaysTrue` says what a status is worth: its
policy exists (a late write of a removed one fails on the resource version), its counts are those
of an evaluation of this policy or of one before it under the name, and its phase is `Active`.

`PolicyLifecycleProofs` proves all properties of `lifecycle` for any manifests, objects,
strings and word length: `LifecycleTyped`, which here is the invariant that ties what is
stored to what was declared, from it `AdmittedAlwaysHasTTL`, `DefaultsAlwaysTransparent`,
`BatchAlwaysUsable` and `DeletionAlwaysDeclared`, and `DecisionAlwaysExact`. The last
goes mode by mode: where the duration can be expressed, the product that wraps is the
product (`Duration`), and an expired relative TTL, an error of the first clock reading,
is an expiry of the second because time does not run backwards. `BatchAlwaysUsable` rests
on two lemmas about `Configuration`: the batch size of a process is that of its flags
whatever the environment says (`FlagsWin`), and a policy that was mutated and validated has one of
its own (`MutatedHasSize`).

Three more of its theorems go beyond the run. `DeletionExact` turns `DeletionDeclared` into an
equivalence: an evaluation removes the object if and only if its target can be parsed, the batch
size is positive, the author's words select it and their TTL is over; where a duration cannot be
expressed, or a string field without mappings misses the default (see above), it says nothing
(`Covered`). `ExpiryStable` is about the
time between judging and deleting: what has expired stays expired until object or policy change,
also where a duration wraps, because the moment it wraps to does not move. `MutationNeutral` is about
the order of the webhooks: mutation is idempotent, and neither the schema nor the
validating webhook tells a mutated policy from the bare one.

`LeaderElectionProofs` proves, for any replicas, any durations that the elector accepts and any
number of faults, `LeadersTyped`, `OverlapIsBounded`, the action property `OnlyTakenWhenSilent` and
`StandbysIdle`. How long a leader overlaps follows from times that several processes measure: a
replica's sight of the lease is never older than the lease (`SightSound`), who is about to take
it has seen it run out and nobody has written it since (`TakeSound`), an answer on its way belongs
to the last write or to one that is a lease ago (`WriteFresh`), and a leader counts from such an
answer (`LeaderFresh`). `SlackGivesExactlyOne` draws the conclusion: if RetryPeriod, RenewDeadline
and the delay of an answer are together less than LeaseDuration, there is one active leader.

`FailoverProofs` builds on it, for any replicas, objects, delays of requests and number of faults.
`FailoverElects` shows that the composition is a `LeaderElection`, so that its invariant holds here,
too. Over it, `CollectionInvariant` says that a DELETE of the lease's holder was sent not long
before the lease was last written (`OwnDeletesFresh`: when the lease is taken, this turns into
`StrayDeletesBounded`), that what a replica waits for is gone or its request is on its way, that
reports are true, and that as long as leaders have only followed one another none has in hand
what another has reported (`ReportsApart`). `CollectionTyped`, `StraysAlwaysBounded` and
`AlwaysReportedOnce` follow, and `SlackReportsOnce`: with the slack of `SlackGivesExactlyOne` no
deletion is ever reported by two replicas. `ReplicasKeepPromise` shows that `Failover` implements
`CollectorPromise`, as `GCEvaluation` does: `Land` of an object that is there maps to `Collect`,
`Report` to `Report`, and the lease, its faults and the requests that come too late are stutters.

`TokenBucketProofs` proves, for any rates, resolution of the clock, backoff and number of
resources, `BucketTyped`, `RateHonoured` and `RetriesCharged`. The two bounds rest on one
invariant: whatever was sent in the window, and twice whatever was deleted, has been paid for in
units that the window started with, has earned since, or got from a new process's full bucket.
Each of these is at most the highest rate of the window times a second. A token that has been
taken and not yet spent, and the first request of the window, whose token may be older than it,
account for the ones in the statement. `SetRate` only ever takes units away, which is what
`SetRateAnew` breaks. `RunAdvances` is the measure of a run: the resources still due, the attempts of
the current one, the place in its loop; a step of the worker lowers it, and a tick, which does not
change it, brings the token or the end of the pause nearer by a unit at least.

The only assumptions are the named ones of the modules: positive batch sizes,
intervals, durations and retry budgets, bounds that are natural numbers, and that manifests and
objects have the types of their Go structs. The fairness
conditions play no part in the proofs. Liveness (`EvaluationEnds`, `OverdueCollected`,
`ReconcileEnds`, `ProbeAnswered`, `TargetServed`, `EvaluatedForEver`, `StatusCatchesUp`,
`CleanedUp`, `RunEnds`, `Reconciled`, `CollectedAcrossLeaders`) is model-checked only: a fairness
condition is about ENABLED, which is out of the prover's reach. Where the argument has a part
that is safety, this part is proved (`EvaluationAdvances`, `NeverForgotten`, `RemovedNotForgotten`,
`RunAdvances`), and what is left to TLC is that the next step comes.

## Not modelled

- Logging, errors, events and metrics: formatting and fire-and-forget output. The counters of
  `internal/logging/sampling.go` would be worth a module of their own, but nothing constructs a
  `SampledLogger` outside the example of its package.
- `internal/config/env.go`, `ingester_rate_limit.go` and the other methods of the validator: the
  controller calls none of them.
- The admission server beyond whether it serves: HTTP, TLS, decoding, and a server that fails after
  its start, which is only logged.
- The spelling rules of `PluralizeKind`, of names and of timestamps, and the comparison of two
  versions of a selector (`labelSelectorsEqual`), on which nothing but a log line depends.
- Conditions and times of the status; the length of intervals.
- Two token buckets while leaders overlap: `TokenBucket` bounds each, and `Failover` how long both
  are drawn on.
- Generated code, mocks, examples.

What could come next: liveness of `failover` with late answers, which takes more states than a few
minutes allow.
