-------------------------- MODULE InformerRegistry --------------------------
(***************************************************************************)
(* The shared informers of the leader: how a reconcile worker finds or     *)
(* creates the evaluation service and the informer of a policy's target,   *)
(* under the two write locks, how the GVR of the target is resolved, and   *)
(* what the health probes see of it.                                       *)
(*                                                                         *)
(* Source: evaluatePolicy, getOrCreateEvaluationService and                *)
(* getOrCreateResourceInformer in pkg/controller/reconciler.go,            *)
(* gvr_resolver.go, health.go, internal/health/health.go.  A section under *)
(* a read lock only looks up a map and is one step.                        *)
(***************************************************************************)
EXTENDS Integers, Sequences

CONSTANTS
    Workers,        \* goroutines that reconcile policies
    Probes,         \* health requests
    Keys,           \* evaluationServiceKey: apiVersion, kind and namespace of a target
    Kinds, KindOf,  \* the group, version and kind of a key
    Regular,        \* kinds whose plural PluralizeKind guesses right
    MaxAttempts,    \* bound: reconciles begun while the target cannot be watched
    MaxChanges,     \* bound: changes of discovery and of what can be listed
    MaxSlow         \* bound: cache syncs that time out though the target can be listed

ASSUME KindAssumption == KindOf \in [Keys -> Kinds] /\ Regular \subseteq Kinds
ASSUME BudgetAssumption == MaxAttempts \in Nat /\ MaxChanges \in Nat /\ MaxSlow \in Nat

VARIABLES
    \* the API server
    discovered,     \* kinds the RESTMapper finds
    listable,       \* kinds whose resources can be listed and watched
    changes, attempts, slow,    \* what is left of the bounds
    \* the process
    resolved,       \* GVRResolver.cache: "none", or the plural kept for the kind
    informers,      \* every informer ever started; none is stopped before the process
    registry,       \* resourceInformers: index into informers, 0 when absent
    services,       \* evaluationServices: the informer its lister reads, 0 when absent
    svcMu, infMu,   \* workers that hold evaluationServiceMu, resourceInformersMu for writing
    pc, key, direct,    \* per worker: position, target, fallback path of evaluatePolicy
    lister,         \* per worker: informer it evaluates from
    asked,          \* per probe: position
    seen,           \* per probe: informers of its snapshot
    verdict         \* per probe: the last answer

api    == <<discovered, listable, changes, attempts, slow>>
maps   == <<resolved, informers, registry, services>>
worker == <<pc, key, direct, lister>>
probe  == <<asked, seen, verdict>>
vars   == <<discovered, listable, changes, attempts, slow, resolved, informers, registry,
            services, svcMu, infMu, pc, key, direct, lister, asked, seen, verdict>>

Informer == [key: Keys, right: BOOLEAN, synced: BOOLEAN]

TypeOK ==
    /\ discovered \subseteq Kinds /\ listable \subseteq Kinds
    /\ changes \in Nat /\ attempts \in Nat /\ slow \in Nat
    /\ resolved \in [Kinds -> {"none", "right", "wrong"}]
    /\ informers \in Seq(Informer)
    /\ registry \in [Keys -> 0 .. Len(informers)] /\ services \in [Keys -> 0 .. Len(informers)]
    /\ svcMu \subseteq Workers /\ infMu \subseteq Workers
    /\ pc \in [Workers -> {"idle", "service", "lockServices", "informer", "lockInformers",
                           "sync", "evaluate"}]
    /\ key \in [Workers -> Keys] /\ direct \in [Workers -> BOOLEAN]
    /\ lister \in [Workers -> 0 .. Len(informers)]
    /\ asked \in [Probes -> {"no", "ready", "live", "readySeen", "liveSeen"}]
    /\ seen \in [Probes -> SUBSET (1 .. Len(informers))]
    /\ verdict \in [Probes -> {"none", "ok", "unready"}]

Init ==
    /\ discovered \in SUBSET Kinds /\ listable \in SUBSET Kinds
    /\ changes = MaxChanges /\ attempts = MaxAttempts /\ slow = MaxSlow
    /\ resolved = [g \in Kinds |-> "none"] /\ informers = <<>>
    /\ registry = [k \in Keys |-> 0] /\ services = registry
    /\ svcMu = {} /\ infMu = {}
    /\ pc = [w \in Workers |-> "idle"] /\ key \in [Workers -> Keys]
    /\ direct = [w \in Workers |-> FALSE] /\ lister = [w \in Workers |-> 0]
    /\ asked = [p \in Probes |-> "no"] /\ seen = [p \in Probes |-> {}]
    /\ verdict = [p \in Probes |-> "none"]

-----------------------------------------------------------------------------
(* The API server.                                                         *)

Toggle(set, g) == IF g \in set THEN set \ {g} ELSE set \cup {g}

\* A CRD or a permission comes or goes; discovery follows on its own.
Change(g) ==
    /\ changes > 0 /\ changes' = changes - 1
    /\ \/ discovered' = Toggle(discovered, g) /\ UNCHANGED listable
       \/ listable' = Toggle(listable, g) /\ UNCHANGED discovered
    /\ UNCHANGED <<attempts, slow, maps, svcMu, infMu, worker, probe>>

Watches(i) == informers[i].right /\ KindOf[informers[i].key] \in listable

\* The reflector of an informer has listed its resource.
InformerSyncs(i) ==
    /\ ~informers[i].synced /\ Watches(i)
    /\ informers' = [informers EXCEPT ![i].synced = TRUE]
    /\ UNCHANGED <<api, resolved, registry, services, svcMu, infMu, worker, probe>>

-----------------------------------------------------------------------------
(* GVRResolver.                                                            *)

\* The plural that is right, or the pluralized guess when discovery has no answer.
Plural(g) == IF resolved[g] # "none" THEN resolved[g]
             ELSE IF g \in discovered \cup Regular THEN "right" ELSE "wrong"

\* A slip: the pluralized guess is kept as well.
RememberGuess(g) == resolved' = [resolved EXCEPT ![g] = Plural(g)]

\* Only what the mapper confirmed is kept.
Remember(g) == resolved' = IF resolved[g] = "none" /\ g \in discovered
                           THEN [resolved EXCEPT ![g] = "right"] ELSE resolved

-----------------------------------------------------------------------------
(* A reconcile worker.                                                     *)

Watchable(k) == KindOf[k] \in listable /\ Plural(KindOf[k]) = "right"

Goto(w, place) == pc' = [pc EXCEPT ![w] = place]

\* Reconcile calls evaluatePolicy for a policy with target k.
Reconcile(w, k) ==
    /\ pc[w] = "idle"
    /\ IF Watchable(k) THEN UNCHANGED attempts ELSE attempts > 0 /\ attempts' = attempts - 1
    /\ Goto(w, "service") /\ key' = [key EXCEPT ![w] = k]
    /\ UNCHANGED <<discovered, listable, changes, slow, maps, svcMu, infMu, direct, lister, probe>>

\* The informer is known: the fallback path evaluates from it, the other one keeps a
\* service for the key, releases evaluationServiceMu and evaluates.
Obtain(w, i) ==
    /\ Goto(w, "evaluate") /\ lister' = [lister EXCEPT ![w] = i]
    /\ IF direct[w] THEN UNCHANGED services
       ELSE services' = [services EXCEPT ![key[w]] = i]
    /\ svcMu' = svcMu \ {w}

\* A slip: an early return leaves evaluationServiceMu locked.
GiveUpLocked(w) ==
    /\ Goto(w, IF direct[w] THEN "idle" ELSE "informer")
    /\ direct' = [direct EXCEPT ![w] = ~@]
    /\ UNCHANGED svcMu

\* No informer: the fallback path of evaluatePolicy tries once more, then gives up.
GiveUp(w) ==
    /\ Goto(w, IF direct[w] THEN "idle" ELSE "informer")
    /\ direct' = [direct EXCEPT ![w] = ~@]
    /\ svcMu' = svcMu \ {w}

FindService(w) ==
    /\ pc[w] = "service" /\ svcMu = {}
    /\ IF services[key[w]] # 0
       THEN Goto(w, "evaluate") /\ lister' = [lister EXCEPT ![w] = services[key[w]]]
       ELSE Goto(w, "lockServices") /\ UNCHANGED lister
    /\ UNCHANGED <<api, maps, svcMu, infMu, key, direct, probe>>

LockServices(w) ==
    /\ pc[w] = "lockServices" /\ svcMu = {}
    /\ IF services[key[w]] # 0
       THEN /\ Goto(w, "evaluate") /\ lister' = [lister EXCEPT ![w] = services[key[w]]]
            /\ UNCHANGED svcMu
       ELSE Goto(w, "informer") /\ svcMu' = {w} /\ UNCHANGED lister
    /\ UNCHANGED <<api, maps, infMu, key, direct, probe>>

FindInformer(w) ==
    /\ pc[w] = "informer" /\ infMu = {}
    /\ IF registry[key[w]] # 0 THEN Obtain(w, registry[key[w]])
       ELSE Goto(w, "lockInformers") /\ UNCHANGED <<services, svcMu, lister>>
    /\ UNCHANGED <<api, resolved, informers, registry, infMu, key, direct, probe>>

\* A new informer for key k; the lock is held or not during its sync.
Start(w, held) ==
    LET k == key[w]  g == KindOf[key[w]] IN
    /\ informers' = Append(informers, [key |-> k, right |-> Plural(g) = "right", synced |-> FALSE])
    /\ registry' = [registry EXCEPT ![k] = Len(informers) + 1]
    /\ Remember(g) /\ infMu' = held /\ Goto(w, "sync")
    /\ UNCHANGED <<services, svcMu, lister>>

\* A slip: no second look after the write lock is taken.
LockInformersUnchecked(w) ==
    /\ pc[w] = "lockInformers" /\ infMu = {} /\ Start(w, {w})
    /\ UNCHANGED <<api, key, direct, probe>>

\* A slip: the lock is released before the cache sync.
LockInformersBriefly(w) ==
    /\ pc[w] = "lockInformers" /\ infMu = {}
    /\ IF registry[key[w]] # 0
       THEN Obtain(w, registry[key[w]]) /\ UNCHANGED <<resolved, informers, registry, infMu>>
       ELSE Start(w, {})
    /\ UNCHANGED <<api, key, direct, probe>>

\* A slip: the entry is stored although no informer was made for it.
LockInformersDangling(w) ==
    /\ pc[w] = "lockInformers" /\ infMu = {}
    /\ registry' = [registry EXCEPT ![key[w]] = Len(informers) + 1]
    /\ infMu' = {w} /\ Goto(w, "sync")
    /\ UNCHANGED <<api, resolved, informers, services, svcMu, key, direct, lister, probe>>

\* Double check, resolve, store and start; the lock stays held for the cache sync.
LockInformers(w) ==
    /\ pc[w] = "lockInformers" /\ infMu = {}
    /\ IF registry[key[w]] # 0
       THEN Obtain(w, registry[key[w]]) /\ UNCHANGED <<resolved, informers, registry, infMu>>
       ELSE Start(w, {w})
    /\ UNCHANGED <<api, key, direct, probe>>

Synced(w) ==
    /\ pc[w] = "sync" /\ informers[registry[key[w]]].synced
    /\ Obtain(w, registry[key[w]]) /\ infMu' = infMu \ {w}
    /\ UNCHANGED <<api, resolved, informers, registry, key, direct, probe>>

\* A slip: the timeout returns with resourceInformersMu locked.
SyncTimeoutLocked(w) ==
    /\ pc[w] = "sync"
    /\ IF Watches(registry[key[w]]) THEN slow > 0 /\ slow' = slow - 1 ELSE UNCHANGED slow
    /\ registry' = [registry EXCEPT ![key[w]] = 0] /\ GiveUp(w)
    /\ UNCHANGED <<discovered, listable, changes, attempts, resolved, informers, services, infMu,
                   key, lister, probe>>

\* DefaultCacheSyncTimeout: the entry is dropped, the started factory is not stopped.
SyncTimeout(w) ==
    /\ pc[w] = "sync"
    /\ IF Watches(registry[key[w]]) THEN slow > 0 /\ slow' = slow - 1 ELSE UNCHANGED slow
    /\ registry' = [registry EXCEPT ![key[w]] = 0]
    /\ infMu' = infMu \ {w} /\ GiveUp(w)
    /\ UNCHANGED <<discovered, listable, changes, attempts, resolved, informers, services, key,
                   lister, probe>>

\* The evaluation lists the store and resolves the GVR again for its deletions.
Evaluate(w) ==
    /\ pc[w] = "evaluate" /\ Goto(w, "idle")
    /\ direct' = [direct EXCEPT ![w] = FALSE] /\ lister' = [lister EXCEPT ![w] = 0]
    /\ Remember(KindOf[key[w]]) \/ UNCHANGED resolved
    /\ UNCHANGED <<api, informers, registry, services, svcMu, infMu, key, probe>>

-----------------------------------------------------------------------------
(* Health probes of the leader.                                            *)

Ask(p, what) ==
    /\ asked[p] = "no"
    /\ asked' = [asked EXCEPT ![p] = what] /\ verdict' = [verdict EXCEPT ![p] = "none"]
    /\ UNCHANGED <<api, maps, svcMu, infMu, worker, seen>>

\* A slip: the map is read without the lock.
SnapshotUnlocked(p) ==
    /\ asked[p] \in {"ready", "live"}
    /\ asked' = [asked EXCEPT ![p] = IF @ = "ready" THEN "readySeen" ELSE "liveSeen"]
    /\ seen' = [seen EXCEPT ![p] = {registry[k] : k \in Keys} \ {0}]
    /\ UNCHANGED <<api, maps, svcMu, infMu, worker, verdict>>

\* GetInformers copies the map under the read lock.
Snapshot(p) ==
    /\ asked[p] \in {"ready", "live"} /\ infMu = {}
    /\ asked' = [asked EXCEPT ![p] = IF @ = "ready" THEN "readySeen" ELSE "liveSeen"]
    /\ seen' = [seen EXCEPT ![p] = {registry[k] : k \in Keys} \ {0}]
    /\ UNCHANGED <<api, maps, svcMu, infMu, worker, verdict>>

\* ReadinessCheck asks every informer of the snapshot; LivenessCheck takes the read
\* lock once more and never fails.
AnswerProbe(p) ==
    /\ \/ /\ asked[p] = "readySeen"
          /\ verdict' = [verdict EXCEPT ![p] =
                IF \A i \in seen[p] : informers[i].synced THEN "ok" ELSE "unready"]
       \/ asked[p] = "liveSeen" /\ infMu = {} /\ verdict' = [verdict EXCEPT ![p] = "ok"]
    /\ asked' = [asked EXCEPT ![p] = "no"] /\ seen' = [seen EXCEPT ![p] = {}]
    /\ UNCHANGED <<api, maps, svcMu, infMu, worker>>

-----------------------------------------------------------------------------
Step(w) ==
    \/ FindService(w) \/ LockServices(w) \/ FindInformer(w) \/ LockInformers(w)
    \/ Synced(w) \/ SyncTimeout(w) \/ Evaluate(w)

Next ==
    \/ \E g \in Kinds : Change(g)
    \/ \E i \in 1 .. Len(informers) : InformerSyncs(i)
    \/ \E w \in Workers : (\E k \in Keys : Reconcile(w, k)) \/ Step(w)
    \/ \E p \in Probes : Ask(p, "ready") \/ Ask(p, "live") \/ Snapshot(p) \/ AnswerProbe(p)

Spec == Init /\ [][Next]_vars

\* Goroutines run, reflectors list what can be listed, sync.RWMutex starves nobody,
\* and the work queue hands over every policy again and again.
FairSpec ==
    /\ Spec
    /\ \A w \in Workers : SF_vars(Step(w))
    /\ WF_vars(\E i \in 1 .. Len(informers) : InformerSyncs(i))
    /\ \A p \in Probes : SF_vars(Snapshot(p)) /\ SF_vars(AnswerProbe(p))
    /\ \A k \in Keys : SF_vars(\E w \in Workers : Reconcile(w, k))

-----------------------------------------------------------------------------
(* Safety.                                                                 *)

\* No evaluation ever lists a store that has not synced or belongs to another target,
\* although the entry is published before the sync and dropped after a timeout
\* (getOrCreateResourceInformer, GetResourceListerForPolicy).
ListsSynced ==
    \A w \in Workers : pc[w] = "evaluate" =>
        /\ lister[w] # 0 /\ informers[lister[w]].synced /\ informers[lister[w]].key = key[w]

\* A cached service reads the informer that is registered for its key: a failed sync
\* never drops an informer that somebody uses, and nobody uses a dropped one.
ServicesRegistered == \A k \in Keys : services[k] # 0 => registry[k] = services[k]

\* Readiness is never negative: while an informer syncs the probe waits for the lock,
\* afterwards the informer is synced or dropped (ReadinessCheck).
NeverUnready == \A p \in Probes : verdict[p] # "unready"

-----------------------------------------------------------------------------
(* Liveness.                                                               *)

\* Every reconcile ends, whatever the locks and the targets do.
ReconcileEnds == \A w \in Workers : pc[w] # "idle" ~> pc[w] = "idle"

\* Every probe is answered, though the lock is held for the length of a cache sync.
ProbeAnswered == \A p \in Probes : asked[p] # "no" ~> asked[p] = "no"

\* Once a target can be watched for good it gets its service: no wrong plural and no
\* dropped informer stays in the way (ResolveGVR, "never self-heal").
TargetServed == \A k \in Keys : []<>(KindOf[k] \notin listable \cap discovered) \/ <>(services[k] # 0)
=============================================================================
