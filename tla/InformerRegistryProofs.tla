----------------------- MODULE InformerRegistryProofs -----------------------
(***************************************************************************)
(* Proofs about InformerRegistry, for every number of workers, probes and  *)
(* targets, and whatever discovery and permissions do meanwhile.           *)
(***************************************************************************)
EXTENDS InformerRefinement, SequenceTheorems, TLAPS

-----------------------------------------------------------------------------
(* The inductive invariant.                                                *)

\* Who holds which lock: evaluationServiceMu from LockServices to the end of the
\* first try, resourceInformersMu during a cache sync, each by one worker at most.
LocksHeld ==
    /\ \A v, w \in svcMu : v = w
    /\ \A v, w \in infMu : v = w
    /\ \A w \in Workers :
         /\ w \in svcMu <=> pc[w] \in {"informer", "lockInformers", "sync"} /\ ~direct[w]
         /\ w \in infMu <=> pc[w] = "sync"
         /\ direct[w] => pc[w] \notin {"idle", "service", "lockServices"}

\* A registered informer is one of its key, and has synced unless a worker that
\* holds the lock is waiting for it.
RegistryTrue ==
    \A k \in Keys : registry[k] # 0 =>
        /\ informers[registry[k]].key = k
        /\ informers[registry[k]].synced \/ \E v \in infMu : key[v] = k

\* The informer a worker waits for is registered, and no service reads it yet.
SyncsRegistered ==
    \A w \in Workers : pc[w] = "sync" => registry[key[w]] # 0 /\ services[key[w]] = 0

ServicesSynced == \A k \in Keys : services[k] # 0 => informers[services[k]].synced

ProbesSynced == \A p \in Probes : \A i \in seen[p] : informers[i].synced

IInv == /\ LocksHeld /\ RegistryTrue /\ SyncsRegistered /\ ServicesRegistered /\ ServicesSynced
        /\ ListsSynced /\ ProbesSynced /\ NeverUnready

-----------------------------------------------------------------------------
(* Informers are only ever added, and stay synced.                         *)

Grows ==
    /\ informers' \in Seq(Informer) /\ Len(informers') >= Len(informers)
    /\ \A i \in 1 .. Len(informers) : /\ informers'[i].key = informers[i].key
                                      /\ informers[i].synced => informers'[i].synced

LEMMA SameGrows == TypeOK /\ informers' = informers => Grows
BY DEF TypeOK, Grows

LEMMA AppendGrows ==
    ASSUME TypeOK, NEW x \in Informer, informers' = Append(informers, x)
    PROVE  /\ Grows /\ Len(informers') = Len(informers) + 1
           /\ informers'[Len(informers) + 1] = x
<1>1. informers \in Seq(Informer)
  BY DEF TypeOK
<1>2. /\ informers' \in Seq(Informer) /\ Len(informers') = Len(informers) + 1
      /\ \A i \in 1 .. Len(informers) : informers'[i] = informers[i]
      /\ informers'[Len(informers) + 1] = x
  BY <1>1, AppendProperties
<1>3. Len(informers) \in Nat
  BY <1>1
<1> QED BY <1>2, <1>3 DEF Grows

LEMMA SyncGrows ==
    ASSUME TypeOK, NEW i \in 1 .. Len(informers), InformerSyncs(i)
    PROVE  Grows
<1> DEFINE x == [informers[i] EXCEPT !.synced = TRUE]
<1>1. informers \in Seq(Informer) /\ informers[i] \in Informer
  BY ElementOfSeq DEF TypeOK
<1>2. x \in Informer /\ x.key = informers[i].key /\ x.synced
  BY <1>1 DEF Informer
<1>3. informers' = [informers EXCEPT ![i] = x]
  BY DEF InformerSyncs
<1> HIDE DEF x
<1>4. informers' \in Seq(Informer) /\ Len(informers') = Len(informers)
  BY <1>1, <1>2, <1>3, ExceptSeq
<1>5. \A j \in 1 .. Len(informers) : informers'[j] = IF j = i THEN x ELSE informers[j]
  BY <1>1, <1>3, ExceptSeq
<1> QED BY <1>1, <1>2, <1>4, <1>5 DEF Grows

\* No step removes an informer or changes the key of one.
LEMMA StepGrows == ASSUME TypeOK, [Next]_vars PROVE Grows
<1> USE DEF api, maps, worker, probe
<1>1. ASSUME informers' = informers PROVE Grows
  BY <1>1, SameGrows
<1>2. ASSUME NEW w \in Workers, LockInformers(w) PROVE Grows
  <2>1. CASE registry[key[w]] # 0
    BY <1>1, <1>2, <2>1 DEF LockInformers
  <2>2. CASE registry[key[w]] = 0
    <3> DEFINE x == [key |-> key[w], right |-> Plural(KindOf[key[w]]) = "right", synced |-> FALSE]
    <3>1. x \in Informer /\ informers' = Append(informers, x)
      BY <1>2, <2>2 DEF LockInformers, Start, Informer, TypeOK
    <3> QED BY <3>1, AppendGrows
  <2> QED BY <2>1, <2>2
<1>3. ASSUME NEW w \in Workers,
             \/ FindService(w) \/ LockServices(w) \/ FindInformer(w) \/ Synced(w)
             \/ SyncTimeout(w) \/ Evaluate(w)
      PROVE  Grows
  BY <1>1, <1>3 DEF FindService, LockServices, FindInformer, Synced, SyncTimeout, Evaluate
<1>4. ASSUME NEW w \in Workers, NEW k \in Keys, Reconcile(w, k) PROVE Grows
  BY <1>1, <1>4 DEF Reconcile
<1>5. ASSUME NEW g \in Kinds, Change(g) PROVE Grows
  BY <1>1, <1>5 DEF Change
<1>6. ASSUME NEW p \in Probes, NEW what, Ask(p, what) \/ Snapshot(p) \/ AnswerProbe(p) PROVE Grows
  BY <1>1, <1>6 DEF Ask, Snapshot, AnswerProbe
<1>7. ASSUME NEW i \in 1 .. Len(informers), InformerSyncs(i) PROVE Grows
  BY <1>7, SyncGrows
<1>8. CASE UNCHANGED vars
  BY <1>1, <1>8 DEF vars
<1> QED BY <1>2, <1>3, <1>4, <1>5, <1>6, <1>7, <1>8 DEF Next, Step

-----------------------------------------------------------------------------
(* Type correctness.                                                       *)

LEMMA TypeInductive == ASSUME TypeOK, [Next]_vars PROVE TypeOK'
<1> USE DEF api, maps, worker, probe, Goto
<1>1. /\ Grows /\ Len(informers) \in Nat /\ Len(informers') \in Nat
      /\ 0 .. Len(informers) \subseteq 0 .. Len(informers')
      /\ 1 .. Len(informers) \subseteq 1 .. Len(informers')
  BY StepGrows DEF TypeOK, Grows
<1>2. informers' \in Seq(Informer)
  BY <1>1 DEF Grows
<1>3. /\ registry \in [Keys -> 0 .. Len(informers')] /\ services \in [Keys -> 0 .. Len(informers')]
      /\ lister \in [Workers -> 0 .. Len(informers')]
      /\ seen \in [Probes -> SUBSET (1 .. Len(informers'))]
  BY <1>1 DEF TypeOK
<1>4. \A w \in Workers : registry[key[w]] \in 0 .. Len(informers') /\ services[key[w]] \in 0 .. Len(informers')
  BY <1>3 DEF TypeOK
<1>5. \A g \in Kinds : Remember(g) => resolved' \in [Kinds -> {"none", "right", "wrong"}]
  BY DEF Remember, TypeOK
<1>6. ASSUME NEW w \in Workers, Obtain(w, registry[key[w]])
      PROVE  /\ services' \in [Keys -> 0 .. Len(informers')] /\ lister' \in [Workers -> 0 .. Len(informers')]
             /\ svcMu' \subseteq Workers
             /\ pc' \in [Workers -> {"idle", "service", "lockServices", "informer", "lockInformers",
                                     "sync", "evaluate"}]
  BY <1>3, <1>4, <1>6 DEF Obtain, TypeOK
<1>7. ASSUME NEW w \in Workers, LockInformers(w) PROVE TypeOK'
  <2>1. CASE registry[key[w]] # 0
    BY <1>2, <1>3, <1>6, <1>7, <2>1 DEF LockInformers, TypeOK
  <2>2. CASE registry[key[w]] = 0
    <3>1. Len(informers') = Len(informers) + 1 /\ Start(w, {w})
      <4> DEFINE x == [key |-> key[w], right |-> Plural(KindOf[key[w]]) = "right", synced |-> FALSE]
      <4>1. x \in Informer /\ informers' = Append(informers, x)
        BY <1>7, <2>2 DEF LockInformers, Start, Informer, TypeOK
      <4>2. Len(informers') = Len(informers) + 1
        BY <4>1, AppendGrows
      <4> QED BY <1>7, <2>2, <4>2 DEF LockInformers
    <3>2. registry' \in [Keys -> 0 .. Len(informers')]
      <4>1. registry' = [registry EXCEPT ![key[w]] = Len(informers) + 1]
        BY <3>1 DEF Start
      <4>2. Len(informers) + 1 \in 0 .. Len(informers')
        BY <1>1, <3>1
      <4> QED BY <1>3, <4>1, <4>2
    <3>3. resolved' \in [Kinds -> {"none", "right", "wrong"}]
      BY <1>5, <3>1, KindAssumption DEF Start, TypeOK
    <3>4. pc' \in [Workers -> {"idle", "service", "lockServices", "informer", "lockInformers",
                              "sync", "evaluate"}]
      BY <3>1 DEF Start, TypeOK
    <3> QED BY <1>2, <1>3, <1>7, <3>1, <3>2, <3>3, <3>4 DEF LockInformers, Start, TypeOK
  <2> QED BY <2>1, <2>2
<1>8. ASSUME NEW w \in Workers, FindInformer(w) PROVE TypeOK'
  BY <1>2, <1>3, <1>6, <1>8 DEF FindInformer, TypeOK
<1>9. ASSUME NEW w \in Workers, Synced(w) PROVE TypeOK'
  BY <1>2, <1>3, <1>6, <1>9 DEF Synced, TypeOK
<1>10. ASSUME NEW w \in Workers, SyncTimeout(w) PROVE TypeOK'
  <2>1. registry' \in [Keys -> 0 .. Len(informers')]
    <3>1. 0 \in 0 .. Len(informers')
      BY <1>1
    <3> QED BY <1>3, <1>10, <3>1 DEF SyncTimeout
  <2>2. /\ svcMu' \subseteq Workers /\ infMu' \subseteq Workers /\ direct' \in [Workers -> BOOLEAN]
        /\ pc' \in [Workers -> {"idle", "service", "lockServices", "informer", "lockInformers",
                               "sync", "evaluate"}]
    BY <1>10 DEF SyncTimeout, GiveUp, TypeOK
  <2>3. slow' \in Nat
    BY <1>10 DEF SyncTimeout, TypeOK
  <2> QED BY <1>2, <1>3, <1>10, <2>1, <2>2, <2>3 DEF SyncTimeout, TypeOK
<1>11. ASSUME NEW w \in Workers, FindService(w) \/ LockServices(w) PROVE TypeOK'
  <2>1. lister' \in [Workers -> 0 .. Len(informers')]
    BY <1>3, <1>4, <1>11 DEF FindService, LockServices
  <2>2. /\ svcMu' \subseteq Workers
        /\ pc' \in [Workers -> {"idle", "service", "lockServices", "informer", "lockInformers",
                               "sync", "evaluate"}]
    <3>1. CASE FindService(w)
      BY <3>1 DEF FindService, TypeOK
    <3>2. CASE LockServices(w)
      <4>1. \/ svcMu' = svcMu /\ pc' = [pc EXCEPT ![w] = "evaluate"]
            \/ svcMu' = {w} /\ pc' = [pc EXCEPT ![w] = "informer"]
        BY <3>2 DEF LockServices
      <4> QED BY <4>1 DEF TypeOK
    <3> QED BY <1>11, <3>1, <3>2
  <2>3. UNCHANGED <<api, maps, infMu, key, direct, probe>>
    BY <1>11 DEF FindService, LockServices
  <2> QED BY <1>2, <1>3, <2>1, <2>2, <2>3 DEF TypeOK
<1>12. ASSUME NEW w \in Workers, Evaluate(w) PROVE TypeOK'
  <2>1. resolved' \in [Kinds -> {"none", "right", "wrong"}]
    BY <1>5, <1>12, KindAssumption DEF Evaluate, TypeOK
  <2> QED BY <1>1, <1>2, <1>3, <1>12, <2>1 DEF Evaluate, TypeOK
<1>13. ASSUME NEW w \in Workers, NEW k \in Keys, Reconcile(w, k) PROVE TypeOK'
  BY <1>2, <1>3, <1>13 DEF Reconcile, TypeOK
<1>14. ASSUME NEW g \in Kinds, Change(g) PROVE TypeOK'
  BY <1>2, <1>3, <1>14 DEF Change, Toggle, TypeOK
<1>15. ASSUME NEW i \in 1 .. Len(informers), InformerSyncs(i) PROVE TypeOK'
  BY <1>2, <1>3, <1>15 DEF InformerSyncs, TypeOK
<1>16. ASSUME NEW p \in Probes, Ask(p, "ready") \/ Ask(p, "live") PROVE TypeOK'
  BY <1>2, <1>3, <1>16 DEF Ask, TypeOK
<1>17. ASSUME NEW p \in Probes, Snapshot(p) PROVE TypeOK'
  <2>1. {registry[k] : k \in Keys} \ {0} \subseteq 1 .. Len(informers')
    BY <1>1, <1>3
  <2> QED BY <1>2, <1>3, <1>17, <2>1 DEF Snapshot, TypeOK
<1>18. ASSUME NEW p \in Probes, AnswerProbe(p) PROVE TypeOK'
  BY <1>2, <1>3, <1>18 DEF AnswerProbe, TypeOK
<1>19. CASE UNCHANGED vars
  BY <1>19 DEF vars, TypeOK
<1> QED
  BY <1>7, <1>8, <1>9, <1>10, <1>11, <1>12, <1>13, <1>14, <1>15, <1>16, <1>17, <1>18, <1>19
     DEF Next, Step

-----------------------------------------------------------------------------
(* Locks.                                                                  *)

LEMMA LocksInductive == ASSUME TypeOK, LocksHeld, [Next]_vars PROVE LocksHeld'
<1> USE DEF LocksHeld, Goto
<1>1. ASSUME UNCHANGED <<svcMu, infMu, pc, direct>> PROVE LocksHeld'
  BY <1>1
<1>2. ASSUME NEW w \in Workers, NEW k \in Keys, Reconcile(w, k) PROVE LocksHeld'
  BY <1>2 DEF Reconcile, TypeOK
<1>3. ASSUME NEW w \in Workers, FindService(w) PROVE LocksHeld'
  BY <1>3 DEF FindService, TypeOK
<1>4. ASSUME NEW w \in Workers, LockServices(w) PROVE LocksHeld'
  BY <1>4 DEF LockServices, TypeOK
<1>5. ASSUME NEW w \in Workers, NEW i, Obtain(w, i), infMu' = infMu \ {w}, direct' = direct,
             pc[w] \in {"informer", "lockInformers", "sync"}
      PROVE LocksHeld'
  BY <1>5 DEF Obtain, TypeOK
<1>6. ASSUME NEW w \in Workers, FindInformer(w) PROVE LocksHeld'
  <2>1. CASE registry[key[w]] # 0
    BY <1>5, <1>6, <2>1 DEF FindInformer
  <2>2. CASE registry[key[w]] = 0
    BY <1>6, <2>2 DEF FindInformer, TypeOK
  <2> QED BY <2>1, <2>2
<1>7. ASSUME NEW w \in Workers, LockInformers(w) PROVE LocksHeld'
  <2>1. CASE registry[key[w]] # 0
    BY <1>5, <1>7, <2>1 DEF LockInformers
  <2>2. CASE registry[key[w]] = 0
    BY <1>7, <2>2 DEF LockInformers, Start, TypeOK
  <2> QED BY <2>1, <2>2
<1>8. ASSUME NEW w \in Workers, Synced(w) PROVE LocksHeld'
  BY <1>5, <1>8 DEF Synced
<1>9. ASSUME NEW w \in Workers, SyncTimeout(w) PROVE LocksHeld'
  <2>1. /\ pc[w] = "sync" /\ svcMu' = svcMu \ {w} /\ infMu' = infMu \ {w}
        /\ direct' = [direct EXCEPT ![w] = ~@]
        /\ pc' = [pc EXCEPT ![w] = IF direct[w] THEN "idle" ELSE "informer"]
    BY <1>9 DEF SyncTimeout, GiveUp
  <2>2. pc \in [Workers -> {"idle", "service", "lockServices", "informer", "lockInformers",
                            "sync", "evaluate"}] /\ direct \in [Workers -> BOOLEAN]
    BY DEF TypeOK
  <2> QED BY ONLY <2>1, <2>2, LocksHeld, w \in Workers DEF LocksHeld
<1>10. ASSUME NEW w \in Workers, Evaluate(w) PROVE LocksHeld'
  BY <1>10 DEF Evaluate, TypeOK
<1>11. ASSUME NEW g \in Kinds, Change(g) PROVE LocksHeld'
  BY <1>1, <1>11 DEF Change, worker
<1>12. ASSUME NEW i \in 1 .. Len(informers), InformerSyncs(i) PROVE LocksHeld'
  BY <1>1, <1>12 DEF InformerSyncs, worker
<1>13. ASSUME NEW p \in Probes, NEW what, Ask(p, what) \/ Snapshot(p) \/ AnswerProbe(p)
       PROVE LocksHeld'
  BY <1>1, <1>13 DEF Ask, Snapshot, AnswerProbe, worker
<1>14. CASE UNCHANGED vars
  BY <1>1, <1>14 DEF vars
<1> QED
  BY <1>2, <1>3, <1>4, <1>6, <1>7, <1>8, <1>9, <1>10, <1>11, <1>12, <1>13, <1>14 DEF Next, Step

-----------------------------------------------------------------------------
(* The maps.                                                               *)

\* What a worker finds under its key while nobody syncs, or syncs itself, has synced.
LEMMA RegisteredSynced ==
    ASSUME TypeOK, LocksHeld, RegistryTrue, NEW k \in Keys, registry[k] # 0,
           \A v \in infMu : key[v] # k
    PROVE  informers[registry[k]].synced /\ informers[registry[k]].key = k
BY DEF RegistryTrue

LEMMA RegistryInductive ==
    ASSUME TypeOK, LocksHeld, RegistryTrue, [Next]_vars
    PROVE  RegistryTrue'
<1> USE DEF Goto
<1>1. /\ Grows
      /\ \A k \in Keys : registry[k] # 0 => registry[k] \in 1 .. Len(informers)
  BY StepGrows DEF TypeOK
<1>2. ASSUME registry' = registry, \A v \in infMu : v \in infMu' /\ key'[v] = key[v]
      PROVE  RegistryTrue'
  <2> SUFFICES ASSUME NEW k \in Keys, registry[k] # 0
               PROVE  /\ informers'[registry[k]].key = k
                      /\ informers'[registry[k]].synced \/ \E v \in infMu' : key'[v] = k
    BY <1>2 DEF RegistryTrue
  <2>1. registry[k] \in 1 .. Len(informers)
    BY <1>1
  <2> QED BY <1>1, <1>2, <2>1 DEF Grows, RegistryTrue
<1>3. ASSUME UNCHANGED <<registry, infMu, key>> PROVE RegistryTrue'
  BY <1>2, <1>3
<1>4. ASSUME NEW w \in Workers, NEW k \in Keys, Reconcile(w, k) PROVE RegistryTrue'
  <2>1. w \notin infMu
    BY <1>4 DEF Reconcile, LocksHeld
  <2> QED BY <1>2, <1>4, <2>1 DEF Reconcile, maps, TypeOK
<1>5. ASSUME NEW w \in Workers, LockInformers(w) PROVE RegistryTrue'
  <2>1. CASE registry[key[w]] # 0
    BY <1>3, <1>5, <2>1 DEF LockInformers
  <2>2. CASE registry[key[w]] = 0
    <3> DEFINE x == [key |-> key[w], right |-> Plural(KindOf[key[w]]) = "right", synced |-> FALSE]
    <3>1. /\ x \in Informer /\ informers' = Append(informers, x) /\ infMu' = {w} /\ key' = key
          /\ registry' = [registry EXCEPT ![key[w]] = Len(informers) + 1] /\ infMu = {}
      BY <1>5, <2>2 DEF LockInformers, Start, Informer, TypeOK
    <3>2. informers'[Len(informers) + 1] = x
      BY <3>1, AppendGrows
    <3>3. ASSUME NEW k \in Keys, registry'[k] # 0
          PROVE  /\ informers'[registry'[k]].key = k
                 /\ informers'[registry'[k]].synced \/ \E v \in infMu' : key'[v] = k
      <4>1. CASE k = key[w]
        BY <3>1, <3>2, <4>1 DEF TypeOK
      <4>2. CASE k # key[w]
        <5>1. registry'[k] = registry[k] /\ registry[k] \in 1 .. Len(informers)
          BY <1>1, <3>1, <3>3, <4>2 DEF TypeOK
        <5>2. informers[registry[k]].key = k /\ informers[registry[k]].synced
          BY <3>1, <3>3, <5>1 DEF RegistryTrue
        <5> QED BY <1>1, <5>1, <5>2 DEF Grows
      <4> QED BY <4>1, <4>2
    <3> QED BY <3>3 DEF RegistryTrue
  <2> QED BY <2>1, <2>2
<1>6. ASSUME NEW w \in Workers, Synced(w) PROVE RegistryTrue'
  <2>1. /\ registry' = registry /\ informers' = informers /\ key' = key
        /\ infMu = {w} /\ informers[registry[key[w]]].synced
    BY <1>6 DEF Synced, LocksHeld, TypeOK
  <2>2. \A k \in Keys : registry[k] # 0 => informers[registry[k]].key = k /\ informers[registry[k]].synced
    BY <2>1 DEF RegistryTrue
  <2> QED BY <2>1, <2>2 DEF RegistryTrue
<1>7. ASSUME NEW w \in Workers, SyncTimeout(w) PROVE RegistryTrue'
  <2>1. /\ registry' = [registry EXCEPT ![key[w]] = 0] /\ informers' = informers /\ key' = key
        /\ infMu = {w}
    BY <1>7 DEF SyncTimeout, LocksHeld, TypeOK
  <2>2. ASSUME NEW k \in Keys, registry'[k] # 0
        PROVE  registry'[k] = registry[k] /\ informers[registry[k]].key = k
                 /\ informers[registry[k]].synced
    BY <2>1, <2>2 DEF RegistryTrue, TypeOK
  <2> QED BY <2>1, <2>2 DEF RegistryTrue
<1>8. ASSUME NEW w \in Workers, FindService(w) \/ LockServices(w) \/ FindInformer(w) \/ Evaluate(w)
      PROVE  RegistryTrue'
  BY <1>3, <1>8 DEF FindService, LockServices, FindInformer, Evaluate, maps
<1>9. ASSUME NEW g \in Kinds, Change(g) PROVE RegistryTrue'
  BY <1>3, <1>9 DEF Change, worker, maps
<1>10. ASSUME NEW i \in 1 .. Len(informers), InformerSyncs(i) PROVE RegistryTrue'
  BY <1>3, <1>10 DEF InformerSyncs, worker
<1>11. ASSUME NEW p \in Probes, NEW what, Ask(p, what) \/ Snapshot(p) \/ AnswerProbe(p)
       PROVE RegistryTrue'
  BY <1>3, <1>11 DEF Ask, Snapshot, AnswerProbe, worker, maps
<1>12. CASE UNCHANGED vars
  BY <1>3, <1>12 DEF vars
<1> QED
  BY <1>4, <1>5, <1>6, <1>7, <1>8, <1>9, <1>10, <1>11, <1>12 DEF Next, Step

\* The services and the workers that sync.
ServicesFit == SyncsRegistered /\ ServicesRegistered /\ ServicesSynced

LEMMA ServicesInductive ==
    ASSUME TypeOK, LocksHeld, RegistryTrue, ServicesFit, [Next]_vars
    PROVE  ServicesFit'
<1> USE DEF Goto
<1>1. /\ Grows
      /\ \A k \in Keys : services[k] # 0 => services[k] \in 1 .. Len(informers)
  BY StepGrows DEF TypeOK
<1>2. ASSUME services' = services, \A k \in Keys : services[k] # 0 => registry'[k] = registry[k],
             \A w \in Workers : pc'[w] = "sync" => registry'[key'[w]] # 0 /\ services[key'[w]] = 0
      PROVE  ServicesFit'
  <2>1. ServicesSynced'
    BY <1>1, <1>2 DEF ServicesFit, ServicesSynced, Grows
  <2> QED BY <1>2, <2>1 DEF ServicesFit, SyncsRegistered, ServicesRegistered
<1>3. ASSUME UNCHANGED <<services, registry, key>>, \A w \in Workers : pc'[w] = "sync" => pc[w] = "sync"
      PROVE  ServicesFit'
  BY <1>2, <1>3 DEF ServicesFit, SyncsRegistered
<1>4. ASSUME NEW w \in Workers, Obtain(w, registry[key[w]]), registry' = registry, key' = key,
             registry[key[w]] # 0, informers[registry[key[w]]].synced, infMu = {} \/ pc[w] = "sync"
      PROVE  ServicesFit'
  <2>1. ASSUME NEW v \in Workers, pc'[v] = "sync" PROVE FALSE
    BY <1>4, <2>1 DEF Obtain, LocksHeld, TypeOK
  <2>2. \A k \in Keys : services'[k] = services[k] \/ (k = key[w] /\ services'[k] = registry[k])
    BY <1>4 DEF Obtain, TypeOK
  <2>3. ServicesRegistered'
    BY <1>4, <2>2 DEF ServicesFit, ServicesRegistered
  <2>4. ServicesSynced'
    <3> SUFFICES ASSUME NEW k \in Keys, services'[k] # 0 PROVE informers'[services'[k]].synced
      BY DEF ServicesSynced
    <3>1. services'[k] \in 1 .. Len(informers) /\ informers[services'[k]].synced
      BY <1>1, <1>4, <2>2 DEF ServicesFit, ServicesSynced, TypeOK
    <3> QED BY <1>1, <3>1 DEF Grows
  <2> QED BY <2>1, <2>3, <2>4 DEF ServicesFit, SyncsRegistered
<1>5. ASSUME NEW w \in Workers, NEW k \in Keys, Reconcile(w, k) PROVE ServicesFit'
  <2>1. \A v \in Workers : pc'[v] = "sync" => pc[v] = "sync" /\ key'[v] = key[v]
    BY <1>5 DEF Reconcile, TypeOK
  <2> QED BY <1>2, <1>5, <2>1 DEF Reconcile, maps, ServicesFit, SyncsRegistered
<1>6. ASSUME NEW w \in Workers, FindInformer(w) PROVE ServicesFit'
  <2>1. CASE registry[key[w]] # 0
    <3>1. infMu = {} /\ informers[registry[key[w]]].synced
      BY <1>6, <2>1, RegisteredSynced DEF FindInformer, TypeOK
    <3> QED BY <1>4, <1>6, <2>1, <3>1 DEF FindInformer
  <2>2. CASE registry[key[w]] = 0
    BY <1>3, <1>6, <2>2 DEF FindInformer, TypeOK
  <2> QED BY <2>1, <2>2
<1>7. ASSUME NEW w \in Workers, LockInformers(w) PROVE ServicesFit'
  <2>1. CASE registry[key[w]] # 0
    <3>1. infMu = {} /\ informers[registry[key[w]]].synced
      BY <1>7, <2>1, RegisteredSynced DEF LockInformers, TypeOK
    <3> QED BY <1>4, <1>7, <2>1, <3>1 DEF LockInformers
  <2>2. CASE registry[key[w]] = 0
    <3>1. /\ infMu = {} /\ services' = services /\ key' = key /\ pc' = [pc EXCEPT ![w] = "sync"]
          /\ registry' = [registry EXCEPT ![key[w]] = Len(informers) + 1]
      BY <1>7, <2>2 DEF LockInformers, Start
    <3>2. Len(informers) + 1 # 0 /\ services[key[w]] = 0 /\ key[w] \in Keys
      BY <2>2 DEF ServicesFit, ServicesRegistered, TypeOK
    <3>3. \A v \in Workers : pc'[v] = "sync" => v = w
      BY <3>1 DEF LocksHeld, TypeOK
    <3>4. registry'[key[w]] # 0 /\ \A k \in Keys : services[k] # 0 => registry'[k] = registry[k]
      BY <3>1, <3>2 DEF TypeOK
    <3> QED BY <1>2, <3>1, <3>2, <3>3, <3>4
  <2> QED BY <2>1, <2>2
<1>8. ASSUME NEW w \in Workers, Synced(w) PROVE ServicesFit'
  <2>1. pc[w] = "sync" /\ registry[key[w]] # 0
    BY <1>8 DEF Synced, ServicesFit, SyncsRegistered
  <2> QED BY <1>4, <1>8, <2>1 DEF Synced
<1>9. ASSUME NEW w \in Workers, SyncTimeout(w) PROVE ServicesFit'
  <2>1. /\ pc[w] = "sync" /\ infMu = {w} /\ services' = services /\ key' = key
        /\ registry' = [registry EXCEPT ![key[w]] = 0]
    BY <1>9 DEF SyncTimeout, LocksHeld, TypeOK
  <2>2. \A v \in Workers : pc'[v] # "sync"
    BY <1>9, <2>1 DEF SyncTimeout, GiveUp, LocksHeld, TypeOK
  <2>3. services[key[w]] = 0
    BY <2>1 DEF ServicesFit, SyncsRegistered
  <2>4. \A k \in Keys : services[k] # 0 => registry'[k] = registry[k]
    BY <2>1, <2>3 DEF TypeOK
  <2> QED BY <1>2, <2>1, <2>2, <2>4
<1>10. ASSUME NEW w \in Workers, FindService(w) \/ LockServices(w) \/ Evaluate(w)
       PROVE  ServicesFit'
  <2>1. UNCHANGED <<services, registry, key>>
    BY <1>10 DEF FindService, LockServices, Evaluate, maps
  <2>2. \A v \in Workers : pc'[v] = "sync" => pc[v] = "sync"
    BY <1>10 DEF FindService, LockServices, Evaluate, TypeOK
  <2> QED BY <1>3, <2>1, <2>2
<1>11. ASSUME NEW g \in Kinds, Change(g) PROVE ServicesFit'
  BY <1>3, <1>11 DEF Change, worker, maps
<1>12. ASSUME NEW i \in 1 .. Len(informers), InformerSyncs(i) PROVE ServicesFit'
  BY <1>3, <1>12 DEF InformerSyncs, worker
<1>13. ASSUME NEW p \in Probes, NEW what, Ask(p, what) \/ Snapshot(p) \/ AnswerProbe(p)
       PROVE ServicesFit'
  BY <1>3, <1>13 DEF Ask, Snapshot, AnswerProbe, worker, maps
<1>14. CASE UNCHANGED vars
  BY <1>3, <1>14 DEF vars
<1> QED
  BY <1>5, <1>6, <1>7, <1>8, <1>9, <1>10, <1>11, <1>12, <1>13, <1>14 DEF Next, Step

-----------------------------------------------------------------------------
(* What workers and probes read.                                           *)

LEMMA ListsInductive ==
    ASSUME TypeOK, LocksHeld, RegistryTrue, ServicesFit, ListsSynced, [Next]_vars
    PROVE  ListsSynced'
<1> USE DEF Goto
<1>1. /\ Grows
      /\ \A w \in Workers : lister[w] # 0 => lister[w] \in 1 .. Len(informers)
      /\ \A k \in Keys : registry[k] # 0 => registry[k] \in 1 .. Len(informers)
  BY StepGrows DEF TypeOK
<1> DEFINE Reads(w) == /\ lister'[w] # 0 /\ informers'[lister'[w]].synced
                       /\ informers'[lister'[w]].key = key'[w]
<1>2. ASSUME NEW v \in Workers, pc[v] = "evaluate", lister'[v] = lister[v], key'[v] = key[v]
      PROVE  Reads(v)
  <2>1. lister[v] \in 1 .. Len(informers)
    BY <1>1, <1>2 DEF ListsSynced
  <2> QED BY <1>1, <1>2, <2>1 DEF Grows, ListsSynced
<1>3. ASSUME UNCHANGED <<lister, key>>, \A v \in Workers : pc'[v] = "evaluate" => pc[v] = "evaluate"
      PROVE  ListsSynced'
  BY <1>2, <1>3 DEF ListsSynced
\* Worker w starts to evaluate from the synced informer i of its key.
<1>4. ASSUME NEW w \in Workers, NEW i \in 1 .. Len(informers), informers[i].synced,
             informers[i].key = key[w], pc' = [pc EXCEPT ![w] = "evaluate"],
             lister' = [lister EXCEPT ![w] = i], key' = key
      PROVE  ListsSynced'
  <2>1. Reads(w)
    BY <1>1, <1>4 DEF Grows, TypeOK
  <2>2. ASSUME NEW v \in Workers, v # w, pc'[v] = "evaluate" PROVE Reads(v)
    <3>1. pc[v] = "evaluate" /\ lister'[v] = lister[v] /\ key'[v] = key[v]
      BY <1>4, <2>2 DEF TypeOK
    <3> QED BY <1>2, <3>1
  <2> QED BY <2>1, <2>2 DEF ListsSynced
<1>5. ASSUME NEW w \in Workers, NEW k \in Keys, Reconcile(w, k) PROVE ListsSynced'
  <2> SUFFICES ASSUME NEW v \in Workers, pc'[v] = "evaluate" PROVE Reads(v)
    BY DEF ListsSynced
  <2>1. pc[v] = "evaluate" /\ lister'[v] = lister[v] /\ key'[v] = key[v]
    BY <1>5 DEF Reconcile, TypeOK
  <2> QED BY <1>2, <2>1
<1>6. ASSUME NEW w \in Workers, FindService(w) \/ LockServices(w) PROVE ListsSynced'
  <2> DEFINE i == services[key[w]]
  <2>1. CASE i # 0
    <3>1. i = registry[key[w]] /\ i \in 1 .. Len(informers)
      BY <1>1, <2>1 DEF ServicesFit, ServicesRegistered, TypeOK
    <3>2. informers[i].synced /\ informers[i].key = key[w]
      BY <2>1, <3>1 DEF ServicesFit, ServicesSynced, RegistryTrue, TypeOK
    <3>3. pc' = [pc EXCEPT ![w] = "evaluate"] /\ lister' = [lister EXCEPT ![w] = i] /\ key' = key
      BY <1>6, <2>1 DEF FindService, LockServices
    <3> HIDE DEF i
    <3> QED BY <1>4, <3>1, <3>2, <3>3
  <2>2. CASE i = 0
    <3>1. /\ UNCHANGED <<lister, key>>
          /\ pc' = [pc EXCEPT ![w] = "lockServices"] \/ pc' = [pc EXCEPT ![w] = "informer"]
      BY <1>6, <2>2 DEF FindService, LockServices
    <3>2. \A v \in Workers : pc'[v] = "evaluate" => pc[v] = "evaluate"
      BY <3>1 DEF TypeOK
    <3> QED BY <1>3, <3>1, <3>2
  <2> QED BY <2>1, <2>2
<1>7. ASSUME NEW w \in Workers, Obtain(w, registry[key[w]]), key' = key, registry[key[w]] # 0,
             informers[registry[key[w]]].synced
      PROVE  ListsSynced'
  <2> DEFINE i == registry[key[w]]
  <2>1. key[w] \in Keys
    BY DEF TypeOK
  <2>2. i \in 1 .. Len(informers) /\ informers[i].key = key[w] /\ informers[i].synced
    BY <1>1, <1>7, <2>1 DEF RegistryTrue
  <2>3. pc' = [pc EXCEPT ![w] = "evaluate"] /\ lister' = [lister EXCEPT ![w] = i]
    BY <1>7 DEF Obtain
  <2> HIDE DEF i
  <2> QED BY <1>4, <1>7, <2>2, <2>3
<1>8. ASSUME NEW w \in Workers, FindInformer(w) \/ LockInformers(w) PROVE ListsSynced'
  <2>1. CASE registry[key[w]] # 0
    <3>1. informers[registry[key[w]]].synced
      BY <1>8, <2>1, RegisteredSynced DEF FindInformer, LockInformers, TypeOK
    <3> QED BY <1>7, <1>8, <2>1, <3>1 DEF FindInformer, LockInformers
  <2>2. CASE registry[key[w]] = 0
    <3>1. /\ UNCHANGED <<lister, key>>
          /\ pc' = [pc EXCEPT ![w] = "lockInformers"] \/ pc' = [pc EXCEPT ![w] = "sync"]
      BY <1>8, <2>2 DEF FindInformer, LockInformers, Start
    <3>2. \A v \in Workers : pc'[v] = "evaluate" => pc[v] = "evaluate"
      BY <3>1 DEF TypeOK
    <3> QED BY <1>3, <3>1, <3>2
  <2> QED BY <2>1, <2>2
<1>9. ASSUME NEW w \in Workers, Synced(w) PROVE ListsSynced'
  <2>1. registry[key[w]] # 0
    BY <1>9 DEF Synced, ServicesFit, SyncsRegistered
  <2> QED BY <1>7, <1>9, <2>1 DEF Synced
<1>10. ASSUME NEW w \in Workers, SyncTimeout(w) PROVE ListsSynced'
  <2>1. \A v \in Workers : pc'[v] = "evaluate" => pc[v] = "evaluate"
    BY <1>10 DEF SyncTimeout, GiveUp, TypeOK
  <2> QED BY <1>3, <1>10, <2>1 DEF SyncTimeout
<1>11. ASSUME NEW w \in Workers, Evaluate(w) PROVE ListsSynced'
  <2> SUFFICES ASSUME NEW v \in Workers, pc'[v] = "evaluate" PROVE Reads(v)
    BY DEF ListsSynced
  <2>1. pc[v] = "evaluate" /\ lister'[v] = lister[v] /\ key'[v] = key[v]
    BY <1>11 DEF Evaluate, TypeOK
  <2> QED BY <1>2, <2>1
<1>12. ASSUME NEW g \in Kinds, Change(g) PROVE ListsSynced'
  BY <1>3, <1>12 DEF Change, worker
<1>13. ASSUME NEW i \in 1 .. Len(informers), InformerSyncs(i) PROVE ListsSynced'
  BY <1>3, <1>13 DEF InformerSyncs, worker
<1>14. ASSUME NEW p \in Probes, NEW what, Ask(p, what) \/ Snapshot(p) \/ AnswerProbe(p)
       PROVE ListsSynced'
  BY <1>3, <1>14 DEF Ask, Snapshot, AnswerProbe, worker
<1>15. CASE UNCHANGED vars
  BY <1>3, <1>15 DEF vars
<1> QED
  BY <1>5, <1>6, <1>8, <1>9, <1>10, <1>11, <1>12, <1>13, <1>14, <1>15 DEF Next, Step

LEMMA ProbesInductive ==
    ASSUME TypeOK, RegistryTrue, ProbesSynced, NeverUnready, [Next]_vars
    PROVE  ProbesSynced' /\ NeverUnready'
<1>1. Grows /\ \A p \in Probes : seen[p] \subseteq 1 .. Len(informers)
  BY StepGrows DEF TypeOK
<1>2. \A p \in Probes : \A i \in seen[p] : informers'[i].synced
  BY <1>1 DEF Grows, ProbesSynced
<1>3. ASSUME UNCHANGED probe PROVE ProbesSynced' /\ NeverUnready'
  BY <1>2, <1>3 DEF probe, ProbesSynced, NeverUnready
<1>4. ASSUME NEW p \in Probes, NEW what, Ask(p, what) PROVE ProbesSynced' /\ NeverUnready'
  BY <1>2, <1>4 DEF Ask, ProbesSynced, NeverUnready, TypeOK
<1>5. ASSUME NEW p \in Probes, Snapshot(p) PROVE ProbesSynced' /\ NeverUnready'
  <2>1. \A i \in {registry[k] : k \in Keys} \ {0} : informers[i].synced
    BY <1>5 DEF Snapshot, RegistryTrue
  <2>2. informers' = informers /\ verdict' = verdict
    BY <1>5 DEF Snapshot, maps
  <2>3. \A q \in Probes : seen'[q] = seen[q] \/ seen'[q] = {registry[k] : k \in Keys} \ {0}
    BY <1>5 DEF Snapshot, TypeOK
  <2>4. ProbesSynced'
    BY <2>1, <2>2, <2>3 DEF ProbesSynced
  <2> QED BY <2>2, <2>4 DEF NeverUnready
<1>6. ASSUME NEW p \in Probes, AnswerProbe(p) PROVE ProbesSynced' /\ NeverUnready'
  <2>1. \A q \in Probes : verdict'[q] = verdict[q] \/ verdict'[q] = "ok"
    BY <1>6 DEF AnswerProbe, ProbesSynced, TypeOK
  <2>2. informers' = informers /\ \A q \in Probes : seen'[q] \subseteq seen[q]
    BY <1>6 DEF AnswerProbe, maps, TypeOK
  <2> QED BY <2>1, <2>2 DEF ProbesSynced, NeverUnready
<1>7. ASSUME NEW w \in Workers,
             \/ FindService(w) \/ LockServices(w) \/ FindInformer(w) \/ LockInformers(w)
             \/ Synced(w) \/ SyncTimeout(w) \/ Evaluate(w)
      PROVE  UNCHANGED probe
  BY <1>7 DEF FindService, LockServices, FindInformer, LockInformers, Synced, SyncTimeout, Evaluate,
              probe
<1>8. ASSUME NEW w \in Workers, NEW k \in Keys, Reconcile(w, k) PROVE UNCHANGED probe
  BY <1>8 DEF Reconcile, probe
<1>9. ASSUME NEW g \in Kinds, Change(g) PROVE UNCHANGED probe
  BY <1>9 DEF Change, probe
<1>10. ASSUME NEW i \in 1 .. Len(informers), InformerSyncs(i) PROVE UNCHANGED probe
  BY <1>10 DEF InformerSyncs, probe
<1>11. CASE UNCHANGED vars
  BY <1>3, <1>11 DEF vars, probe
<1> QED
  BY <1>3, <1>4, <1>5, <1>6, <1>7, <1>8, <1>9, <1>10, <1>11 DEF Next, Step

-----------------------------------------------------------------------------
(* The theorems.                                                           *)

LEMMA InitHolds == Init => TypeOK /\ IInv
<1> SUFFICES ASSUME Init PROVE TypeOK /\ IInv
  OBVIOUS
<1>1. informers \in Seq(Informer) /\ Len(informers) = 0
  BY EmptySeq DEF Init
<1>2. TypeOK
  <2>1. /\ registry \in [Keys -> 0 .. Len(informers)] /\ services \in [Keys -> 0 .. Len(informers)]
        /\ lister \in [Workers -> 0 .. Len(informers)]
        /\ seen \in [Probes -> SUBSET (1 .. Len(informers))]
    BY <1>1 DEF Init
  <2>2. /\ pc \in [Workers -> {"idle", "service", "lockServices", "informer", "lockInformers",
                              "sync", "evaluate"}]
        /\ asked \in [Probes -> {"no", "ready", "live", "readySeen", "liveSeen"}]
        /\ verdict \in [Probes -> {"none", "ok", "unready"}]
        /\ resolved \in [Kinds -> {"none", "right", "wrong"}] /\ direct \in [Workers -> BOOLEAN]
    BY DEF Init
  <2> QED BY <1>1, <2>1, <2>2, BudgetAssumption DEF Init, TypeOK
<1>3. LocksHeld /\ RegistryTrue /\ SyncsRegistered /\ ListsSynced
  BY DEF Init, LocksHeld, RegistryTrue, SyncsRegistered, ListsSynced
<1>4. ServicesRegistered /\ ServicesSynced /\ ProbesSynced /\ NeverUnready
  BY DEF Init, ServicesRegistered, ServicesSynced, ProbesSynced, NeverUnready
<1> QED BY <1>2, <1>3, <1>4 DEF IInv

\* The locks, the maps and their readers agree in every interleaving of workers,
\* syncs, timeouts and probes (evaluatePolicy, getOrCreateResourceInformer).
THEOREM RegistryInvariant == Spec => [](TypeOK /\ IInv)
<1>1. ASSUME TypeOK, IInv, [Next]_vars PROVE (TypeOK /\ IInv)'
  <2>1. ServicesFit
    BY <1>1 DEF IInv, ServicesFit
  <2>2. TypeOK' /\ LocksHeld' /\ RegistryTrue'
    BY <1>1, TypeInductive, LocksInductive, RegistryInductive DEF IInv
  <2>3. ServicesFit' /\ ListsSynced'
    BY <1>1, <2>1, ServicesInductive, ListsInductive DEF IInv
  <2>4. ProbesSynced' /\ NeverUnready'
    BY <1>1, ProbesInductive DEF IInv
  <2> QED BY <2>2, <2>3, <2>4 DEF IInv, ServicesFit
<1> QED BY <1>1, InitHolds, PTL DEF Spec

\* The types of InformerRegistry: every index into the informers is one.
THEOREM RegistryTyped == Spec => []TypeOK
BY RegistryInvariant, PTL

\* No evaluation lists a store that has not synced or belongs to another target
\* (getOrCreateResourceInformer, GetResourceListerForPolicy).
THEOREM ListsAlwaysSynced == Spec => []ListsSynced
<1>1. IInv => ListsSynced
  BY DEF IInv
<1> QED BY <1>1, RegistryInvariant, PTL

\* A cached service never reads an informer that was dropped or replaced
\* (getOrCreateEvaluationService).
THEOREM ServicesAlwaysRegistered == Spec => []ServicesRegistered
<1>1. IInv => ServicesRegistered
  BY DEF IInv
<1> QED BY <1>1, RegistryInvariant, PTL

\* Readiness is never negative on the leader (ReadinessCheck).
THEOREM ReadinessNeverNegative == Spec => []NeverUnready
<1>1. IInv => NeverUnready
  BY DEF IInv
<1> QED BY <1>1, RegistryInvariant, PTL

-----------------------------------------------------------------------------
(* InformerRegistry implements SharedStores.                               *)

\* Only an evaluation reads a store.
ReadsToEvaluate == \A w \in Workers : pc[w] # "evaluate" => lister[w] = 0

LEMMA ReadsInductive == ASSUME TypeOK, ReadsToEvaluate, [Next]_vars PROVE ReadsToEvaluate'
<1> USE DEF Goto
<1>1. ASSUME NEW w \in Workers, lister' = [lister EXCEPT ![w] = lister'[w]], pc' = [pc EXCEPT ![w] = pc'[w]],
             pc'[w] = "evaluate" \/ lister'[w] = 0
      PROVE  ReadsToEvaluate'
  BY <1>1 DEF ReadsToEvaluate, TypeOK
<1>2. ASSUME NEW w \in Workers, FindService(w) \/ LockServices(w) PROVE ReadsToEvaluate'
  BY <1>2 DEF FindService, LockServices, ReadsToEvaluate, TypeOK
<1>3. ASSUME NEW w \in Workers, NEW i, Obtain(w, i) PROVE ReadsToEvaluate'
  BY <1>3 DEF Obtain, ReadsToEvaluate, TypeOK
<1>4. ASSUME NEW w \in Workers, FindInformer(w) \/ LockInformers(w) PROVE ReadsToEvaluate'
  <2>1. CASE registry[key[w]] # 0
    BY <1>3, <1>4, <2>1 DEF FindInformer, LockInformers
  <2>2. CASE registry[key[w]] = 0
    BY <1>4, <2>2 DEF FindInformer, LockInformers, Start, ReadsToEvaluate, TypeOK
  <2> QED BY <2>1, <2>2
<1>5. ASSUME NEW w \in Workers, Synced(w) PROVE ReadsToEvaluate'
  BY <1>3, <1>5 DEF Synced
<1>6. ASSUME NEW w \in Workers, SyncTimeout(w) PROVE ReadsToEvaluate'
  BY <1>6 DEF SyncTimeout, GiveUp, ReadsToEvaluate, TypeOK
<1>7. ASSUME NEW w \in Workers, Evaluate(w) PROVE ReadsToEvaluate'
  BY <1>7 DEF Evaluate, ReadsToEvaluate, TypeOK
<1>8. ASSUME NEW w \in Workers, NEW k \in Keys, Reconcile(w, k) PROVE ReadsToEvaluate'
  BY <1>8 DEF Reconcile, ReadsToEvaluate, TypeOK
<1>9. ASSUME UNCHANGED <<pc, lister>> PROVE ReadsToEvaluate'
  BY <1>9 DEF ReadsToEvaluate
<1>10. ASSUME NEW g \in Kinds, Change(g) PROVE ReadsToEvaluate'
  BY <1>9, <1>10 DEF Change, worker
<1>11. ASSUME NEW i \in 1 .. Len(informers), InformerSyncs(i) PROVE ReadsToEvaluate'
  BY <1>9, <1>11 DEF InformerSyncs, worker
<1>12. ASSUME NEW p \in Probes, NEW what, Ask(p, what) \/ Snapshot(p) \/ AnswerProbe(p)
       PROVE ReadsToEvaluate'
  BY <1>9, <1>12 DEF Ask, Snapshot, AnswerProbe, worker
<1>13. CASE UNCHANGED vars
  BY <1>9, <1>13 DEF vars
<1> QED
  BY <1>2, <1>4, <1>5, <1>6, <1>7, <1>8, <1>10, <1>11, <1>12, <1>13 DEF Next, Step

mapped == <<Opened, key, lister>>

\* While nobody syncs the stores are those of the registry.
LEMMA OpenedAtRest ==
    (\A w \in Workers : pc[w] # "sync") => Opened = [k \in Keys |-> registry[k]]
BY DEF Opened, Awaited

\* What a service or the registry has for the key of a worker is the store of its target.
LEMMA ShareRefines ==
    ASSUME TypeOK, NEW w \in Workers, lister[w] = 0, ~Awaited(key[w]), registry[key[w]] # 0,
           lister' = [lister EXCEPT ![w] = registry[key[w]]], key' = key, Opened' = Opened
    PROVE  Stores!Share(w)
<1>1. Opened[key[w]] = registry[key[w]]
  BY DEF Opened, TypeOK
<1> QED BY <1>1 DEF Stores!Share

LEMMA FindRefines ==
    ASSUME TypeOK, IInv, ReadsToEvaluate, NEW w \in Workers, FindService(w) \/ LockServices(w)
    PROVE  Stores!Share(w) \/ UNCHANGED mapped
<1> USE DEF Goto
<1>1. Opened' = Opened
  <2>1. UNCHANGED <<registry, key>>
    BY DEF FindService, LockServices, maps
  <2>2. \A v \in Workers : pc'[v] = "sync" <=> pc[v] = "sync"
    BY DEF FindService, LockServices, TypeOK
  <2> QED BY <2>1, <2>2 DEF Opened, Awaited
<1>2. CASE services[key[w]] = 0
  BY <1>1, <1>2 DEF FindService, LockServices, mapped
<1>3. CASE services[key[w]] # 0
  <2>1. key[w] \in Keys /\ lister[w] = 0
    BY DEF FindService, LockServices, ReadsToEvaluate, TypeOK
  <2>2. registry[key[w]] = services[key[w]] /\ ~Awaited(key[w])
    BY <1>3, <2>1 DEF IInv, ServicesRegistered, SyncsRegistered, Awaited
  <2>3. lister' = [lister EXCEPT ![w] = services[key[w]]] /\ key' = key
    BY <1>3 DEF FindService, LockServices
  <2> QED BY <1>1, <1>3, <2>1, <2>2, <2>3, ShareRefines
<1> QED BY <1>2, <1>3

LEMMA InformerRefines ==
    ASSUME TypeOK, TypeOK', IInv, LocksHeld', ReadsToEvaluate, NEW w \in Workers,
           FindInformer(w) \/ LockInformers(w)
    PROVE  Stores!Share(w) \/ UNCHANGED mapped
<1> USE DEF Goto
<1>1. infMu = {} /\ \A v \in Workers : pc[v] # "sync"
  BY DEF FindInformer, LockInformers, IInv, LocksHeld
<1>2. key[w] \in Keys /\ lister[w] = 0 /\ key' = key /\ ~Awaited(key[w])
  BY <1>1 DEF FindInformer, LockInformers, ReadsToEvaluate, Awaited, TypeOK
<1>3. CASE registry[key[w]] # 0
  <2>1. registry' = registry /\ pc' = [pc EXCEPT ![w] = "evaluate"]
        /\ lister' = [lister EXCEPT ![w] = registry[key[w]]]
    BY <1>3 DEF FindInformer, LockInformers, Obtain
  <2>2. Opened' = Opened
    BY <1>1, <1>2, <2>1 DEF Opened, Awaited, TypeOK
  <2> QED BY <1>2, <1>3, <2>1, <2>2, ShareRefines
<1>4. CASE registry[key[w]] = 0
  <2>1. lister' = lister
    BY <1>4 DEF FindInformer, LockInformers, Start
  <2>2. Opened' = Opened
    <3>1. CASE FindInformer(w)
      BY <1>1, <1>2, <1>4, <3>1 DEF FindInformer, Opened, Awaited, TypeOK
    <3>2. CASE LockInformers(w)
      <4>1. pc' = [pc EXCEPT ![w] = "sync"] /\ \A k \in Keys \ {key[w]} : registry'[k] = registry[k]
        BY <1>4, <3>2 DEF LockInformers, Start, TypeOK
      <4>2. \A k \in Keys : Awaited(k)' <=> k = key[w]
        BY <1>1, <1>2, <4>1 DEF Awaited, TypeOK
      <4>3. \A k \in Keys : ~Awaited(k)
        BY <1>1 DEF Awaited
      <4> QED BY <1>2, <1>4, <4>1, <4>2, <4>3 DEF Opened
    <3> QED BY <3>1, <3>2
  <2> QED BY <1>2, <2>1, <2>2 DEF mapped
<1> QED BY <1>3, <1>4

\* The end of a sync opens the store, which is nobody else's.
LEMMA SyncedRefines ==
    ASSUME TypeOK, IInv, ReadsToEvaluate, NEW w \in Workers, Synced(w) PROVE Stores!Open(w)
<1> USE DEF Goto
<1> DEFINE i == registry[key[w]]
<1>1. /\ pc[w] = "sync" /\ \A v \in Workers : pc[v] = "sync" => v = w
      /\ key[w] \in Keys /\ lister[w] = 0 /\ i # 0
  BY DEF Synced, IInv, LocksHeld, SyncsRegistered, ReadsToEvaluate, TypeOK
<1>2. /\ pc' = [pc EXCEPT ![w] = "evaluate"] /\ lister' = [lister EXCEPT ![w] = i]
      /\ UNCHANGED <<registry, key>>
  BY DEF Synced, Obtain
<1>3. \A k \in Keys : Awaited(k) <=> k = key[w]
  BY <1>1 DEF Awaited
<1>4. \A k \in Keys : ~Awaited(k)'
  BY <1>1, <1>2 DEF Awaited, TypeOK
<1>5. /\ Opened = [k \in Keys |-> IF k = key[w] THEN 0 ELSE registry[k]]
      /\ Opened' = [k \in Keys |-> registry[k]]
  BY <1>2, <1>3, <1>4 DEF Opened
<1>6. lister'[w] = i
  BY <1>2 DEF TypeOK
<1>7. ASSUME NEW k \in Keys PROVE Opened[k] # i
  <2>1. CASE k = key[w]
    BY <1>1, <1>5, <2>1
  <2>2. CASE k # key[w]
    <3>1. Opened[k] = registry[k]
      BY <1>5, <2>2
    <3>2. registry[k] # 0 => informers[registry[k]].key = k
      BY DEF IInv, RegistryTrue
    <3>3. informers[i].key = key[w]
      BY <1>1 DEF IInv, RegistryTrue
    <3> QED BY <1>1, <2>2, <3>1, <3>2, <3>3
  <2> QED BY <2>1, <2>2
<1>8. Opened' = [Opened EXCEPT ![key[w]] = i] /\ Opened[key[w]] = 0
  BY <1>1, <1>5
<1> HIDE DEF i
<1> QED BY <1>1, <1>2, <1>6, <1>7, <1>8 DEF Stores!Open

LEMMA TimeoutRefines ==
    ASSUME TypeOK, IInv, NEW w \in Workers, SyncTimeout(w) PROVE UNCHANGED mapped
<1> USE DEF Goto
<1>1. /\ pc[w] = "sync" /\ \A v \in Workers : pc[v] = "sync" => v = w
      /\ key[w] \in Keys
  BY DEF SyncTimeout, IInv, LocksHeld, TypeOK
<1>2. /\ \A v \in Workers : pc'[v] # "sync"
      /\ registry' = [registry EXCEPT ![key[w]] = 0] /\ UNCHANGED <<key, lister>>
  BY <1>1 DEF SyncTimeout, GiveUp, TypeOK
<1>3. /\ \A k \in Keys : Awaited(k) <=> k = key[w]
      /\ \A k \in Keys : ~Awaited(k)'
  BY <1>1, <1>2 DEF Awaited
<1>4. Opened' = Opened
  BY <1>1, <1>2, <1>3 DEF Opened, TypeOK
<1> QED BY <1>2, <1>4 DEF mapped

LEMMA StepRefines ==
    ASSUME TypeOK, TypeOK', IInv, LocksHeld', ReadsToEvaluate, [Next]_vars
    PROVE  Stores!Next \/ UNCHANGED mapped
<1> USE DEF Goto
<1>1. ASSUME UNCHANGED <<registry, pc, key, lister>> PROVE UNCHANGED mapped
  BY <1>1 DEF mapped, Opened, Awaited
<1>2. ASSUME NEW w \in Workers, NEW k \in Keys, Reconcile(w, k) PROVE Stores!Choose(w, k)
  <2>1. /\ pc[w] = "idle" /\ pc' = [pc EXCEPT ![w] = "service"] /\ key' = [key EXCEPT ![w] = k]
        /\ UNCHANGED <<registry, lister>> /\ lister[w] = 0
    BY <1>2 DEF Reconcile, maps, ReadsToEvaluate
  <2>2. \A v \in Workers : /\ pc'[v] = "sync" <=> pc[v] = "sync"
                           /\ pc[v] = "sync" => key'[v] = key[v]
    BY <2>1 DEF TypeOK
  <2>3. Opened' = Opened
    BY <2>1, <2>2 DEF Opened, Awaited
  <2> QED BY <2>1, <2>3 DEF Stores!Choose
<1>3. ASSUME NEW w \in Workers, Evaluate(w) PROVE Stores!End(w)
  <2>1. /\ pc[w] = "evaluate" /\ pc' = [pc EXCEPT ![w] = "idle"] /\ UNCHANGED <<registry, key>>
        /\ lister' = [lister EXCEPT ![w] = 0] /\ lister[w] # 0
    BY <1>3 DEF Evaluate, IInv, ListsSynced
  <2>2. \A v \in Workers : pc'[v] = "sync" <=> pc[v] = "sync"
    BY <2>1 DEF TypeOK
  <2>3. Opened' = Opened
    BY <2>1, <2>2 DEF Opened, Awaited
  <2> QED BY <2>1, <2>3 DEF Stores!End
<1>4. ASSUME NEW w \in Workers, Step(w) PROVE Stores!Next \/ UNCHANGED mapped
  BY <1>3, <1>4, FindRefines, InformerRefines, SyncedRefines, TimeoutRefines DEF Step, Stores!Next
<1>5. ASSUME NEW g \in Kinds, Change(g) PROVE UNCHANGED mapped
  BY <1>1, <1>5 DEF Change, worker, maps
<1>6. ASSUME NEW i \in 1 .. Len(informers), InformerSyncs(i) PROVE UNCHANGED mapped
  BY <1>1, <1>6 DEF InformerSyncs, worker
<1>7. ASSUME NEW p \in Probes, NEW what, Ask(p, what) \/ Snapshot(p) \/ AnswerProbe(p)
      PROVE UNCHANGED mapped
  BY <1>1, <1>7 DEF Ask, Snapshot, AnswerProbe, worker, maps
<1>8. CASE UNCHANGED vars
  BY <1>1, <1>8 DEF vars
<1> QED BY <1>2, <1>4, <1>5, <1>6, <1>7, <1>8 DEF Next, Stores!Next

\* Two workers, services, fallbacks, failed syncs and late discovery never show as more than
\* stores that are opened once and shared (getOrCreateEvaluationService,
\* getOrCreateResourceInformer, evaluatePolicy).
THEOREM StoresAlwaysShared == Spec => StoresShared
<1>1. Init => Stores!Init /\ ReadsToEvaluate
  BY OpenedAtRest DEF Init, Stores!Init, ReadsToEvaluate
<1>2. TypeOK /\ ReadsToEvaluate /\ [Next]_vars => ReadsToEvaluate'
  BY ReadsInductive
<1>3. IInv => LocksHeld
  BY DEF IInv
<1>4. TypeOK /\ TypeOK' /\ IInv /\ LocksHeld' /\ ReadsToEvaluate /\ [Next]_vars => [Stores!Next]_(Stores!vars)
  BY StepRefines DEF Stores!vars, mapped
<1> QED BY <1>1, <1>2, <1>3, <1>4, RegistryInvariant, PTL DEF Spec, StoresShared, Stores!Spec
=============================================================================
