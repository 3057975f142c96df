------------------------ MODULE PolicyLifecycleProofs ------------------------
(***************************************************************************)
(* Proofs about PolicyLifecycle, for all manifests and objects of the      *)
(* right shape, any length of a second and any width of an integer.        *)
(***************************************************************************)
EXTENDS PolicyLifecycle, TLAPS

-----------------------------------------------------------------------------
(* What admission does to the parts of a manifest.                         *)

\* Pruning and mutation leave the TTL, the conditions and dry run alone, turn the
\* namespace "" into "*" at most, and nothing is paused any more.
LEMMA FormParts ==
    ASSUME NEW p, IsPolicy(p), NEW q \in StoredForms(p)
    PROVE  /\ q.ttl = p.ttl /\ q.conditions = p.conditions
           /\ q.behavior.dryRun = p.behavior.dryRun
           /\ q.behavior.gracePeriodSeconds = p.behavior.gracePeriodSeconds
           /\ q.behavior \in {p.behavior, MutateBehavior(p.behavior)}
           /\ q.targetResource.matchLabels = p.targetResource.matchLabels
           /\ q.targetResource.matchExpressions = p.targetResource.matchExpressions
           /\ q.targetResource.matchFields = p.targetResource.matchFields
           /\ q.targetResource.apiVersion = p.targetResource.apiVersion
           /\ q.targetResource.kind = p.targetResource.kind /\ q.paused = FALSE
           /\ \/ q.targetResource.namespace = p.targetResource.namespace
              \/ p.targetResource.namespace = "" /\ q.targetResource.namespace = "*"
<1> DEFINE t == p.targetResource
<1>1. CASE q = Prune(p)
  BY <1>1 DEF IsPolicy, Prune
<1>2. CASE q = MutatePolicy(Prune(p))
  <2>1. /\ Prune(p).ttl = p.ttl /\ Prune(p).conditions = p.conditions
        /\ Prune(p).behavior = p.behavior /\ Prune(p).targetResource = t
        /\ Prune(p).paused = FALSE
    BY DEF IsPolicy, Prune
  <2>2. /\ q.ttl = p.ttl /\ q.conditions = p.conditions /\ q.behavior = MutateBehavior(p.behavior)
        /\ q.targetResource = [t EXCEPT !.namespace = IF @ = "" THEN "*" ELSE @]
        /\ q.paused = FALSE
    BY <1>2, <2>1 DEF IsPolicy, Prune, MutatePolicy
  <2>3. /\ MutateBehavior(p.behavior).dryRun = p.behavior.dryRun
        /\ MutateBehavior(p.behavior).gracePeriodSeconds = p.behavior.gracePeriodSeconds
    BY DEF IsPolicy, BehaviorSpec, MutateBehavior
  <2>4. /\ q.targetResource.matchLabels = t.matchLabels
        /\ q.targetResource.matchExpressions = t.matchExpressions
        /\ q.targetResource.matchFields = t.matchFields
        /\ q.targetResource.apiVersion = t.apiVersion /\ q.targetResource.kind = t.kind
        /\ q.targetResource.namespace = IF t.namespace = "" THEN "*" ELSE t.namespace
    BY <2>2 DEF IsPolicy
  <2> QED  BY <2>2, <2>3, <2>4
<1> QED  BY <1>1, <1>2 DEF StoredForms

\* The webhook's defaults are those of the controller.
LEMMA SameBehavior ==
    ASSUME NEW b \in BehaviorSpec, NEW c, c = MutateBehavior(b)
    PROVE  /\ ResolveBatchSize(c, DefaultBatchSize) = ResolveBatchSize(b, DefaultBatchSize)
           /\ ResolveRate(c) = ResolveRate(b)
           /\ DeleteOptions(c) = DeleteOptions(b)
<1>1. /\ c.maxDeletionsPerSecond = OrDefault(b.maxDeletionsPerSecond, DefaultMaxDeletionsPerSecond)
      /\ c.batchSize = OrDefault(b.batchSize, DefaultBatchSize)
      /\ c.propagationPolicy = IF b.propagationPolicy = "" THEN "Background" ELSE b.propagationPolicy
      /\ c.gracePeriodSeconds = b.gracePeriodSeconds
  BY DEF MutateBehavior, BehaviorSpec
<1>3. ResolveBatchSize(c, DefaultBatchSize) = ResolveBatchSize(b, DefaultBatchSize)
  <2>1. CASE b.batchSize = 0
    <3>1. c.batchSize = 50
      BY <1>1, <2>1 DEF OrDefault, DefaultBatchSize
    <3> QED  BY <2>1, <3>1 DEF DefaultBatchSize, ResolveBatchSize
  <2>2. CASE b.batchSize # 0
    <3>1. c.batchSize = b.batchSize
      BY <1>1, <2>2 DEF OrDefault
    <3> QED  BY <3>1 DEF ResolveBatchSize
  <2> QED  BY <2>1, <2>2
<1>4. ResolveRate(c) = ResolveRate(b)
  <2>1. CASE b.maxDeletionsPerSecond = 0
    <3>1. c.maxDeletionsPerSecond = 10
      BY <1>1, <2>1 DEF OrDefault, DefaultMaxDeletionsPerSecond
    <3> QED  BY <2>1, <3>1 DEF DefaultMaxDeletionsPerSecond, ResolveRate
  <2>2. CASE b.maxDeletionsPerSecond # 0
    <3>1. c.maxDeletionsPerSecond = b.maxDeletionsPerSecond
      BY <1>1, <2>2 DEF OrDefault
    <3> QED  BY <3>1 DEF ResolveRate
  <2> QED  BY <2>1, <2>2
<1>5. DeleteOptions(c) = DeleteOptions(b)
  BY <1>1 DEF DeleteOptions, Propagation
<1> QED  BY <1>3, <1>4, <1>5

\* Whatever the environment says, the batch size of a process is that of its flags.
LEMMA FlagsWin ==
    ASSUME NEW s \in Setups
    PROVE  Settings(s).BatchSize = s.flags.BatchSize /\ s.flags.BatchSize \in Int
<1>1. s.flags \in ControllerConfig
  BY ConfigAssumption DEF Setup
<1>2. "BatchSize" \in DOMAIN LoadFromEnv(NewControllerConfig, s.env)
  BY DEF LoadFromEnv, NewControllerConfig
<1> QED  BY <1>1, <1>2 DEF Settings, WithFlags, ControllerConfig

\* Whatever is in a stored behaviour, the controller gets positive numbers out of it, if the
\* flags have a positive batch size or else the policy has.
LEMMA PositiveNumbers ==
    ASSUME NEW b \in BehaviorSpec, NEW c \in {b, MutateBehavior(b)},
           NEW configured \in Int, configured > 0 \/ c.batchSize > 0
    PROVE  ResolveBatchSize(c, configured) > 0 /\ ResolveRate(c) > 0
<1>1. c.batchSize \in Int /\ c.maxDeletionsPerSecond \in Int
  <2>1. CASE c = b
    BY <2>1 DEF BehaviorSpec
  <2>2. CASE c = MutateBehavior(b)
    BY <2>2 DEF MutateBehavior, BehaviorSpec, OrDefault, DefaultMaxDeletionsPerSecond, DefaultBatchSize
  <2> QED  BY <2>1, <2>2
<1> QED
  BY <1>1 DEF ResolveBatchSize, ResolveRate, DefaultMaxDeletionsPerSecond

-----------------------------------------------------------------------------
(* Type correctness, and what is known of a stored policy.                 *)

\* Only what a manifest may become is stored, and what is marked as validated was.
Validated == checked => stored # None /\ ValidatePolicy(stored)

LEMMA TypedInit == Init => TypeOK /\ Validated
<1> SUFFICES ASSUME Init  PROVE TypeOK /\ Validated
  OBVIOUS
<1>1. now \in 0 .. MaxTime
  BY ConfigAssumption DEF Init
<1> QED  BY <1>1 DEF Init, TypeOK, Validated

LEMMA TypedStep == TypeOK /\ Validated /\ [Next]_vars => TypeOK' /\ Validated'
<1> SUFFICES ASSUME TypeOK, Validated, [Next]_vars  PROVE TypeOK' /\ Validated'
  OBVIOUS
<1> USE DEF TypeOK, Validated
<1>1. ASSUME NEW p \in Manifests, NEW q \in StoredForms(p), NEW validating \in BOOLEAN, Store(p, q, validating)
      PROVE  TypeOK' /\ Validated'
  BY <1>1, NoneAssumption DEF Store, StoredForms
<1>2. CASE \E p \in Manifests, mutating, validating \in BOOLEAN : CreatePolicy(p, mutating, validating)
  BY <1>1, <1>2 DEF CreatePolicy, StoredForms
<1>3. CASE \E p \in Manifests, validating \in BOOLEAN : UpdatePolicy(p, validating)
  BY <1>1, <1>3 DEF UpdatePolicy, StoredForms
<1>4. CASE RemovePolicy
  BY <1>4 DEF RemovePolicy
<1>5. CASE \E o \in Objects : ChangeObject(o)
  BY <1>5 DEF ChangeObject, policy
<1>9. CASE (\E s \in Setups : StartProcess(s)) \/ EndProcess
  BY <1>9 DEF StartProcess, EndProcess, policy
<1>6. CASE Tick
  BY <1>6, ConfigAssumption DEF Tick, policy
<1>7. CASE \E later \in 0 .. MaxTime : Evaluate(later)
  BY <1>7 DEF Evaluate, policy
<1>8. CASE UNCHANGED vars
  BY <1>8 DEF vars
<1> QED
  BY <1>2, <1>3, <1>4, <1>5, <1>6, <1>7, <1>8, <1>9 DEF Next

\* Every reachable state is well typed, and a policy that is marked as validated would
\* pass validation as it is stored.
THEOREM LifecycleTyped == Spec => [](TypeOK /\ Validated)
BY TypedInit, TypedStep, PTL DEF Spec

LEMMA StoredShape ==
    ASSUME TypeOK, stored # None
    PROVE  declared \in Manifests /\ IsPolicy(declared) /\ stored \in StoredForms(declared)
BY ManifestAssumption DEF TypeOK

-----------------------------------------------------------------------------
(* Admission and evaluation.                                               *)

\* A TTL that validation accepts has a mode, for any object and at any time.
LEMMA ValidTTLHasMode ==
    ASSUME NEW ttl, ValidateTTL(ttl), NEW o, NEW t
    PROVE  CalculateExpirationTime(o, ttl, t).err # "ErrNoValidTTLConfiguration"
<1>1. \/ ttl.secondsAfterCreation # {}
      \/ ttl.fieldPath # ""
      \/ ttl.relativeTo # "" /\ ttl.secondsAfter # {}
  BY DEF ValidateTTL
<1>2. \A e : Expires(e).err = "none" /\ Fails(e).err = e
  BY DEF Expires, Fails
<1>3. \A f : FieldError(f, ttl) # "ErrNoValidTTLConfiguration"
  BY DEF FieldError
<1>4. \A f : RelativeExpiration(f, ttl, t).err # "ErrNoValidTTLConfiguration"
  BY <1>2 DEF RelativeExpiration
<1> QED  BY <1>1, <1>2, <1>3, <1>4 DEF CalculateExpirationTime, FieldAt

\* AdmittedHasTTL: a validated policy has a TTL for the evaluator, whatever the object.
THEOREM AdmittedAlwaysHasTTL == Spec => []AdmittedHasTTL
<1>1. TypeOK /\ Validated => AdmittedHasTTL
  BY ValidTTLHasMode DEF Validated, ValidatePolicy, AdmittedHasTTL
<1> QED  BY <1>1, LifecycleTyped, PTL

\* DefaultsTransparent: a policy is carried out alike, mutated or not.
THEOREM DefaultsAlwaysTransparent == Spec => []DefaultsTransparent
<1>1. TypeOK => DefaultsTransparent
  <2> SUFFICES ASSUME TypeOK, stored # None, process # None,
                      Settings(process).BatchSize = DefaultBatchSize
               PROVE  Carried(stored) = Carried(declared)
    BY DEF DefaultsTransparent
  <2>1. /\ stored.behavior \in {declared.behavior, MutateBehavior(declared.behavior)}
        /\ stored.behavior.dryRun = declared.behavior.dryRun /\ declared.behavior \in BehaviorSpec
    BY StoredShape, FormParts DEF IsPolicy
  <2> QED  BY <2>1, SameBehavior DEF Carried, BatchSize
<1> QED  BY <1>1, LifecycleTyped, PTL

\* A validated policy has no negative batch size, and a mutated one has one.
LEMMA MutatedHasSize ==
    ASSUME TypeOK, Validated, stored # None, checked, stored = MutatePolicy(Prune(declared))
    PROVE  stored.behavior.batchSize > 0
<1>1. IsPolicy(declared) /\ stored.behavior.batchSize >= 0
  BY StoredShape DEF Validated, ValidatePolicy, ValidateBehavior
<1>2. stored.behavior = MutateBehavior(declared.behavior)
  BY <1>1 DEF IsPolicy, Prune, MutatePolicy
<1>3. declared.behavior \in BehaviorSpec
  BY <1>1 DEF IsPolicy
<1>4. stored.behavior.batchSize = OrDefault(declared.behavior.batchSize, DefaultBatchSize)
  BY <1>2, <1>3 DEF MutateBehavior, BehaviorSpec
<1>5. declared.behavior.batchSize \in Int
  BY <1>3 DEF BehaviorSpec
<1> QED  BY <1>1, <1>4, <1>5 DEF OrDefault, DefaultBatchSize

\* BatchUsable: batches and rates are positive unless the operator's own flag is not, and
\* even then for a policy that both webhooks have seen.
THEOREM BatchAlwaysUsable == Spec => []BatchUsable
<1>1. TypeOK /\ Validated => BatchUsable
  <2> SUFFICES ASSUME TypeOK, Validated, stored # None, process # None, Sized
               PROVE  BatchSize(stored) > 0 /\ ResolveRate(stored.behavior) > 0
    BY DEF BatchUsable
  <2>1. stored.behavior \in {declared.behavior, MutateBehavior(declared.behavior)} /\ declared.behavior \in BehaviorSpec
    BY StoredShape, FormParts DEF IsPolicy
  <2>2. process \in Setups
    BY DEF TypeOK
  <2>3. Settings(process).BatchSize = process.flags.BatchSize /\ Settings(process).BatchSize \in Int
    BY <2>2, FlagsWin
  <2>4. Settings(process).BatchSize > 0 \/ stored.behavior.batchSize > 0
    BY <2>3, MutatedHasSize DEF Sized
  <2> QED  BY <2>1, <2>3, <2>4, PositiveNumbers DEF BatchSize
<1> QED  BY <1>1, LifecycleTyped, PTL

-----------------------------------------------------------------------------
(* Deletions.                                                              *)

\* DeletionDeclared: only what the author's own words select is deleted.
THEOREM DeletionAlwaysDeclared == Spec => DeletionDeclared
<1>1. TypeOK /\ [Next]_vars => [Deleted => AsDeclared]_vars
  <2> SUFFICES ASSUME TypeOK, [Next]_vars, Deleted  PROVE AsDeclared
    OBVIOUS
  <2>1. PICK later \in 0 .. MaxTime : Evaluate(later)
    BY NoneAssumption DEF Next, vars, Deleted, CreatePolicy, UpdatePolicy, Store, RemovePolicy, ChangeObject, Tick,
                              StartProcess, EndProcess
  <2>2. /\ stored # None /\ ~stored.behavior.dryRun
        /\ Judgement(stored, object, now, later) = "TTLExpired"
    BY <2>1 DEF Evaluate, Deleted
  <2>3. MatchesSelectors(object, stored.targetResource) /\ MeetsConditions(object, stored.conditions)
    BY <2>2 DEF Judgement
  <2>4. /\ declared \in Manifests /\ IsPolicy(declared) /\ stored \in StoredForms(declared)
    BY <2>2, StoredShape
  <2>5. MatchesSelectors(object, declared.targetResource)
    BY <2>3, <2>4, FormParts DEF MatchesSelectors, NamespaceMatches, SelectorMatches, Converts
  <2> QED  BY <2>2, <2>3, <2>4, <2>5, FormParts, NoneAssumption DEF AsDeclared
<1> QED  BY <1>1, LifecycleTyped, PTL DEF Spec, DeletionDeclared

-----------------------------------------------------------------------------
(* Expiry.                                                                 *)

LEMMA SmallModulo ==
    ASSUME NEW n \in Nat \ {0}, NEW a \in 0 .. n - 1
    PROVE  a % n = a
OBVIOUS

\* A duration that an int64 can express is not wrapped.
LEMMA DurationExact ==
    ASSUME NEW s \in Int, -Half <= s * Second, s * Second < Half
    PROVE  Duration(s) = s * Second
<1> DEFINE d == s * Second
<1>1. d \in Int /\ Half \in Nat \ {0}
  BY ClockAssumption
<1> HIDE DEF d
<1>2. d + Half \in 0 .. (2 * Half) - 1 /\ 2 * Half \in Nat \ {0}
  BY <1>1 DEF d
<1>3. (d + Half) % (2 * Half) = d + Half
  BY <1>2, SmallModulo
<1> QED  BY <1>1, <1>3 DEF Duration, d

\* The term of an optional number of seconds.
LEMMA TermOf ==
    ASSUME NEW c \in Int, NEW S, IsOptional(S), S # {},
           NEW T, T = {c} \X S, \A term \in T : Representable(term), NEW later \in Int
    PROVE  /\ c + Duration(The(S)) \in Int /\ c + Duration(The(S)) # ZeroTime
           /\ (\E term \in T : later > term[1] + term[2] * Second) <=> later > c + Duration(The(S))
<1>1. PICK s : s \in S /\ S = {s} /\ s \in Int
  BY DEF IsOptional
<1>2. The(S) = s
  BY <1>1 DEF The
<1>3. T = {<<c, s>>}
  BY <1>1
<1>4. Representable(<<c, s>>)
  BY <1>3
<1>5. Duration(s) = s * Second /\ c + s * Second # ZeroTime /\ s * Second \in Int
  BY <1>1, <1>4, DurationExact, ClockAssumption DEF Representable
<1>6. (\E term \in T : later > term[1] + term[2] * Second) <=> later > c + s * Second
  <2>1. \A term \in T : term[1] = c /\ term[2] = s
    BY <1>3
  <2>2. \E term \in T : TRUE
    BY <1>3
  <2> QED  BY <2>1, <2>2
<1> QED  BY <1>2, <1>5, <1>6

LEMMA JudgedByTime ==
    ASSUME NEW o, NEW ttl, NEW t, NEW later \in Int, NEW at \in Int, at # ZeroTime,
           CalculateExpirationTime(o, ttl, t) = Expires(at)
    PROVE  ShouldDelete(o, ttl, t, later) = "TTLExpired" <=> later > at
<1>1. Expires(at).err = "none" /\ Expires(at).at = at
  BY DEF Expires
<1> QED  BY <1>1 DEF ShouldDelete

LEMMA JudgedByError ==
    ASSUME NEW o, NEW ttl, NEW t, NEW later, NEW e, e # "none",
           CalculateExpirationTime(o, ttl, t) = Fails(e)
    PROVE  ShouldDelete(o, ttl, t, later) = "TTLExpired" <=> e = "ErrRelativeTTLExpired"
<1>1. Fails(e).err = e
  BY DEF Fails
<1> QED  BY <1>1 DEF ShouldDelete

\* Apart from the ignored default, the field gives the documented seconds.
LEMMA FieldAsDocumented ==
    ASSUME NEW field, NEW ttl, IsTTL(ttl), ~(DOMAIN ttl.mappings = {} /\ field.kind = "string"),
           field.kind = "int" => field.value \in Int
    PROVE  /\ FieldSeconds(field, ttl) = DocumentedSeconds(field, ttl)
           /\ IsOptional(FieldSeconds(field, ttl))
<1> DEFINE mapped == {ttl.mappings[s] : s \in {s \in DOMAIN ttl.mappings : field.kind = "string" /\ field.value = s}}
<1>1. CASE field.kind = "int"
  BY <1>1 DEF FieldSeconds, DocumentedSeconds, IsOptional
<1>2. CASE field.kind # "int" /\ field.kind # "string"
  <2>1. mapped = {}
    BY <1>2
  <2> QED  BY <1>2, <2>1 DEF FieldSeconds, DocumentedSeconds, IsTTL
<1>3. CASE field.kind = "string" /\ field.value \in DOMAIN ttl.mappings
  <2>1. mapped = {ttl.mappings[field.value]} /\ ttl.mappings[field.value] \in Int
    BY <1>3 DEF IsTTL
  <2> QED  BY <1>3, <2>1 DEF FieldSeconds, DocumentedSeconds, IsOptional
<1>4. CASE field.kind = "string" /\ field.value \notin DOMAIN ttl.mappings
  <2>1. mapped = {} /\ DOMAIN ttl.mappings # {}
    BY <1>4
  <2> QED  BY <1>4, <2>1 DEF FieldSeconds, DocumentedSeconds, IsTTL
<1> QED  BY <1>1, <1>2, <1>3, <1>4

\* One decision, in any of the four modes.
LEMMA DecisionIsExact ==
    ASSUME NEW o, IsObject(o), NEW ttl, IsTTL(ttl),
           HasPaths(o, ttl), ~DefaultIgnored(o, ttl), \A term \in Terms(o, ttl) : Representable(term),
           NEW t \in Int, NEW later \in Int, t <= later
    PROVE  ShouldDelete(o, ttl, t, later) = "TTLExpired"
             <=> \E term \in Terms(o, ttl) : later > term[1] + term[2] * Second
<1>0. o.created \in Int
  BY DEF IsObject
<1>1. CASE ttl.secondsAfterCreation # {}
  <2>1. Terms(o, ttl) = {o.created} \X ttl.secondsAfterCreation
    BY <1>1 DEF Terms
  <2>2. CalculateExpirationTime(o, ttl, t) = Expires(o.created + Duration(The(ttl.secondsAfterCreation)))
    BY <1>1 DEF CalculateExpirationTime, FieldAt
  <2>3. IsOptional(ttl.secondsAfterCreation)
    BY DEF IsTTL
  <2> DEFINE at == o.created + Duration(The(ttl.secondsAfterCreation))
  <2>4. /\ at \in Int /\ at # ZeroTime
        /\ (\E term \in Terms(o, ttl) : later > term[1] + term[2] * Second) <=> later > at
    BY <1>0, <1>1, <2>1, <2>3, TermOf
  <2> HIDE DEF at
  <2>5. ShouldDelete(o, ttl, t, later) = "TTLExpired" <=> later > at
    BY <2>2, <2>4, JudgedByTime DEF at
  <2> QED  BY <2>4, <2>5
<1>2. CASE ttl.secondsAfterCreation = {} /\ ttl.fieldPath # ""
  <2> DEFINE field == o.fields[ttl.fieldPath]
             S == FieldSeconds(field, ttl)
  <2>1. S = DocumentedSeconds(field, ttl) /\ IsOptional(S)
    <3>1. field.kind = "int" => field.value \in Int
      BY <1>2 DEF IsObject, HasPaths
    <3>2. ~(DOMAIN ttl.mappings = {} /\ field.kind = "string")
      BY <1>2 DEF DefaultIgnored
    <3> QED  BY <3>1, <3>2, FieldAsDocumented
  <2>2. Terms(o, ttl) = {o.created} \X S
    BY <1>2, <2>1 DEF Terms
  <2>3. CASE S # {}
    <3>1. CalculateExpirationTime(o, ttl, t) = Expires(o.created + Duration(The(S)))
      BY <1>2, <2>3 DEF CalculateExpirationTime, FieldAt
    <3> DEFINE at == o.created + Duration(The(S))
    <3> HIDE DEF S
    <3>2. /\ at \in Int /\ at # ZeroTime
          /\ (\E term \in Terms(o, ttl) : later > term[1] + term[2] * Second) <=> later > at
      BY <1>0, <2>1, <2>2, <2>3, TermOf
    <3> HIDE DEF at
    <3>3. ShouldDelete(o, ttl, t, later) = "TTLExpired" <=> later > at
      BY <3>1, <3>2, JudgedByTime DEF at
    <3> QED  BY <3>2, <3>3
  <2>4. CASE S = {}
    <3>1. CalculateExpirationTime(o, ttl, t) = Fails(FieldError(field, ttl))
      BY <1>2, <2>4 DEF CalculateExpirationTime, FieldAt
    <3>2. FieldError(field, ttl) \notin {"none", "ErrRelativeTTLExpired"}
      BY DEF FieldError
    <3> HIDE DEF S
    <3> QED  BY <2>2, <2>4, <3>1, <3>2, JudgedByError
  <2> QED  BY <2>3, <2>4
<1>3. CASE ttl.secondsAfterCreation = {} /\ ttl.fieldPath = "" /\ ttl.relativeTo # "" /\ ttl.secondsAfter # {}
  <2> DEFINE field == o.fields[ttl.relativeTo]
  <2>1. Terms(o, ttl) = Timestamps(field) \X ttl.secondsAfter /\ IsOptional(ttl.secondsAfter)
    BY <1>3 DEF Terms, IsTTL
  <2>2. CalculateExpirationTime(o, ttl, t) = RelativeExpiration(field, ttl, t)
    BY <1>3 DEF CalculateExpirationTime, FieldAt
  <2>3. CASE field.kind = "string" /\ field.value \in DOMAIN TimeOf
    <3> DEFINE c == TimeOf[field.value]
               at == c + Duration(The(ttl.secondsAfter))
    <3>1. Timestamps(field) = {c} /\ c \in Int
      BY <2>3, ParseAssumption DEF Timestamps
    <3>2. /\ at \in Int /\ at # ZeroTime
          /\ (\E term \in Terms(o, ttl) : later > term[1] + term[2] * Second) <=> later > at
      <4>1. Terms(o, ttl) = {c} \X ttl.secondsAfter
        BY <2>1, <3>1
      <4> HIDE DEF c
      <4> QED  BY <1>3, <2>1, <3>1, <4>1, TermOf
    <3>3. CASE t > at
      <4>1. CalculateExpirationTime(o, ttl, t) = Fails("ErrRelativeTTLExpired")
        BY <2>2, <2>3, <3>3 DEF RelativeExpiration
      <4> HIDE DEF at
      <4>2. later > at
        BY <3>2, <3>3
      <4>3. ShouldDelete(o, ttl, t, later) = "TTLExpired"
        BY <4>1, JudgedByError
      <4> QED  BY <3>2, <4>2, <4>3
    <3>4. CASE ~(t > at)
      <4>1. CalculateExpirationTime(o, ttl, t) = Expires(at)
        BY <2>2, <2>3, <3>4 DEF RelativeExpiration
      <4> HIDE DEF at
      <4> QED  BY <3>2, <4>1, JudgedByTime
    <3> QED  BY <3>3, <3>4
  <2>4. CASE ~(field.kind = "string" /\ field.value \in DOMAIN TimeOf)
    <3>1. Timestamps(field) = {}
      BY <2>4 DEF Timestamps
    <3>2. \E x \in {"ErrRelativeTimestampFieldNotFound", "ErrInvalidTimestampFormat"} :
            CalculateExpirationTime(o, ttl, t) = Fails(x)
      BY <2>2, <2>4 DEF RelativeExpiration
    <3> QED  BY <2>1, <3>1, <3>2, JudgedByError
  <2> QED  BY <2>3, <2>4
<1>4. CASE ttl.secondsAfterCreation = {} /\ ttl.fieldPath = "" /\ ~(ttl.relativeTo # "" /\ ttl.secondsAfter # {})
  <2>1. Terms(o, ttl) = {}
    BY <1>4 DEF Terms
  <2>2. CalculateExpirationTime(o, ttl, t) = Fails("ErrNoValidTTLConfiguration")
    BY <1>4 DEF CalculateExpirationTime, FieldAt
  <2>3. ShouldDelete(o, ttl, t, later) # "TTLExpired"
    BY <2>2, JudgedByError
  <2> QED  BY <2>1, <2>3
<1> QED  BY <1>1, <1>2, <1>3, <1>4

\* DecisionExact: an object is found expired exactly from the documented moment on.
THEOREM DecisionAlwaysExact == Spec => []DecisionExact
<1>1. TypeOK => DecisionExact
  <2> SUFFICES ASSUME TypeOK, stored # None, object # None, ~DefaultIgnored(object, stored.ttl),
                      \A term \in Terms(object, stored.ttl) : Representable(term),
                      NEW later \in now .. MaxTime
               PROVE  ShouldDelete(object, stored.ttl, now, later) = "TTLExpired"
                        <=> \E term \in Terms(object, stored.ttl) : later > term[1] + term[2] * Second
    BY DEF DecisionExact
  <2>1. /\ declared \in Manifests /\ IsTTL(declared.ttl) /\ stored.ttl = declared.ttl
    BY StoredShape, FormParts DEF IsPolicy
  <2>2. object \in Objects /\ now \in Int /\ later \in Int /\ now <= later
    BY ConfigAssumption DEF TypeOK
  <2>3. IsObject(object) /\ HasPaths(object, stored.ttl)
    BY <2>1, <2>2, ObjectAssumption
  <2> QED  BY <2>1, <2>2, <2>3, DecisionIsExact
<1> QED  BY <1>1, LifecycleTyped, PTL

-----------------------------------------------------------------------------
(* From what was declared to the deletion.                                 *)

\* The durations and the field that the proof of exactness covers.
Covered ==
    /\ ~DefaultIgnored(object, declared.ttl)
    /\ \A term \in Terms(object, declared.ttl) : Representable(term)

\* The declared TTL is over at t.
Passed(t) == \E term \in Terms(object, declared.ttl) : t > term[1] + term[2] * Second

\* What an evaluation finds of the stored policy is what the declared one says.
LEMMA JudgedAsDeclared ==
    ASSUME TypeOK, stored # None, object # None, Covered,
           NEW later \in Int, now <= later
    PROVE  Judgement(stored, object, now, later) = "TTLExpired"
             <=> /\ Parses(declared.targetResource)
                 /\ MatchesSelectors(object, declared.targetResource)
                 /\ MeetsConditions(object, declared.conditions)
                 /\ Passed(later)
<1>1. declared \in Manifests /\ IsPolicy(declared) /\ stored \in StoredForms(declared)
  BY StoredShape
<1>2. /\ stored.ttl = declared.ttl /\ stored.conditions = declared.conditions /\ ~stored.paused
      /\ Parses(stored.targetResource) <=> Parses(declared.targetResource)
  BY <1>1, FormParts DEF Parses
<1>3. MatchesSelectors(object, stored.targetResource) <=> MatchesSelectors(object, declared.targetResource)
  <2>1. NamespaceMatches(object, stored.targetResource) <=> NamespaceMatches(object, declared.targetResource)
    BY <1>1, FormParts DEF NamespaceMatches
  <2>2. Converts(stored.targetResource) <=> Converts(declared.targetResource)
    BY <1>1, FormParts DEF Converts
  <2>3. SelectorMatches(object.labels, stored.targetResource)
          <=> SelectorMatches(object.labels, declared.targetResource)
    BY <1>1, FormParts DEF SelectorMatches
  <2> QED BY <1>1, <2>1, <2>2, <2>3, FormParts DEF MatchesSelectors
<1>4. MatchesSelectors(object, stored.targetResource) => Watched(object, stored.targetResource)
  BY DEF MatchesSelectors, NamespaceMatches, Watched, NormalizeNamespace
<1>5. ShouldDelete(object, stored.ttl, now, later) = "TTLExpired" <=> Passed(later)
  <2>1. IsObject(object) /\ HasPaths(object, declared.ttl) /\ IsTTL(declared.ttl) /\ now \in Int
    BY <1>1, ConfigAssumption, ObjectAssumption DEF TypeOK, IsPolicy
  <2> QED BY <1>2, <2>1, DecisionIsExact DEF Covered, Passed
<1> QED BY <1>2, <1>3, <1>4, <1>5 DEF Judgement

\* An evaluation removes the object exactly if the author's own words select it and their
\* TTL is over, whichever webhooks, schema and settings were in between: nothing goes before
\* its time, and what is due does not stay (CreatePolicy, EvaluatePolicy, shouldDelete).
THEOREM DeletionExact ==
    Spec => [][\A later \in 0 .. MaxTime : Evaluate(later) /\ Covered =>
                  (Deleted <=> /\ Parses(declared.targetResource) /\ AsDeclared
                               /\ BatchSize(stored) > 0 /\ Passed(later))]_vars
<1> DEFINE Exact ==
      \A later \in 0 .. MaxTime : Evaluate(later) /\ Covered =>
          (Deleted <=> /\ Parses(declared.targetResource) /\ AsDeclared
                       /\ BatchSize(stored) > 0 /\ Passed(later))
<1>1. ASSUME TypeOK PROVE Exact
  <2> SUFFICES ASSUME NEW later \in 0 .. MaxTime, Evaluate(later), Covered
               PROVE  Deleted <=> /\ Parses(declared.targetResource) /\ AsDeclared
                                  /\ BatchSize(stored) > 0 /\ Passed(later)
    OBVIOUS
  <2>1. /\ stored # None /\ object # None /\ later \in Int /\ now <= later
        /\ object' = IF Judgement(stored, object, now, later) = "TTLExpired"
                        /\ ~stored.behavior.dryRun /\ BatchSize(stored) > 0
                     THEN None ELSE object
    BY <1>1, ConfigAssumption DEF Evaluate, TypeOK
  <2>2. Deleted <=> /\ Judgement(stored, object, now, later) = "TTLExpired"
                    /\ ~stored.behavior.dryRun /\ BatchSize(stored) > 0
    BY <2>1 DEF Deleted
  <2>3. /\ declared \in Manifests /\ stored.behavior.dryRun = declared.behavior.dryRun
        /\ declared # None
    BY <1>1, <2>1, StoredShape, FormParts, NoneAssumption
  <2> HIDE DEF Exact
  <2> QED BY <1>1, <2>1, <2>2, <2>3, JudgedAsDeclared DEF AsDeclared
<1>2. TypeOK => [Exact]_vars
  BY <1>1
<1> HIDE DEF Exact
<1>3. Spec => [][Exact]_vars
  BY <1>2, LifecycleTyped, PTL DEF Spec
<1> QED BY <1>3 DEF Exact

-----------------------------------------------------------------------------
(* Expiry and time.                                                        *)

LEMMA OptionalDuration ==
    ASSUME NEW S, IsOptional(S), S # {} PROVE Duration(The(S)) \in Int
<1>1. The(S) \in Int
  BY DEF IsOptional, The
<1>2. \A s \in Int : Duration(s) \in Int
  BY ClockAssumption DEF Duration
<1> QED BY <1>1, <1>2

\* The errors that no passing of time mends or causes.
LastingErrors == {"ErrNoValidTTLConfiguration", "ErrFieldPathNotFound", "ErrNoMappingForFieldValue",
                  "ErrRelativeTimestampFieldNotFound", "ErrInvalidTimestampFormat"}

\* The time of expiry is fixed, or there is none; only for a relative TTL does the clock
\* decide how the calculation puts it.
LEMMA CalculationShape ==
    ASSUME NEW o, IsObject(o), NEW ttl, IsTTL(ttl), HasPaths(o, ttl)
    PROVE  \/ \E at \in Int : \A t \in Int : CalculateExpirationTime(o, ttl, t) = Expires(at)
           \/ \E e \in LastingErrors :
                 \A t \in Int : CalculateExpirationTime(o, ttl, t) = Fails(e)
           \/ \E at \in Int : \A t \in Int :
                 CalculateExpirationTime(o, ttl, t)
                   = IF t > at THEN Fails("ErrRelativeTTLExpired") ELSE Expires(at)
<1>0. o.created \in Int
  BY DEF IsObject
<1>1. CASE ttl.secondsAfterCreation # {}
  <2>1. o.created + Duration(The(ttl.secondsAfterCreation)) \in Int
    BY <1>0, <1>1, OptionalDuration DEF IsTTL
  <2>2. \A t \in Int : CalculateExpirationTime(o, ttl, t)
                         = Expires(o.created + Duration(The(ttl.secondsAfterCreation)))
    BY <1>1 DEF CalculateExpirationTime
  <2> QED BY <2>1, <2>2
<1>2. CASE ttl.secondsAfterCreation = {} /\ ttl.fieldPath # ""
  <2> DEFINE field == o.fields[ttl.fieldPath]
             S == FieldSeconds(field, ttl)
  <2>1. IsOptional(S)
    <3>1. CASE DOMAIN ttl.mappings = {} /\ field.kind = "string"
      BY <3>1 DEF FieldSeconds, IsOptional
    <3>2. field.kind = "int" => field.value \in Int
      BY <1>2 DEF IsObject, HasPaths
    <3> QED BY <3>1, <3>2, FieldAsDocumented
  <2>2. CASE S # {}
    <3>1. o.created + Duration(The(S)) \in Int
      BY <1>0, <2>1, <2>2, OptionalDuration
    <3>2. \A t \in Int : CalculateExpirationTime(o, ttl, t) = Expires(o.created + Duration(The(S)))
      BY <1>2, <2>2 DEF CalculateExpirationTime, FieldAt
    <3> QED BY <3>1, <3>2
  <2>3. CASE S = {}
    <3>1. FieldError(field, ttl) \in LastingErrors
      BY DEF FieldError, LastingErrors
    <3>2. \A t \in Int : CalculateExpirationTime(o, ttl, t) = Fails(FieldError(field, ttl))
      BY <1>2, <2>3 DEF CalculateExpirationTime, FieldAt
    <3> QED BY <3>1, <3>2
  <2> QED BY <2>2, <2>3
<1>3. CASE ttl.secondsAfterCreation = {} /\ ttl.fieldPath = "" /\ ttl.relativeTo # "" /\ ttl.secondsAfter # {}
  <2> DEFINE field == o.fields[ttl.relativeTo]
             at == TimeOf[field.value] + Duration(The(ttl.secondsAfter))
  <2>1. \A t \in Int : CalculateExpirationTime(o, ttl, t) = RelativeExpiration(field, ttl, t)
    BY <1>3 DEF CalculateExpirationTime, FieldAt
  <2>2. CASE field.kind = "string" /\ field.value \in DOMAIN TimeOf
    <3>1. at \in Int
      <4>1. Duration(The(ttl.secondsAfter)) \in Int
        BY <1>3, OptionalDuration DEF IsTTL
      <4>2. TimeOf[field.value] \in Int
        BY <2>2, ParseAssumption
      <4> QED BY <4>1, <4>2
    <3>2. \A t \in Int : RelativeExpiration(field, ttl, t)
                           = IF t > at THEN Fails("ErrRelativeTTLExpired") ELSE Expires(at)
      BY <2>2 DEF RelativeExpiration
    <3> HIDE DEF at
    <3> QED BY <2>1, <3>1, <3>2
  <2>3. CASE ~(field.kind = "string" /\ field.value \in DOMAIN TimeOf)
    <3> DEFINE e == IF field.kind # "string" THEN "ErrRelativeTimestampFieldNotFound"
                    ELSE "ErrInvalidTimestampFormat"
    <3>1. \A t \in Int : RelativeExpiration(field, ttl, t) = Fails(e)
      BY <2>3 DEF RelativeExpiration
    <3>2. e \in LastingErrors
      BY DEF LastingErrors
    <3> HIDE DEF e
    <3> QED BY <2>1, <3>1, <3>2
  <2> QED BY <2>2, <2>3
<1>4. CASE ttl.secondsAfterCreation = {} /\ ttl.fieldPath = "" /\ ~(ttl.relativeTo # "" /\ ttl.secondsAfter # {})
  <2>1. \A t \in Int : CalculateExpirationTime(o, ttl, t) = Fails("ErrNoValidTTLConfiguration")
    BY <1>4 DEF CalculateExpirationTime
  <2> QED BY <2>1 DEF LastingErrors
<1> QED BY <1>1, <1>2, <1>3, <1>4

\* What two readings of the clock call expired, later ones do as well.
LEMMA ExpiryStays ==
    ASSUME NEW o, IsObject(o), NEW ttl, IsTTL(ttl), HasPaths(o, ttl),
           NEW t \in Int, NEW later \in Int, NEW u \in Int, NEW latest \in Int,
           t <= u, later <= latest, u <= latest,
           ShouldDelete(o, ttl, t, later) = "TTLExpired"
    PROVE  ShouldDelete(o, ttl, u, latest) = "TTLExpired"
<1>1. /\ \A x : Expires(x).err = "none" /\ Expires(x).at = x
      /\ \A e : Fails(e).err = e
  BY DEF Expires, Fails
<1>2. ASSUME NEW at \in Int, \A x \in Int : CalculateExpirationTime(o, ttl, x) = Expires(at)
      PROVE  ShouldDelete(o, ttl, u, latest) = "TTLExpired"
  <2>1. later > at /\ at # ZeroTime
    BY <1>1, <1>2 DEF ShouldDelete
  <2> QED BY <1>1, <1>2, <2>1 DEF ShouldDelete
<1>3. ASSUME NEW e \in LastingErrors,
             \A x \in Int : CalculateExpirationTime(o, ttl, x) = Fails(e)
      PROVE  FALSE
  BY <1>1, <1>3 DEF ShouldDelete, LastingErrors
<1>4. ASSUME NEW at \in Int,
             \A x \in Int : CalculateExpirationTime(o, ttl, x)
                              = IF x > at THEN Fails("ErrRelativeTTLExpired") ELSE Expires(at)
      PROVE  ShouldDelete(o, ttl, u, latest) = "TTLExpired"
  <2>1. CASE u > at
    <3>1. CalculateExpirationTime(o, ttl, u).err = "ErrRelativeTTLExpired"
      BY <1>1, <1>4, <2>1
    <3> QED BY <3>1 DEF ShouldDelete
  <2>2. CASE ~(u > at)
    <3>1. CalculateExpirationTime(o, ttl, t) = Expires(at) /\ CalculateExpirationTime(o, ttl, u) = Expires(at)
      BY <1>4, <2>2
    <3>2. later > at /\ at # ZeroTime
      BY <1>1, <3>1 DEF ShouldDelete
    <3> QED BY <1>1, <3>1, <3>2 DEF ShouldDelete
  <2> QED BY <2>1, <2>2
<1> QED BY <1>2, <1>3, <1>4, CalculationShape

Expired(t) == ShouldDelete(object, stored.ttl, now, t) = "TTLExpired"

\* What has expired stays expired, as long as neither the object nor the policy changes,
\* for every TTL mode and also where a duration overflows: a deletion that waits for the
\* limiter or is tried again does not lose its reason (CalculateExpirationTime and
\* shouldDelete, deleteBatchShared).
THEOREM ExpiryStable ==
    Spec => [][\A t \in now .. MaxTime :
                  stored # None /\ object # None /\ UNCHANGED <<stored, object>> /\ Expired(t)
                  => \A u \in now' .. MaxTime : u >= t => Expired(u)']_vars
<1> DEFINE Stable ==
      \A t \in now .. MaxTime :
          stored # None /\ object # None /\ UNCHANGED <<stored, object>> /\ Expired(t)
          => \A u \in now' .. MaxTime : u >= t => Expired(u)'
<1>1. ASSUME TypeOK, TypeOK', [Next]_vars PROVE [Stable]_vars
  <2> SUFFICES ASSUME NEW t \in now .. MaxTime, stored # None, object # None,
                      UNCHANGED <<stored, object>>, Expired(t),
                      NEW u \in now' .. MaxTime, u >= t
               PROVE  Expired(u)'
    OBVIOUS
  <2>1. now <= now'
    BY <1>1, ConfigAssumption
       DEF Next, vars, policy, TypeOK, CreatePolicy, UpdatePolicy, Store, RemovePolicy, ChangeObject, Tick,
           StartProcess, EndProcess, Evaluate
  <2>2. IsTTL(stored.ttl) /\ IsObject(object) /\ HasPaths(object, stored.ttl)
    BY <1>1, StoredShape, FormParts, ObjectAssumption DEF TypeOK, IsPolicy
  <2>3. now \in Int /\ now' \in Int /\ t \in Int /\ u \in Int
    BY <1>1, ConfigAssumption DEF TypeOK
  <2>4. ShouldDelete(object, stored.ttl, now', u) = "TTLExpired"
    BY <2>1, <2>2, <2>3, ExpiryStays DEF Expired
  <2> QED BY <2>4 DEF Expired
<1>2. TypeOK /\ TypeOK' /\ [Next]_vars => [Stable]_vars
  BY <1>1
<1> HIDE DEF Stable
<1>3. Spec => [][Stable]_vars
  BY <1>2, LifecycleTyped, PTL DEF Spec
<1> QED BY <1>3 DEF Stable

-----------------------------------------------------------------------------
(* The order of the webhooks.                                              *)

\* Mutating a behaviour twice is mutating it once, and it is as valid as it was.
LEMMA MutateBehaviorOnce ==
    ASSUME NEW b \in BehaviorSpec, NEW c, c = MutateBehavior(b)
    PROVE  /\ MutateBehavior(c) = c
           /\ ValidateBehavior(c) <=> ValidateBehavior(b)
           /\ c.propagationPolicy \in PropagationPolicies \cup {""}
                <=> b.propagationPolicy \in PropagationPolicies \cup {""}
<1>1. /\ c.maxDeletionsPerSecond = OrDefault(b.maxDeletionsPerSecond, DefaultMaxDeletionsPerSecond)
      /\ c.batchSize = OrDefault(b.batchSize, DefaultBatchSize)
      /\ c.propagationPolicy = IF b.propagationPolicy = "" THEN "Background" ELSE b.propagationPolicy
      /\ c.gracePeriodSeconds = b.gracePeriodSeconds
  BY DEF MutateBehavior, BehaviorSpec
<1>2. b.maxDeletionsPerSecond \in Int /\ b.batchSize \in Int
  BY DEF BehaviorSpec
<1>3. c \in [maxDeletionsPerSecond : {c.maxDeletionsPerSecond}, batchSize : {c.batchSize}, dryRun : BOOLEAN,
             propagationPolicy : {c.propagationPolicy}, gracePeriodSeconds : SUBSET Int]
  BY <1>1, <1>2 DEF MutateBehavior, BehaviorSpec
<1>4. /\ OrDefault(c.maxDeletionsPerSecond, DefaultMaxDeletionsPerSecond) = c.maxDeletionsPerSecond
      /\ OrDefault(c.batchSize, DefaultBatchSize) = c.batchSize
      /\ c.propagationPolicy # ""
  BY <1>1 DEF OrDefault, DefaultMaxDeletionsPerSecond, DefaultBatchSize
<1>5. MutateBehavior(c) = c
  BY <1>3, <1>4 DEF MutateBehavior
<1>6. c.propagationPolicy \in PropagationPolicies \cup {""}
        <=> b.propagationPolicy \in PropagationPolicies \cup {""}
  BY <1>1 DEF PropagationPolicies
<1>7. \A n \in Int, d \in Nat : OrDefault(n, d) >= 0 <=> n >= 0
  BY DEF OrDefault
<1>8. /\ c.maxDeletionsPerSecond >= 0 <=> b.maxDeletionsPerSecond >= 0
      /\ c.batchSize >= 0 <=> b.batchSize >= 0
  <2>1. DefaultMaxDeletionsPerSecond \in Nat /\ DefaultBatchSize \in Nat
    BY DEF DefaultMaxDeletionsPerSecond, DefaultBatchSize
  <2>2. /\ OrDefault(b.maxDeletionsPerSecond, DefaultMaxDeletionsPerSecond) >= 0
              <=> b.maxDeletionsPerSecond >= 0
        /\ OrDefault(b.batchSize, DefaultBatchSize) >= 0 <=> b.batchSize >= 0
    BY <1>2, <1>7, <2>1
  <2> QED BY <1>1, <2>2
<1> QED BY <1>1, <1>5, <1>6, <1>8 DEF ValidateBehavior

\* It makes no difference to what is let in whether the defaults come before the checks,
\* after them or not at all, nor how often they come: a mutated policy is accepted by the
\* schema and by the validating webhook exactly if the bare one is (mutatePolicy,
\* ValidatePolicy).
THEOREM MutationNeutral ==
    ASSUME NEW p \in Manifests, NEW q, q = Prune(p), NEW m, m = MutatePolicy(q)
    PROVE  /\ MutatePolicy(m) = m
           /\ SchemaAccepts(m) <=> SchemaAccepts(q)
           /\ ValidatePolicy(m) <=> ValidatePolicy(q)
<1>0. IsPolicy(p)
  BY ManifestAssumption
<1>1. /\ m.behavior = MutateBehavior(q.behavior) /\ q.behavior \in BehaviorSpec
      /\ m.targetResource = [q.targetResource EXCEPT !.namespace = IF @ = "" THEN "*" ELSE @]
      /\ m.ttl = q.ttl
      /\ m \in [targetResource : {m.targetResource}, ttl : {p.ttl}, conditions : {p.conditions},
                behavior : {m.behavior}, paused : BOOLEAN, evaluationInterval : SUBSET Nat]
  <2>1. /\ q \in [targetResource : {p.targetResource}, ttl : {p.ttl}, conditions : {p.conditions},
                  behavior : {p.behavior}, paused : BOOLEAN, evaluationInterval : SUBSET Nat]
        /\ p.behavior \in BehaviorSpec
    BY <1>0 DEF IsPolicy, Prune
  <2> QED BY <2>1 DEF MutatePolicy
<1> DEFINE t == q.targetResource
<1>2. t = p.targetResource
  BY <1>0 DEF Prune, IsPolicy
<1>3. t \in [apiVersion : {t.apiVersion}, kind : {t.kind}, namespace : STRING,
             matchLabels : {t.matchLabels}, matchExpressions : {t.matchExpressions},
             matchFields : {t.matchFields}]
  BY <1>0, <1>2 DEF IsPolicy
<1> HIDE DEF t
<1>4. /\ m.targetResource.apiVersion = t.apiVersion /\ m.targetResource.kind = t.kind
      /\ m.targetResource.matchLabels = t.matchLabels
      /\ m.targetResource.matchExpressions = t.matchExpressions
      /\ m.targetResource.namespace = IF t.namespace = "" THEN "*" ELSE t.namespace
  BY <1>1, <1>3 DEF t
<1>5. SchemaAccepts(m) <=> SchemaAccepts(q)
  BY <1>1, MutateBehaviorOnce DEF SchemaAccepts
<1>6. ValidateTargetResource(m.targetResource) <=> ValidateTargetResource(t)
  BY <1>4 DEF ValidateTargetResource
<1>7. ValidatePolicy(m) <=> ValidatePolicy(q)
  BY <1>1, <1>6, MutateBehaviorOnce DEF ValidatePolicy, t
<1>8. MutatePolicy(m) = m
  <2>1. m \in [targetResource : {m.targetResource}, ttl : {p.ttl}, conditions : {p.conditions},
                behavior : {m.behavior}, paused : BOOLEAN, evaluationInterval : SUBSET Nat]
    BY <1>1
  <2>2. MutateBehavior(m.behavior) = m.behavior
    BY <1>1, MutateBehaviorOnce
  <2>3. [m.targetResource EXCEPT !.namespace = IF @ = "" THEN "*" ELSE @] = m.targetResource
    BY <1>1, <1>3, <1>4 DEF t
  <2>4. MutatePolicy(m) = [m EXCEPT !.behavior = m.behavior, !.targetResource = m.targetResource]
    BY <2>1, <2>2, <2>3 DEF MutatePolicy
  <2> QED BY <2>1, <2>4
<1> QED BY <1>5, <1>7, <1>8
==============================================================================
