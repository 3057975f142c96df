------------------------ MODULE PolicyReconcileProofs ------------------------
(***************************************************************************)
(* Proofs about PolicyReconcile, for every set of policies and any number  *)
(* of edits: what the maps keep, while the manager's cache lags behind.    *)
(***************************************************************************)
EXTENDS PolicyReconcile, SequenceTheorems, TLAPS

-----------------------------------------------------------------------------
(* The inductive invariant.                                                *)

\* A version of n: no policy, or one with a UID that was handed out.
Version(n, o) == o.uid <= uids[n] /\ (o.uid = 0 => o = Absent)

Known(n) ==
    /\ stored[n].uid \in {0, uids[n]} /\ Version(n, stored[n]) /\ Version(n, cached[n])
    /\ \A j \in 1 .. Len(feed[n]) : Version(n, feed[n][j])

\* The versions still to come are of the same or of later incarnations.
Ordered(n) ==
    \A j \in 1 .. Len(feed[n]) : feed[n][j].uid # 0 =>
        /\ cached[n].uid <= feed[n][j].uid
        /\ \A i \in 1 .. j : feed[n][i].uid <= feed[n][j].uid

\* u is not younger than what the manager knows of n or is going to hear of it.
Old(n, u) ==
    /\ u <= uids[n] /\ (cached[n].uid # 0 => u <= cached[n].uid)
    /\ \A j \in 1 .. Len(feed[n]) : feed[n][j].uid # 0 => u <= feed[n][j].uid

EntriesOld(n) ==
    /\ Old(n, policyUIDs[n])
    /\ \A u \in Nat : <<n, u>> \in policySpecs => u # 0 /\ Old(n, u)

\* When the manager has seen, or will see, that n was removed, then what it tracked or
\* saw before is older than the policy that carries the name now.
Overtaken(n) ==
    stored[n].uid # 0 =>
        /\ cached[n].uid = 0 => policyUIDs[n] < stored[n].uid
        /\ \A k \in 1 .. Len(feed[n]) : feed[n][k].uid = 0 =>
              /\ policyUIDs[n] < stored[n].uid /\ cached[n].uid < stored[n].uid
              /\ \A j \in 1 .. k : feed[n][j].uid < stored[n].uid

\* What OnlyOvertakenLeak says of the specs under one name.
SpecsOvertaken(n) ==
    \A u \in Nat : <<n, u>> \in policySpecs =>
        u = policyUIDs[n] \/ (policyUIDs[n] = 0 /\ u < uids[n]) \/ u < policyUIDs[n]

NameInv(n) == Known(n) /\ Ordered(n) /\ EntriesOld(n) /\ Overtaken(n) /\ SpecsOvertaken(n)

\* The spec of the policy that is being evaluated is tracked.
EvaluatedTracked == pc = "evaluate" => <<cur, policy.uid>> \in policySpecs

\* A policy that has a limiter has a spec: the two are cleaned up together.
LimitersHaveSpecs == rateLimiters \subseteq policySpecs

IInv == (\A n \in Policies : NameInv(n)) /\ EvaluatedTracked /\ LimitersHaveSpecs

-----------------------------------------------------------------------------
(* Type correctness.                                                       *)

LEMMA AbsentTyped == Absent \in Policy
BY DEF Absent, Policy

LEMMA StoreTyped ==
    ASSUME TypeOK, NEW n \in Policies, NEW o \in Policy, Store(n, o)
    PROVE  /\ stored' \in [Policies -> Policy] /\ feed' \in [Policies -> Seq(Policy)]
           /\ edits' \in Nat /\ clash' \in BOOLEAN
<1>1. feed[n] \in Seq(Policy)
  BY DEF TypeOK
<1>2. Append(feed[n], o) \in Seq(Policy)
  BY <1>1, AppendProperties
<1>3. clash' \in BOOLEAN
  BY Zenon DEF Store, TypeOK
<1>4. stored' = [stored EXCEPT ![n] = o] /\ feed' = [feed EXCEPT ![n] = Append(feed[n], o)]
  BY DEF Store
<1>5. stored' \in [Policies -> Policy]
  BY <1>4 DEF TypeOK
<1>6. feed' \in [Policies -> Seq(Policy)]
  BY <1>2, <1>4 DEF TypeOK
<1>7. edits' \in Nat
  <2>1. edits \in Nat /\ edits > 0 /\ edits' = edits - 1
    BY DEF Store, TypeOK
  <2> QED BY <2>1
<1> QED BY <1>3, <1>5, <1>6, <1>7

LEMMA StatusTyped == NoStatus \in [phase: {"", "Active", "Paused"}, of: Nat]
BY DEF NoStatus

\* What Deliver(n) does to the cache and the feed.
LEMMA DeliverStep ==
    ASSUME TypeOK, NEW n \in Policies, Deliver(n)
    PROVE  \E k \in 1 .. Len(feed[n]) :
             /\ cached' = [cached EXCEPT ![n] = feed[n][k]]
             /\ feed' = [feed EXCEPT ![n] = SubSeq(@, k + 1, Len(@))]
             /\ feed[n][k] \in Policy
             /\ SubSeq(feed[n], k + 1, Len(feed[n])) \in Seq(Policy)
             /\ Len(SubSeq(feed[n], k + 1, Len(feed[n]))) = Len(feed[n]) - k
             /\ \A j \in 1 .. Len(feed[n]) - k :
                    SubSeq(feed[n], k + 1, Len(feed[n]))[j] = feed[n][k + j]
<1> PICK k \in {1, Len(feed[n])} :
       /\ cached' = [cached EXCEPT ![n] = feed[n][k]]
       /\ feed' = [feed EXCEPT ![n] = SubSeq(@, k + 1, Len(@))]
  BY DEF Deliver
<1>a. feed[n] \in Seq(Policy) /\ feed[n] # <<>>
  BY DEF Deliver, TypeOK
<1>b. Len(feed[n]) \in Nat /\ Len(feed[n]) # 0
  BY <1>a, LenProperties, EmptySeq
<1>1. feed[n] \in Seq(Policy) /\ Len(feed[n]) \in Nat /\ k \in 1 .. Len(feed[n])
  BY <1>a, <1>b
<1>2. feed[n][k] \in Policy
  BY <1>1, ElementOfSeq
<1>3. \A i \in k + 1 .. Len(feed[n]) : feed[n][i] \in Policy
  BY <1>1, ElementOfSeq
<1>4. SubSeq(feed[n], k + 1, Len(feed[n])) \in Seq(Policy)
  BY <1>1, <1>3, SubSeqProperties
<1>5. /\ Len(SubSeq(feed[n], k + 1, Len(feed[n]))) = Len(feed[n]) - k
      /\ \A j \in 1 .. Len(feed[n]) - k : SubSeq(feed[n], k + 1, Len(feed[n]))[j] = feed[n][k + j]
  BY <1>1, SubSeqProperties
<1> QED BY <1>1, <1>2, <1>4, <1>5

LEMMA TypeInductive == ASSUME TypeOK, [Next]_vars PROVE TypeOK'
<1> USE DEF given, maps
<1>1. ASSUME NEW n \in Policies, NEW p \in BOOLEAN, Create(n, p) PROVE TypeOK'
  <2> DEFINE o == [uid |-> uids[n] + 1, paused |-> p]
  <2>a. uids[n] \in Nat
    BY DEF TypeOK
  <2>0. uids[n] + 1 \in Nat
    BY <2>a
  <2>1. o \in Policy /\ Store(n, o)
    BY <1>1, <2>0 DEF Create, Policy
  <2> HIDE DEF o
  <2>2. /\ stored' \in [Policies -> Policy] /\ feed' \in [Policies -> Seq(Policy)]
        /\ edits' \in Nat /\ clash' \in BOOLEAN
    BY <2>1, StoreTyped
  <2>3. uids' \in [Policies -> Nat] /\ status' \in [Policies -> [phase: {"", "Active", "Paused"}, of: Nat]]
    BY <1>1, <2>0, StatusTyped DEF Create, TypeOK
  <2> QED BY <2>1, <2>2, <2>3 DEF Store, TypeOK
<1>2. ASSUME NEW n \in Policies, NEW p \in BOOLEAN, Update(n, p) PROVE TypeOK'
  <2> DEFINE o == [stored[n] EXCEPT !.paused = p]
  <2>1. o \in Policy /\ Store(n, o) /\ UNCHANGED <<uids, status>>
    BY <1>2 DEF Update, Policy, TypeOK
  <2> HIDE DEF o
  <2>2. /\ stored' \in [Policies -> Policy] /\ feed' \in [Policies -> Seq(Policy)]
        /\ edits' \in Nat /\ clash' \in BOOLEAN
    BY <2>1, StoreTyped
  <2> QED BY <2>1, <2>2 DEF Store, TypeOK
<1>3. ASSUME NEW n \in Policies, Remove(n) PROVE TypeOK'
  <2>1. /\ stored' \in [Policies -> Policy] /\ feed' \in [Policies -> Seq(Policy)]
        /\ edits' \in Nat /\ clash' \in BOOLEAN
    BY <1>3, AbsentTyped, StoreTyped DEF Remove
  <2>2. status' \in [Policies -> [phase: {"", "Active", "Paused"}, of: Nat]]
    BY <1>3, StatusTyped DEF Remove, TypeOK
  <2> QED BY <1>3, <2>1, <2>2 DEF Remove, Store, TypeOK
<1>4. ASSUME NEW n \in Policies, Deliver(n) PROVE TypeOK'
  <2>a. cached \in [Policies -> Policy] /\ feed \in [Policies -> Seq(Policy)]
    BY DEF TypeOK
  <2>b. PICK k \in 1 .. Len(feed[n]) :
          /\ cached' = [cached EXCEPT ![n] = feed[n][k]]
          /\ feed' = [feed EXCEPT ![n] = SubSeq(@, k + 1, Len(@))]
          /\ feed[n][k] \in Policy
          /\ SubSeq(feed[n], k + 1, Len(feed[n])) \in Seq(Policy)
    BY <1>4, DeliverStep
  <2>c. cached' \in [Policies -> Policy]
    BY ONLY <2>a, <2>b
  <2>d. feed' \in [Policies -> Seq(Policy)]
    BY ONLY <2>a, <2>b
  <2>1. cached' \in [Policies -> Policy] /\ feed' \in [Policies -> Seq(Policy)]
    BY <2>c, <2>d
  <2> QED BY <1>4, <2>1 DEF Deliver, TypeOK
<1>5. ASSUME NEW n \in Policies, DeliverStatus(n) \/ Fire(n) \/ FailFetch(n) PROVE TypeOK'
  BY <1>5 DEF DeliverStatus, Fire, FailFetch, TypeOK
<1>6. ASSUME NEW n \in Policies, NEW u \in Nat, Track(n, u)
      PROVE  /\ policyUIDs' \in [Policies -> Nat] /\ policySpecs' \in SUBSET (Policies \X Nat)
             /\ rateLimiters' \in SUBSET (Policies \X Nat)
  <2>1. <<n, u>> \in Policies \X Nat
    OBVIOUS
  <2>2. policySpecs' \in SUBSET (Policies \X Nat)
    BY <1>6, <2>1 DEF Track, TypeOK
  <2> QED BY <1>6, <2>2 DEF Track, TypeOK
<1>7. ASSUME NEW n \in Policies, Cleanup(n)
      PROVE  /\ policyUIDs' \in [Policies -> Nat] /\ policySpecs' \in SUBSET (Policies \X Nat)
             /\ rateLimiters' \in SUBSET (Policies \X Nat)
  BY <1>7 DEF Cleanup, TypeOK
<1>8. ASSUME NEW n \in Policies, ReconcileDeleted(n) PROVE TypeOK'
  BY <1>7, <1>8 DEF ReconcileDeleted, TypeOK
<1>9. \A n \in Policies : cached[n] \in Policy /\ cached[n].uid \in Nat
  BY DEF TypeOK, Policy
<1>10. ASSUME NEW n \in Policies, ReconcilePaused(n) PROVE TypeOK'
  <2>1. queue' \in [Policies -> {"none", "waiting", "ready"}]
    BY <1>10 DEF ReconcilePaused, TypeOK
  <2> QED BY <1>6, <1>9, <1>10, <2>1 DEF ReconcilePaused, TypeOK
<1>11. ASSUME NEW n \in Policies, StartEvaluation(n) PROVE TypeOK'
  BY <1>6, <1>9, <1>11 DEF StartEvaluation, TypeOK
<1>12. ASSUME NEW d, Return(d) PROVE queue' \in [Policies -> {"none", "waiting", "ready"}]
  <2>1. After(cur, d) \in {"none", "waiting", "ready"}
    BY DEF After
  <2> QED BY <1>12, <2>1 DEF Return, TypeOK
<1>13. CASE FailEvaluation
  BY <1>12, <1>13, AbsentTyped DEF FailEvaluation, Return, TypeOK
<1>14. CASE Evaluate
  <2>1. <<cur, policy.uid>> \in Policies \X Nat
    BY DEF TypeOK, Policy
  <2> QED BY <1>14, <2>1 DEF Evaluate, TypeOK
<1>15. CASE GetStatus
  BY <1>15 DEF GetStatus, TypeOK
<1>16. CASE FailStatus \/ TimeOutStatus \/ PutStatus
  <2>1. status' \in [Policies -> [phase: {"", "Active", "Paused"}, of: Nat]] /\ echo' \in [Policies -> BOOLEAN]
    <3>1. CASE UNCHANGED <<status, echo>>
      BY <3>1 DEF TypeOK
    <3>2. CASE AcceptStatus
      <4> DEFINE new == [phase |-> IF policy.paused THEN "Paused" ELSE "Active", of |-> policy.uid]
      <4>1. new \in [phase: {"", "Active", "Paused"}, of: Nat]
        BY DEF TypeOK, Policy
      <4>2. status' = [status EXCEPT ![cur] = new] /\ echo' \in [Policies -> BOOLEAN]
        BY <3>2 DEF AcceptStatus, TypeOK
      <4> HIDE DEF new
      <4> QED BY <4>1, <4>2 DEF TypeOK
    <3> QED BY <1>16, <3>1, <3>2 DEF FailStatus, TimeOutStatus, PutStatus, StatusError
  <2> QED BY <1>12, <1>16, <2>1, AbsentTyped DEF FailStatus, TimeOutStatus, PutStatus, Return, TypeOK
<1>17. CASE UNCHANGED vars
  BY <1>17 DEF vars, TypeOK
<1> QED
  BY <1>1, <1>2, <1>3, <1>4, <1>5, <1>8, <1>10, <1>11, <1>13, <1>14, <1>15, <1>16, <1>17
     DEF Next, Users, Pick, Work

-----------------------------------------------------------------------------
(* One lemma for each way in which a step touches what is kept of a name.  *)

LEMMA UidsTyped ==
    ASSUME TypeOK, NEW n \in Policies
    PROVE  /\ stored[n].uid \in Nat /\ cached[n].uid \in Nat /\ uids[n] \in Nat
           /\ policyUIDs[n] \in Nat /\ Len(feed[n]) \in Nat
           /\ \A j \in 1 .. Len(feed[n]) : feed[n][j] \in Policy /\ feed[n][j].uid \in Nat
<1>1. stored[n] \in Policy /\ cached[n] \in Policy /\ feed[n] \in Seq(Policy)
  BY DEF TypeOK
<1>2. \A j \in 1 .. Len(feed[n]) : feed[n][j] \in Policy
  BY <1>1, ElementOfSeq
<1>3. \A o \in Policy : o.uid \in Nat
  BY DEF Policy
<1>4. uids[n] \in Nat /\ policyUIDs[n] \in Nat
  BY DEF TypeOK
<1>5. Len(feed[n]) \in Nat
  BY <1>1, LenProperties
<1> QED BY <1>1, <1>2, <1>3, <1>4, <1>5

\* A name that a step does not touch, and one that loses entries.
LEMMA Untouched ==
    ASSUME NEW n \in Policies, NameInv(n),
           stored'[n] = stored[n], uids'[n] = uids[n], cached'[n] = cached[n],
           feed'[n] = feed[n], policyUIDs'[n] = policyUIDs[n],
           \A u \in Nat : <<n, u>> \in policySpecs' => <<n, u>> \in policySpecs
    PROVE  NameInv(n)'
<1>1. Known(n)' /\ Ordered(n)' /\ Overtaken(n)'
  BY DEF NameInv, Known, Version, Ordered, Overtaken
<1>2. EntriesOld(n)' /\ SpecsOvertaken(n)'
  BY DEF NameInv, EntriesOld, Old, SpecsOvertaken
<1> QED BY <1>1, <1>2 DEF NameInv

\* A user's write puts one more version into the feed.
LEMMA Written ==
    ASSUME TypeOK, NEW n \in Policies, NameInv(n), NEW o \in Policy, Store(n, o),
           UNCHANGED <<policyUIDs, policySpecs, cached>>, uids'[n] \in Nat,
           \/ uids'[n] = uids[n] + 1 /\ o.uid = uids'[n]
           \/ uids'[n] = uids[n] /\ o.uid = stored[n].uid /\ o.uid # 0
           \/ uids'[n] = uids[n] /\ o = Absent
    PROVE  NameInv(n)'
<1> DEFINE L == Len(feed[n])
<1>1. feed[n] \in Seq(Policy) /\ stored' = [stored EXCEPT ![n] = o]
      /\ feed' = [feed EXCEPT ![n] = Append(feed[n], o)]
  BY DEF Store, TypeOK
<1>2. stored'[n] = o /\ feed'[n] = Append(feed[n], o)
  BY <1>1 DEF TypeOK
<1>3. /\ L \in Nat /\ Len(feed'[n]) = L + 1 /\ feed'[n][L + 1] = o
      /\ \A j \in 1 .. L : feed'[n][j] = feed[n][j]
  BY <1>1, <1>2, AppendProperties, LenProperties
<1>4. o.uid \in Nat /\ Absent.uid = 0
  BY DEF Policy, Absent
<1>5. /\ cached[n].uid \in Nat /\ uids[n] \in Nat /\ policyUIDs[n] \in Nat
      /\ \A j \in 1 .. L : feed[n][j].uid \in Nat
  BY UidsTyped
<1>6. \A j \in 1 .. L + 1 : j \in 1 .. L \/ j = L + 1
  BY <1>3
<1>7. uids[n] <= uids'[n] /\ o.uid \in {0, uids'[n]} /\ (o.uid = 0 => o = Absent)
  BY <1>4, <1>5 DEF NameInv, Known
<1>8. /\ cached[n].uid <= uids[n] /\ policyUIDs[n] <= uids[n]
      /\ \A j \in 1 .. L : feed[n][j].uid <= uids[n] /\ (feed[n][j].uid = 0 => feed[n][j] = Absent)
      /\ cached[n].uid = 0 => cached[n] = Absent
  BY DEF NameInv, Known, Version, EntriesOld, Old
<1>9. cached'[n] = cached[n] /\ policyUIDs'[n] = policyUIDs[n] /\ policySpecs' = policySpecs
  OBVIOUS
<1> HIDE DEF L
<1>10. Known(n)'
  <2>1. cached'[n].uid <= uids'[n] /\ o.uid <= uids'[n]
    BY <1>4, <1>5, <1>7, <1>8, <1>9
  <2>2. ASSUME NEW j \in 1 .. L + 1 PROVE Version(n, feed[n][j])'
    <3>1. CASE j \in 1 .. L
      <4>1. feed'[n][j] = feed[n][j] /\ feed[n][j].uid \in Nat /\ feed[n][j].uid <= uids[n]
            /\ (feed[n][j].uid = 0 => feed[n][j] = Absent)
        BY <3>1, <1>3, <1>5, <1>8
      <4>2. feed[n][j].uid <= uids'[n]
        BY <4>1, <1>5, <1>7
      <4> QED BY <4>1, <4>2 DEF Version
    <3>2. CASE j = L + 1
      <4>1. feed'[n][j] = o
        BY <3>2, <1>3
      <4>2. o.uid <= uids'[n] /\ (o.uid = 0 => o = Absent)
        BY <1>7, <2>1
      <4> QED BY <4>1, <4>2 DEF Version
    <3> QED BY <1>6, <3>1, <3>2
  <2> QED BY <1>2, <1>3, <1>7, <1>8, <1>9, <2>1, <2>2 DEF Known, Version
<1>11. Ordered(n)'
  <2>1. ASSUME NEW j \in 1 .. L + 1, feed'[n][j].uid # 0, NEW i \in 1 .. j
        PROVE  cached[n].uid <= feed'[n][j].uid /\ feed'[n][i].uid <= feed'[n][j].uid
    <3>1. CASE j \in 1 .. L
      <4>1. i \in 1 .. L /\ feed'[n][i] = feed[n][i] /\ feed'[n][j] = feed[n][j]
        BY <3>1, <1>3
      <4>2. Ordered(n)
        BY DEF NameInv
      <4>3. cached[n].uid <= feed[n][j].uid /\ feed[n][i].uid <= feed[n][j].uid
        BY <2>1, <3>1, <4>1, <4>2 DEF Ordered, L
      <4> QED BY <4>1, <4>3
    <3>2. CASE j = L + 1
      <4>1. feed'[n][j].uid = uids'[n]
        BY <2>1, <3>2, <1>3, <1>7
      <4>2. i \in 1 .. L \/ i = j
        BY <3>2, <1>3
      <4>3. ASSUME NEW v \in Nat, v <= uids[n] PROVE v <= uids'[n]
        BY <4>3, <1>5, <1>7
      <4>4. cached[n].uid <= feed'[n][j].uid
        BY <4>1, <4>3, <1>5, <1>8
      <4>5. CASE i \in 1 .. L
        <5>1. feed'[n][i].uid \in Nat /\ feed'[n][i].uid <= uids[n]
          BY <4>5, <1>3, <1>5, <1>8
        <5> QED BY <4>1, <4>3, <4>4, <5>1
      <4>6. CASE i = j
        BY <4>1, <4>4, <4>6
      <4> QED BY <4>2, <4>5, <4>6
    <3> QED BY <1>6, <3>1, <3>2
  <2>2. \A j \in 1 .. L + 1 : j \in 1 .. j
    BY <1>3
  <2> QED BY <1>3, <1>9, <2>1, <2>2 DEF Ordered
<1>12. ASSUME NEW u \in Nat, Old(n, u) PROVE Old(n, u)'
  <2>1. ASSUME NEW j \in 1 .. L + 1, feed'[n][j].uid # 0 PROVE u <= feed'[n][j].uid
    <3>1. CASE j \in 1 .. L
      BY <1>12, <2>1, <3>1, <1>3 DEF Old, L
    <3>2. CASE j = L + 1
      BY <1>12, <2>1, <3>2, <1>3, <1>5, <1>7 DEF Old
    <3> QED BY <1>6, <3>1, <3>2
  <2> QED BY <1>3, <1>5, <1>7, <1>9, <1>12, <2>1 DEF Old
<1>13. EntriesOld(n)'
  BY <1>5, <1>9, <1>12 DEF NameInv, EntriesOld
<1>14. Overtaken(n)'
  <2> SUFFICES ASSUME o.uid # 0 PROVE Overtaken(n)'
    BY <1>2 DEF Overtaken
  <2>1. CASE uids'[n] = uids[n] + 1
    <3>1. o.uid = uids[n] + 1
      BY <2>1, <1>7
    <3>2. /\ policyUIDs[n] < o.uid /\ cached[n].uid < o.uid
          /\ \A j \in 1 .. L : feed[n][j].uid < o.uid
      BY <3>1, <1>5, <1>8
    <3>3. ASSUME NEW k \in 1 .. L + 1, feed'[n][k].uid = 0 PROVE k \in 1 .. L
      BY <3>3, <1>3, <1>6
    <3>4. ASSUME NEW k \in 1 .. L, NEW j \in 1 .. k PROVE feed'[n][j].uid < o.uid
      <4>1. j \in 1 .. L
        BY <1>3
      <4> QED BY <4>1, <3>2, <1>3
    <3> QED BY <1>2, <1>3, <1>9, <3>2, <3>3, <3>4 DEF Overtaken
  <2>2. CASE uids'[n] = uids[n]
    <3>1. stored[n].uid = o.uid
      BY <2>2, <1>4, <1>5
    <3>2. /\ cached[n].uid = 0 => policyUIDs[n] < o.uid
          /\ \A k \in 1 .. L : feed[n][k].uid = 0 =>
                /\ policyUIDs[n] < o.uid /\ cached[n].uid < o.uid
                /\ \A j \in 1 .. k : feed[n][j].uid < o.uid
      BY <3>1 DEF NameInv, Overtaken, L
    <3>3. ASSUME NEW k \in 1 .. L + 1, feed'[n][k].uid = 0 PROVE k \in 1 .. L
      BY <3>3, <1>3, <1>6
    <3>4. ASSUME NEW k \in 1 .. L, NEW j \in 1 .. k PROVE feed'[n][j] = feed[n][j]
      <4>1. j \in 1 .. L
        BY <1>3
      <4> QED BY <4>1, <1>3
    <3>5. ASSUME NEW k \in 1 .. L + 1, feed'[n][k].uid = 0
          PROVE  /\ policyUIDs[n] < o.uid /\ cached[n].uid < o.uid
                 /\ \A j \in 1 .. k : feed'[n][j].uid < o.uid
      <4>1. k \in 1 .. L /\ feed[n][k].uid = 0
        BY <3>3, <3>5, <1>3
      <4> QED BY <4>1, <3>2, <3>4
    <3> QED BY <1>2, <1>3, <1>9, <3>2, <3>5 DEF Overtaken
  <2> QED BY <2>1, <2>2
<1>15. SpecsOvertaken(n)'
  BY <1>5, <1>7, <1>9 DEF NameInv, SpecsOvertaken
<1> QED BY <1>10, <1>11, <1>13, <1>14, <1>15 DEF NameInv

\* The manager hears of a version, and of none before it.
LEMMA Delivered ==
    ASSUME TypeOK, NEW n \in Policies, NameInv(n), Deliver(n)
    PROVE  NameInv(n)'
<1> DEFINE L == Len(feed[n])
<1> PICK k \in 1 .. L :
       /\ cached' = [cached EXCEPT ![n] = feed[n][k]]
       /\ feed' = [feed EXCEPT ![n] = SubSeq(@, k + 1, Len(@))]
       /\ Len(SubSeq(feed[n], k + 1, L)) = L - k
       /\ \A j \in 1 .. L - k : SubSeq(feed[n], k + 1, L)[j] = feed[n][k + j]
  BY DeliverStep
<1>1. /\ cached'[n] = feed[n][k] /\ Len(feed'[n]) = L - k
      /\ \A j \in 1 .. L - k : feed'[n][j] = feed[n][k + j]
  BY DEF TypeOK
<1>2. /\ stored' = stored /\ uids' = uids /\ policyUIDs' = policyUIDs
      /\ policySpecs' = policySpecs
  BY DEF Deliver, given, maps
<1>3. L \in Nat /\ uids[n] \in Nat /\ \A j \in 1 .. L : feed[n][j].uid \in Nat
  BY UidsTyped
<1>4. \A j \in 1 .. L - k : k + j \in 1 .. L /\ k \in 1 .. k + j
  BY <1>3
<1> HIDE DEF L
<1>5. Known(n)'
  BY <1>1, <1>2, <1>3, <1>4 DEF NameInv, Known, Version, L
<1>6. Ordered(n)'
  <2>1. ASSUME NEW j \in 1 .. L - k, feed'[n][j].uid # 0
        PROVE  /\ cached'[n].uid <= feed'[n][j].uid
               /\ \A i \in 1 .. j : feed'[n][i].uid <= feed'[n][j].uid
    <3>1. feed[n][k + j].uid # 0 /\ \A i \in 1 .. k + j : feed[n][i].uid <= feed[n][k + j].uid
      BY <2>1, <1>1, <1>4 DEF NameInv, Ordered, L
    <3>2. \A i \in 1 .. j : k + i \in 1 .. k + j /\ feed'[n][i] = feed[n][k + i]
      BY <1>1, <1>3
    <3> QED BY <3>1, <3>2, <1>1, <1>4
  <2> QED BY <2>1, <1>1 DEF Ordered
<1>7. ASSUME NEW u \in Nat, Old(n, u) PROVE Old(n, u)'
  BY <1>7, <1>1, <1>2, <1>4 DEF Old, L
<1>8. EntriesOld(n)'
  BY <1>2, <1>7, UidsTyped DEF NameInv, EntriesOld
<1>9. Overtaken(n)'
  <2> SUFFICES ASSUME stored[n].uid # 0 PROVE Overtaken(n)'
    BY <1>2 DEF Overtaken
  <2>1. \A m \in 1 .. L : feed[n][m].uid = 0 =>
           /\ policyUIDs[n] < stored[n].uid
           /\ \A j \in 1 .. m : feed[n][j].uid < stored[n].uid
    BY DEF NameInv, Overtaken, L
  <2>2. cached'[n].uid = 0 => policyUIDs[n] < stored[n].uid
    BY <2>1, <1>1
  <2>3. ASSUME NEW m \in 1 .. L - k, feed'[n][m].uid = 0
        PROVE  /\ policyUIDs[n] < stored[n].uid /\ cached'[n].uid < stored[n].uid
               /\ \A j \in 1 .. m : feed'[n][j].uid < stored[n].uid
    <3>1. k + m \in 1 .. L /\ feed[n][k + m].uid = 0 /\ k \in 1 .. k + m
      BY <2>3, <1>1, <1>4
    <3>2. ASSUME NEW j \in 1 .. m PROVE k + j \in 1 .. k + m /\ feed'[n][j] = feed[n][k + j]
      <4>1. j \in 1 .. L - k /\ k + j \in 1 .. k + m
        BY <1>3
      <4> QED BY <4>1, <1>1
    <3>3. /\ policyUIDs[n] < stored[n].uid
          /\ \A j \in 1 .. k + m : feed[n][j].uid < stored[n].uid
      BY <2>1, <3>1
    <3>4. cached'[n].uid < stored[n].uid
      BY <3>1, <3>3, <1>1
    <3>5. ASSUME NEW j \in 1 .. m PROVE feed'[n][j].uid < stored[n].uid
      BY <3>2, <3>3
    <3> QED BY <3>3, <3>4, <3>5
  <2> QED BY <2>2, <2>3, <1>1, <1>2 DEF Overtaken
<1>10. SpecsOvertaken(n)'
  BY <1>2 DEF NameInv, SpecsOvertaken
<1> QED BY <1>5, <1>6, <1>8, <1>9, <1>10 DEF NameInv

LEMMA Cleaned ==
    ASSUME TypeOK, NEW n \in Policies, NameInv(n), Cleanup(n),
           UNCHANGED <<stored, uids, cached, feed>>
    PROVE  NameInv(n)'
<1>1. policyUIDs'[n] = 0 /\ policySpecs' = policySpecs \ {<<n, policyUIDs[n]>>}
  BY DEF Cleanup, TypeOK
<1>2. /\ stored[n].uid \in Nat /\ cached[n].uid \in Nat /\ uids[n] \in Nat
      /\ policyUIDs[n] \in Nat /\ \A j \in 1 .. Len(feed[n]) : feed[n][j].uid \in Nat
  BY UidsTyped
<1>3. Known(n)' /\ Ordered(n)'
  BY DEF NameInv, Known, Version, Ordered
<1>4. \A u \in Nat : Old(n, u) => Old(n, u)'
  BY DEF Old
<1>5. Old(n, 0)'
  BY <1>2 DEF Old
<1>6. EntriesOld(n)'
  BY <1>1, <1>4, <1>5 DEF NameInv, EntriesOld
<1>7. Overtaken(n)'
  <2>1. stored[n].uid # 0 => 0 < stored[n].uid
    BY <1>2
  <2> QED BY <2>1, <1>1 DEF NameInv, Overtaken
<1>8. SpecsOvertaken(n)'
  <2>1. policyUIDs[n] <= uids[n]
    BY DEF NameInv, EntriesOld, Old
  <2>2. ASSUME NEW u \in Nat, <<n, u>> \in policySpecs' PROVE u < uids[n]
    <3>1. <<n, u>> \in policySpecs /\ u # policyUIDs[n]
      BY <2>2, <1>1
    <3>2. (policyUIDs[n] = 0 /\ u < uids[n]) \/ u < policyUIDs[n]
      BY <3>1 DEF NameInv, SpecsOvertaken
    <3> QED BY <3>2, <2>1, <1>2
  <2> QED BY <2>2, <1>1 DEF SpecsOvertaken
<1> QED BY <1>3, <1>6, <1>7, <1>8 DEF NameInv

LEMMA TrackedFromCache ==
    ASSUME TypeOK, NEW n \in Policies, NameInv(n), Track(n, cached[n].uid), cached[n] # Absent,
           UNCHANGED <<stored, uids, cached, feed>>
    PROVE  NameInv(n)'
<1> DEFINE c == cached[n].uid
<1>1. policyUIDs'[n] = c /\ policySpecs' = policySpecs \cup {<<n, c>>}
  BY DEF Track, TypeOK
<1>2. /\ stored[n].uid \in Nat /\ c \in Nat /\ uids[n] \in Nat /\ Len(feed[n]) \in Nat
      /\ \A j \in 1 .. Len(feed[n]) : feed[n][j].uid \in Nat
  BY UidsTyped
<1>3. c # 0
  BY DEF NameInv, Known, Version
<1>4. Known(n)' /\ Ordered(n)'
  BY DEF NameInv, Known, Version, Ordered
<1>5. Old(n, c)
  BY <1>2 DEF NameInv, Known, Version, Ordered, Old
<1>6. \A u \in Nat : Old(n, u) => Old(n, u)'
  BY DEF Old
<1>7. ASSUME NEW u \in Nat, <<n, u>> \in policySpecs' PROVE <<n, u>> \in policySpecs \/ u = c
  BY <1>7, <1>1
<1> HIDE DEF c
<1>8. EntriesOld(n)'
  BY <1>1, <1>2, <1>3, <1>5, <1>6, <1>7 DEF NameInv, EntriesOld
<1>9. Overtaken(n)'
  BY <1>1, <1>3 DEF NameInv, Overtaken, c
<1>10. SpecsOvertaken(n)'
  <2>1. ASSUME NEW u \in Nat, <<n, u>> \in policySpecs' PROVE u = c \/ u < c
    <3>1. CASE <<n, u>> \in policySpecs
      BY <3>1, <1>2, <1>3 DEF NameInv, EntriesOld, Old, c
    <3> QED BY <2>1, <3>1, <1>7
  <2> QED BY <2>1, <1>1 DEF SpecsOvertaken
<1> QED BY <1>4, <1>8, <1>9, <1>10 DEF NameInv

-----------------------------------------------------------------------------
(* Every step keeps the invariant.                                         *)

LEMMA WriteKeeps ==
    ASSUME TypeOK, \A m \in Policies : NameInv(m), Users PROVE \A m \in Policies : NameInv(m)'
<1>1. ASSUME NEW n \in Policies, NEW o \in Policy, Store(n, o), uids'[n] \in Nat,
             \/ uids'[n] = uids[n] + 1 /\ o.uid = uids'[n]
             \/ uids'[n] = uids[n] /\ o.uid = stored[n].uid /\ o.uid # 0
             \/ uids'[n] = uids[n] /\ o = Absent,
             \A m \in Policies \ {n} : uids'[m] = uids[m],
             NEW m \in Policies
      PROVE  NameInv(m)'
  <2>1. UNCHANGED <<policyUIDs, policySpecs, cached>>
    BY <1>1 DEF Store, maps
  <2>2. CASE m = n
    BY <1>1, <2>1, <2>2, Written
  <2>3. CASE m # n
    <3>1. stored'[m] = stored[m] /\ feed'[m] = feed[m]
      BY <1>1, <2>3 DEF Store, TypeOK
    <3> QED BY <1>1, <2>1, <2>3, <3>1, Untouched
  <2> QED BY <2>2, <2>3
<1>2. ASSUME NEW n \in Policies, NEW p \in BOOLEAN, Create(n, p)
      PROVE  \A m \in Policies : NameInv(m)'
  <2> DEFINE o == [uid |-> uids[n] + 1, paused |-> p]
  <2>1. uids[n] \in Nat /\ uids[n] + 1 \in Nat
    BY UidsTyped
  <2>2. o \in Policy /\ Store(n, o) /\ o.uid = uids[n] + 1
    BY <1>2, <2>1 DEF Create, Policy
  <2>3. uids' = [uids EXCEPT ![n] = uids[n] + 1]
    BY <1>2 DEF Create
  <2>4. uids'[n] = uids[n] + 1 /\ \A m \in Policies \ {n} : uids'[m] = uids[m]
    BY <2>3 DEF TypeOK
  <2> HIDE DEF o
  <2> QED BY <1>1, <2>1, <2>2, <2>4
<1>3. ASSUME NEW n \in Policies, NEW p \in BOOLEAN, Update(n, p)
      PROVE  \A m \in Policies : NameInv(m)'
  <2> DEFINE o == [stored[n] EXCEPT !.paused = p]
  <2>1. stored[n] \in Policy /\ uids[n] \in Nat
    BY DEF TypeOK
  <2>2. o \in Policy /\ Store(n, o) /\ o.uid = stored[n].uid
    BY <1>3, <2>1 DEF Update, Policy
  <2>3. stored[n].uid # 0
    BY <1>3 DEF Update, NameInv, Known, Version
  <2>4. uids' = uids
    BY <1>3 DEF Update
  <2> HIDE DEF o
  <2> QED BY <1>1, <2>1, <2>2, <2>3, <2>4
<1>4. ASSUME NEW n \in Policies, Remove(n) PROVE \A m \in Policies : NameInv(m)'
  <2>1. uids' = uids /\ Store(n, Absent) /\ uids[n] \in Nat
    BY <1>4 DEF Remove, TypeOK
  <2> QED BY <1>1, <2>1, AbsentTyped
<1> QED BY <1>2, <1>3, <1>4 DEF Users

\* The steps that leave the versions and what is tracked of every name alone.
Aside == UNCHANGED <<stored, uids, cached, feed, policyUIDs, policySpecs>>

LEMMA NamesKept ==
    ASSUME TypeOK, \A m \in Policies : NameInv(m), [Next]_vars
    PROVE  \A m \in Policies : NameInv(m)'
<1> USE DEF given, maps
<1>1. CASE Users
  BY <1>1, WriteKeeps
<1>2. ASSUME NEW n \in Policies, Deliver(n), NEW m \in Policies PROVE NameInv(m)'
  <2>1. CASE m = n
    BY <1>2, <2>1, Delivered
  <2>2. CASE m # n
    <3>1. cached'[m] = cached[m] /\ feed'[m] = feed[m]
      BY <1>2, <2>2 DEF Deliver, TypeOK
    <3> QED BY <1>2, <3>1, Untouched DEF Deliver
  <2> QED BY <2>1, <2>2
<1>3. ASSUME NEW n \in Policies, Cleanup(n), UNCHANGED <<stored, uids, cached, feed>>,
             NEW m \in Policies
      PROVE  NameInv(m)'
  <2>1. CASE m = n
    BY <1>3, <2>1, Cleaned
  <2>2. CASE m # n
    <3>1. policyUIDs'[m] = policyUIDs[m]
      BY <1>3, <2>2 DEF Cleanup, TypeOK
    <3>2. policySpecs' \subseteq policySpecs
      BY <1>3 DEF Cleanup
    <3> QED BY <1>3, <3>1, <3>2, Untouched
  <2> QED BY <2>1, <2>2
<1>4. ASSUME NEW n \in Policies, Track(n, cached[n].uid), cached[n] # Absent,
             UNCHANGED <<stored, uids, cached, feed>>, NEW m \in Policies
      PROVE  NameInv(m)'
  <2>1. CASE m = n
    BY <1>4, <2>1, TrackedFromCache
  <2>2. CASE m # n
    <3>1. policyUIDs'[m] = policyUIDs[m]
      BY <1>4, <2>2 DEF Track, TypeOK
    <3>2. \A u \in Nat : <<m, u>> \in policySpecs' => <<m, u>> \in policySpecs
      BY <1>4, <2>2 DEF Track
    <3> QED BY <1>4, <3>1, <3>2, Untouched
  <2> QED BY <2>1, <2>2
<1>5. ASSUME NEW n \in Policies, Pick(n) PROVE \A m \in Policies : NameInv(m)'
  <2>1. CASE ReconcileDeleted(n)
    BY <1>3, <2>1 DEF ReconcileDeleted
  <2>2. CASE ReconcilePaused(n)
    <3>1. cached[n] # Absent
      BY <2>2 DEF ReconcilePaused, Absent
    <3> QED BY <1>4, <2>2, <3>1 DEF ReconcilePaused
  <2>3. CASE StartEvaluation(n)
    BY <1>4, <2>3 DEF StartEvaluation
  <2> QED BY <1>5, <2>1, <2>2, <2>3 DEF Pick
<1>6. CASE Aside
  BY <1>6, Untouched DEF Aside
<1>7. ASSUME NEW n \in Policies, DeliverStatus(n) \/ Fire(n) \/ FailFetch(n) PROVE Aside
  BY <1>7 DEF DeliverStatus, Fire, FailFetch, Aside
<1>8. CASE Work
  <2>1. Aside
    BY <1>8 DEF Work, FailEvaluation, Evaluate, GetStatus, FailStatus, TimeOutStatus, PutStatus, Return, Aside
  <2> QED BY <1>6, <2>1
<1>9. CASE UNCHANGED vars
  <2>1. Aside
    BY <1>9 DEF vars, Aside
  <2> QED BY <1>6, <2>1
<1> QED BY <1>1, <1>2, <1>5, <1>6, <1>7, <1>8, <1>9 DEF Next

LEMMA LimitersKept ==
    ASSUME TypeOK, EvaluatedTracked, LimitersHaveSpecs, [Next]_vars
    PROVE  EvaluatedTracked' /\ LimitersHaveSpecs'
<1> USE DEF given, maps
<1>1. CASE Users \/ \E n \in Policies : Deliver(n) \/ DeliverStatus(n) \/ Fire(n) \/ FailFetch(n)
  <2>1. UNCHANGED <<pc, cur, policy, policySpecs, rateLimiters>>
    BY <1>1 DEF Users, Create, Update, Remove, Store, Deliver, DeliverStatus, Fire, FailFetch
  <2> QED BY <2>1 DEF EvaluatedTracked, LimitersHaveSpecs
<1>2. ASSUME NEW n \in Policies, ReconcileDeleted(n) PROVE EvaluatedTracked' /\ LimitersHaveSpecs'
  BY <1>2 DEF ReconcileDeleted, Cleanup, EvaluatedTracked, LimitersHaveSpecs
<1>3. ASSUME NEW n \in Policies, ReconcilePaused(n) PROVE EvaluatedTracked' /\ LimitersHaveSpecs'
  BY <1>3 DEF ReconcilePaused, Track, EvaluatedTracked, LimitersHaveSpecs
<1>4. ASSUME NEW n \in Policies, StartEvaluation(n) PROVE EvaluatedTracked' /\ LimitersHaveSpecs'
  <2>1. /\ cur' = n /\ policy' = cached[n]
        /\ policySpecs' = policySpecs \cup {<<n, cached[n].uid>>} /\ rateLimiters' = rateLimiters
    BY <1>4 DEF StartEvaluation, Track
  <2> QED BY <2>1 DEF EvaluatedTracked, LimitersHaveSpecs
<1>5. CASE Evaluate
  BY <1>5 DEF Evaluate, EvaluatedTracked, LimitersHaveSpecs
<1>6. CASE GetStatus
  BY <1>6 DEF GetStatus, EvaluatedTracked, LimitersHaveSpecs
<1>7. CASE FailEvaluation \/ FailStatus \/ TimeOutStatus \/ PutStatus
  <2>1. pc' = "idle" /\ UNCHANGED <<policySpecs, rateLimiters>>
    BY <1>7 DEF FailEvaluation, FailStatus, TimeOutStatus, PutStatus, Return
  <2> QED BY <2>1 DEF EvaluatedTracked, LimitersHaveSpecs
<1>8. CASE UNCHANGED vars
  BY <1>8 DEF vars, EvaluatedTracked, LimitersHaveSpecs
<1> QED BY <1>1, <1>2, <1>3, <1>4, <1>5, <1>6, <1>7, <1>8 DEF Next, Work, Pick

LEMMA IInvInductive == ASSUME TypeOK, IInv, [Next]_vars PROVE IInv'
BY NamesKept, LimitersKept DEF IInv

LEMMA InitEstablishes == ASSUME Init PROVE TypeOK /\ IInv
<1>1. ASSUME NEW n \in Policies
      PROVE  stored[n] \in Policy /\ (stored[n].uid = 0 => stored[n] = Absent) /\ stored[n].uid \in Nat
  <2>1. stored[n] = Absent \/ stored[n] \in [uid: {1}, paused: BOOLEAN]
    BY DEF Init
  <2>2. CASE stored[n] = Absent
    BY <2>2, AbsentTyped DEF Absent
  <2>3. CASE stored[n] \in [uid: {1}, paused: BOOLEAN]
    BY <2>3 DEF Policy
  <2> QED BY <2>1, <2>2, <2>3
<1>2. stored \in [Policies -> Policy]
  <2>1. DOMAIN stored = Policies /\ stored = [n \in Policies |-> stored[n]]
    BY DEF Init
  <2> QED BY <2>1, <1>1
<1>3. TypeOK
  <2>1. <<>> \in Seq(Policy)
    BY EmptySeq
  <2>2. process \in Setups
    BY DEF Init
  <2> QED BY <1>1, <1>2, <2>1, <2>2, StatusTyped, AbsentTyped, EditAssumption DEF Init, TypeOK
<1>4. ASSUME NEW n \in Policies PROVE NameInv(n)
  <2>1. /\ feed[n] = <<>> /\ Len(feed[n]) = 0 /\ cached[n] = stored[n]
        /\ uids[n] = stored[n].uid /\ policyUIDs[n] = 0 /\ policySpecs = {}
    BY EmptySeq DEF Init
  <2> QED BY <1>1, <2>1 DEF NameInv, Known, Version, Ordered, EntriesOld, Old, Overtaken, SpecsOvertaken
<1> QED BY <1>3, <1>4 DEF IInv, Init, EvaluatedTracked, LimitersHaveSpecs

-----------------------------------------------------------------------------
(* The theorems.                                                           *)

\* The types and the invariant hold throughout: watch events are coalesced and late, and
\* still the maps never get ahead of what the manager has been told.
THEOREM MapsInvariant == Spec => [](TypeOK /\ IInv)
<1>1. Init => TypeOK /\ IInv
  BY InitEstablishes
<1>2. (TypeOK /\ IInv) /\ [Next]_vars => (TypeOK /\ IInv)'
  BY TypeInductive, IInvInductive
<1> QED BY <1>1, <1>2, PTL DEF Spec

\* Every variable of the reconciler, its manager and the API server has its type.
THEOREM MapsTyped == Spec => []TypeOK
BY MapsInvariant, PTL

\* cleanupPolicyResources and trackPolicyUID leave behind only what a later incarnation
\* has overtaken, however the events of removals and creations coalesce.
THEOREM LeaksAreOvertaken == Spec => []OnlyOvertakenLeak
<1>1. TypeOK /\ IInv => OnlyOvertakenLeak
  <2> SUFFICES ASSUME IInv, NEW n \in Policies, NEW u \in Int, u >= 1,
                      <<n, u>> \in policySpecs \cup rateLimiters
               PROVE  u = policyUIDs[n] \/ (policyUIDs[n] = 0 /\ u < uids[n]) \/ u < policyUIDs[n]
    BY DEF OnlyOvertakenLeak
  <2> QED BY DEF IInv, LimitersHaveSpecs, NameInv, SpecsOvertaken
<1> QED BY <1>1, MapsInvariant, PTL

\* No step drops the limiter of a policy that exists: a cleanup runs only when the cache
\* says that the policy is gone, and then what is tracked is older than any successor.
THEOREM LiveLimiterAlwaysKept == Spec => LiveLimiterKept
<1> DEFINE Keeps == \A n \in Policies : <<n, stored[n].uid>> \in rateLimiters =>
                        <<n, stored[n].uid>> \in rateLimiters'
<1>1. TypeOK /\ IInv /\ [Next]_vars => [Keeps]_vars
  <2> SUFFICES ASSUME TypeOK, IInv, Next, NEW n \in Policies, <<n, stored[n].uid>> \in rateLimiters
               PROVE  <<n, stored[n].uid>> \in rateLimiters'
    OBVIOUS
  <2>1. CASE \E m \in Policies : ReconcileDeleted(m)
    <3> PICK m \in Policies : ReconcileDeleted(m)
      BY <2>1
    <3>1. rateLimiters' = rateLimiters \ {<<m, policyUIDs[m]>>} /\ cached[m] = Absent
      BY DEF ReconcileDeleted, Cleanup
    <3>2. CASE m = n
      <4>1. stored[n].uid \in Nat /\ policyUIDs[n] \in Nat /\ cached[n].uid = 0
        BY <3>1, <3>2, UidsTyped DEF Absent
      <4>2. NameInv(n) /\ <<n, stored[n].uid>> \in policySpecs
        BY DEF IInv, LimitersHaveSpecs
      <4>3. stored[n].uid # 0
        BY <4>1, <4>2 DEF NameInv, EntriesOld
      <4>4. policyUIDs[n] < stored[n].uid
        BY <4>1, <4>2, <4>3 DEF NameInv, Overtaken
      <4> QED BY <3>1, <3>2, <4>1, <4>4
    <3>3. CASE m # n
      BY <3>1, <3>3
    <3> QED BY <3>2, <3>3
  <2>2. CASE ~ \E m \in Policies : ReconcileDeleted(m)
    <3>1. rateLimiters \subseteq rateLimiters'
      BY <2>2 DEF Next, Users, Work, Pick, Create, Update, Remove, Store, Deliver, DeliverStatus,
                  Fire, FailFetch, ReconcilePaused, StartEvaluation, Track, FailEvaluation,
                  Evaluate, GetStatus, FailStatus, TimeOutStatus, PutStatus, maps
    <3> QED BY <3>1
  <2> QED BY <2>1, <2>2
<1> HIDE DEF Keeps
<1>2. Spec => [][Keeps]_vars
  BY <1>1, MapsInvariant, PTL DEF Spec
<1> QED BY <1>2 DEF Keeps, LiveLimiterKept

-----------------------------------------------------------------------------
(* The queue: what has to be looked at again is in it, in the feed or in   *)
(* hand.                                                                   *)

\* The interval that brings n back after an evaluation is positive.
Recurs(n) == OwnInterval[n] > 0 \/ process.flags.GCInterval > 0

InHand(n) == pc # "idle" /\ cur = n

Expected(n) == queue[n] # "none" \/ feed[n] # <<>> \/ InHand(n)

\* The last version on its way, or else the cached one, is the stored one.
UpToDate(n) == stored[n] = IF Len(feed[n]) = 0 THEN cached[n] ELSE feed[n][Len(feed[n])]

\* What the manager knows to exist comes back, a paused policy after --gc-interval only.
Recalled(n) ==
    cached[n] # Absent /\ (process.flags.GCInterval > 0 \/ (OwnInterval[n] > 0 /\ ~cached[n].paused))
        => queue[n] # "none" \/ InHand(n)

\* Something is kept of n, or of its last incarnation.
Traced(n) == policyUIDs[n] # 0 \/ <<n, uids[n]>> \in policySpecs \cup rateLimiters

\* What the manager knows to be gone is queued until nothing is kept of it.
Dismissed(n) == cached[n] = Absent /\ Traced(n) => queue[n] # "none" \/ Len(feed[n]) # 0

\* An entry in hand is not waiting: an event that arrives meanwhile makes it ready.
NotWaiting == pc # "idle" => queue[cur] # "waiting"

QueueInv == (\A n \in Policies : UpToDate(n) /\ Recalled(n) /\ Dismissed(n)) /\ NotWaiting

\* No change of stored, feed or cache.
SameVersions == UNCHANGED <<stored, feed, cached>>

LEMMA QuietSteps ==
    ASSUME [Next]_vars,
           ~ \E n \in Policies : (\E o \in Policy : Store(n, o)) \/ Deliver(n),
           TypeOK
    PROVE  SameVersions
<1> USE DEF given, maps
<1>1. ~Users
  <2>1. ASSUME NEW n \in Policies, NEW p \in BOOLEAN, Create(n, p) PROVE FALSE
    <3>1. [uid |-> uids[n] + 1, paused |-> p] \in Policy
      <4>1. uids[n] \in Nat
        BY UidsTyped
      <4> QED BY <4>1 DEF Policy
    <3> QED BY <2>1, <3>1 DEF Create
  <2>2. ASSUME NEW n \in Policies, NEW p \in BOOLEAN, Update(n, p) PROVE FALSE
    <3>1. [stored[n] EXCEPT !.paused = p] \in Policy
      BY DEF TypeOK, Policy
    <3> QED BY <2>2, <3>1 DEF Update
  <2>3. ASSUME NEW n \in Policies, Remove(n) PROVE FALSE
    BY <2>3, AbsentTyped DEF Remove
  <2> QED BY <2>1, <2>2, <2>3 DEF Users
<1>2. ASSUME NEW n \in Policies, DeliverStatus(n) \/ Fire(n) \/ FailFetch(n) PROVE SameVersions
  BY <1>2 DEF DeliverStatus, Fire, FailFetch, SameVersions
<1>3. ASSUME NEW n \in Policies, Pick(n) PROVE SameVersions
  BY <1>3 DEF Pick, ReconcileDeleted, ReconcilePaused, StartEvaluation, SameVersions
<1>4. CASE Work
  BY <1>4 DEF Work, FailEvaluation, Evaluate, GetStatus, FailStatus, TimeOutStatus, PutStatus, Return,
              SameVersions
<1>5. CASE UNCHANGED vars
  BY <1>5 DEF vars, SameVersions
<1> QED BY <1>1, <1>2, <1>3, <1>4, <1>5 DEF Next

LEMMA UpToDateKept ==
    ASSUME TypeOK, \A m \in Policies : UpToDate(m), [Next]_vars, NEW m \in Policies
    PROVE  UpToDate(m)'
<1>1. /\ feed[m] \in Seq(Policy) /\ Len(feed[m]) \in Nat
      /\ feed \in [Policies -> Seq(Policy)] /\ stored \in [Policies -> Policy]
      /\ cached \in [Policies -> Policy]
  BY UidsTyped DEF TypeOK
<1>2. ASSUME UNCHANGED <<stored[m], feed[m], cached[m]>> PROVE UpToDate(m)'
  BY <1>2 DEF UpToDate
<1>3. ASSUME NEW n \in Policies, NEW o \in Policy, Store(n, o) PROVE UpToDate(m)'
  <2>1. /\ stored' = [stored EXCEPT ![n] = o] /\ feed' = [feed EXCEPT ![n] = Append(feed[n], o)]
        /\ cached' = cached
    BY <1>3 DEF Store
  <2>2. CASE n = m
    <3>1. stored'[m] = o /\ feed'[m] = Append(feed[m], o)
      BY <1>1, <2>1, <2>2
    <3>2. Len(feed'[m]) = Len(feed[m]) + 1 /\ feed'[m][Len(feed[m]) + 1] = o
      BY <1>1, <3>1, AppendProperties
    <3> QED BY <1>1, <3>1, <3>2 DEF UpToDate
  <2>3. CASE n # m
    BY <1>1, <1>2, <2>1, <2>3
  <2> QED BY <2>2, <2>3
<1>4. ASSUME NEW n \in Policies, Deliver(n) PROVE UpToDate(m)'
  <2>1. stored' = stored
    BY <1>4 DEF Deliver, given
  <2>2. PICK k \in 1 .. Len(feed[n]) :
          /\ cached' = [cached EXCEPT ![n] = feed[n][k]]
          /\ feed' = [feed EXCEPT ![n] = SubSeq(@, k + 1, Len(@))]
          /\ Len(SubSeq(feed[n], k + 1, Len(feed[n]))) = Len(feed[n]) - k
          /\ \A j \in 1 .. Len(feed[n]) - k :
                 SubSeq(feed[n], k + 1, Len(feed[n]))[j] = feed[n][k + j]
    BY <1>4, DeliverStep
  <2>3. CASE n = m
    <3> DEFINE L == Len(feed[m])
               rest == SubSeq(feed[m], k + 1, L)
    <3>1. cached'[m] = feed[m][k] /\ feed'[m] = rest
      BY <1>1, <2>2, <2>3
    <3>2. L \in Nat /\ k \in 1 .. L /\ Len(rest) = L - k /\ stored[m] = feed[m][L]
      <4>1. L \in Nat /\ k \in 1 .. L /\ Len(rest) = L - k
        BY <1>1, <2>2, <2>3
      <4> QED BY <4>1 DEF UpToDate
    <3>3. \A j \in 1 .. L - k : rest[j] = feed[m][k + j]
      BY <2>2, <2>3
    <3> HIDE DEF rest, L
    <3>4. CASE k = L
      BY <2>1, <3>1, <3>2, <3>4 DEF UpToDate
    <3>5. CASE k # L
      <4>1. L - k \in 1 .. L - k /\ L - k # 0 /\ k + (L - k) = L
        BY <3>2, <3>5
      <4>2. rest[L - k] = feed[m][L]
        BY <3>3, <4>1
      <4> QED BY <2>1, <3>1, <3>2, <4>1, <4>2 DEF UpToDate
    <3> QED BY <3>4, <3>5
  <2>4. CASE n # m
    BY <1>1, <1>2, <2>1, <2>2, <2>4
  <2> QED BY <2>3, <2>4
<1> QED
  <2>1. CASE SameVersions
    BY <1>2, <2>1 DEF SameVersions
  <2>2. CASE ~ \E n \in Policies : (\E o \in Policy : Store(n, o)) \/ Deliver(n)
    BY <2>1, <2>2, QuietSteps
  <2> QED BY <1>3, <1>4, <2>2

\* The flags of the process decide, whatever the environment says.
LEMMA FlagOfInterval == Settings(process).GCInterval = process.flags.GCInterval
<1>1. "GCInterval" \in DOMAIN LoadFromEnv(NewControllerConfig, process.env)
  BY DEF LoadFromEnv, NewControllerConfig
<1> QED BY <1>1 DEF Settings, WithFlags

\* An interval of the policy or of the process brings a policy back.
LEMMA IntervalPositive ==
    ASSUME TypeOK, NEW n \in Policies, Recurs(n) PROVE Interval(n) > 0
<1>1. OwnInterval[n] \in Nat
  BY IntervalAssumption
<1> QED BY <1>1, FlagOfInterval DEF Interval, RequeueInterval, Recurs

LEMMA QueueTyped == ASSUME TypeOK PROVE queue \in [Policies -> {"none", "waiting", "ready"}]
BY DEF TypeOK

\* What the queue knows of m, when a step leaves m alone.
LEMMA LeftAlone ==
    ASSUME QueueInv, NEW m \in Policies,
           cached'[m] = cached[m], queue'[m] = queue[m], process' = process, InHand(m)' <=> InHand(m),
           Len(feed'[m]) # Len(feed[m]) => Len(feed'[m]) # 0,
           Traced(m)' => Traced(m) \/ Len(feed'[m]) # 0
    PROVE  Recalled(m)' /\ Dismissed(m)'
<1>1. Recalled(m)'
  BY DEF QueueInv, Recalled
<1>2. Dismissed(m)'
  BY DEF QueueInv, Dismissed
<1> QED BY <1>1, <1>2

\* A cleanup leaves nothing of the last incarnation: what it does not find is older.
LEMMA CleanupLeavesNoTrace ==
    ASSUME TypeOK, IInv, NEW n \in Policies, Cleanup(n), uids' = uids PROVE ~Traced(n)'
<1>1. /\ policyUIDs'[n] = 0 /\ policySpecs' = policySpecs \ {<<n, policyUIDs[n]>>}
      /\ rateLimiters' = rateLimiters \ {<<n, policyUIDs[n]>>}
  BY DEF Cleanup, TypeOK
<1>2. uids[n] \in Nat /\ policyUIDs[n] \in Nat /\ policyUIDs[n] <= uids[n]
  BY UidsTyped DEF IInv, NameInv, EntriesOld, Old
<1>3. <<n, uids[n]>> \in policySpecs => uids[n] = policyUIDs[n]
  BY <1>2 DEF IInv, NameInv, SpecsOvertaken
<1>4. <<n, uids[n]>> \in rateLimiters => uids[n] = policyUIDs[n]
  BY <1>3 DEF IInv, LimitersHaveSpecs
<1> QED BY <1>1, <1>3, <1>4 DEF Traced

\* Watch events and timers only ever make an entry ready.
LEMMA EventsQueue ==
    ASSUME TypeOK, IInv, QueueInv, NEW n \in Policies, Deliver(n) \/ DeliverStatus(n) \/ Fire(n)
    PROVE  (\A m \in Policies : Recalled(m)' /\ Dismissed(m)') /\ NotWaiting'
<1> USE DEF given, maps
<1>1. queue' = [queue EXCEPT ![n] = "ready"] /\ UNCHANGED <<pc, cur, process, uids, policyUIDs, policySpecs, rateLimiters>>
  BY DEF Deliver, DeliverStatus, Fire
<1>2. queue'[n] = "ready" /\ \A m \in Policies \ {n} : queue'[m] = queue[m]
  BY <1>1, QueueTyped
<1>3. \A m \in Policies \ {n} : cached'[m] = cached[m] /\ feed'[m] = feed[m]
  BY DEF Deliver, DeliverStatus, Fire, TypeOK
<1>4. ASSUME NEW m \in Policies PROVE Recalled(m)' /\ Dismissed(m)'
  <2>1. CASE m = n
    BY <1>2, <2>1 DEF Recalled, Dismissed
  <2>2. CASE m # n
    BY <1>1, <1>2, <1>3, <2>2, LeftAlone DEF InHand, Traced
  <2> QED BY <2>1, <2>2
<1>5. NotWaiting'
  BY <1>1, <1>2 DEF QueueInv, NotWaiting, TypeOK
<1> QED BY <1>4, <1>5

\* What is picked leaves the queue cleaned up, waiting or in hand; what cannot be read waits.
LEMMA PicksQueue ==
    ASSUME TypeOK, IInv, QueueInv, NEW n \in Policies, Pick(n) \/ FailFetch(n)
    PROVE  (\A m \in Policies : Recalled(m)' /\ Dismissed(m)') /\ NotWaiting'
<1> USE DEF given, maps
<1>1. pc = "idle" /\ UNCHANGED <<process, uids, cached, feed>>
  BY DEF Pick, ReconcileDeleted, ReconcilePaused, StartEvaluation, FailFetch
<1>2. \A m \in Policies \ {n} : queue'[m] = queue[m]
  BY QueueTyped DEF Pick, ReconcileDeleted, ReconcilePaused, StartEvaluation, FailFetch
<1>3. pc' = "idle" \/ (pc' # "idle" /\ cur' = n /\ queue'[n] = "none")
  BY <1>1, QueueTyped DEF Pick, ReconcileDeleted, ReconcilePaused, StartEvaluation, FailFetch
<1>4. ASSUME NEW m \in Policies \ {n} PROVE Traced(m)' <=> Traced(m)
  BY <1>1, <1>4 DEF Traced, Pick, ReconcileDeleted, ReconcilePaused, StartEvaluation, FailFetch,
                    Cleanup, Track, TypeOK
<1>5. ASSUME NEW m \in Policies \ {n} PROVE Recalled(m)' /\ Dismissed(m)'
  BY <1>1, <1>2, <1>3, <1>4, <1>5, LeftAlone DEF InHand
<1>6. Recalled(n)' /\ Dismissed(n)'
  <2>1. CASE ReconcileDeleted(n)
    <3>1. cached[n] = Absent /\ ~Traced(n)'
      BY <1>1, <2>1, CleanupLeavesNoTrace DEF ReconcileDeleted
    <3> QED BY <1>1, <3>1 DEF Recalled, Dismissed
  <2>2. CASE ReconcilePaused(n)
    <3>1. cached[n].paused /\ cached[n] # Absent
      BY <2>2 DEF ReconcilePaused, Absent
    <3>2. process.flags.GCInterval > 0 => queue'[n] # "none"
      BY <2>2, QueueTyped, FlagOfInterval DEF ReconcilePaused
    <3> QED BY <1>1, <3>1, <3>2 DEF Recalled, Dismissed
  <2>3. CASE StartEvaluation(n)
    <3>1. cached[n] # Absent /\ InHand(n)'
      BY <2>3 DEF StartEvaluation, InHand
    <3> QED BY <1>1, <3>1 DEF Recalled, Dismissed
  <2>4. CASE FailFetch(n)
    <3>1. queue'[n] = "waiting"
      BY <2>4, QueueTyped DEF FailFetch
    <3> QED BY <3>1 DEF Recalled, Dismissed
  <2> QED BY <2>1, <2>2, <2>3, <2>4 DEF Pick
<1>7. NotWaiting'
  BY <1>3 DEF NotWaiting
<1> QED BY <1>5, <1>6, <1>7

\* Every way out of an evaluation brings a policy back that recurs, and leaves an entry
\* ready that an event has made ready meanwhile.
LEMMA ReturnsQueue ==
    ASSUME TypeOK, IInv, QueueInv, FailEvaluation \/ FailStatus \/ TimeOutStatus \/ PutStatus
    PROVE  (\A m \in Policies : Recalled(m)' /\ Dismissed(m)') /\ NotWaiting'
<1>1. PICK d \in {ErrorDelay, Interval(cur)} : Return(d) /\ UNCHANGED rateLimiters /\ pc # "idle"
  BY DEF FailEvaluation, FailStatus, TimeOutStatus, PutStatus, StatusError, AcceptStatus
<1>2. cur \in Policies /\ cur' = cur /\ pc' = "idle"
      /\ UNCHANGED <<process, uids, cached, feed, policyUIDs, policySpecs, rateLimiters>>
  BY <1>1 DEF Return, TypeOK
<1>3. queue'[cur] = After(cur, d) /\ \A m \in Policies \ {cur} : queue'[m] = queue[m]
  BY <1>1, <1>2, QueueTyped DEF Return
<1>4. \A m \in Policies : Traced(m)' <=> Traced(m)
  BY <1>2 DEF Traced
<1>5. ASSUME NEW m \in Policies \ {cur} PROVE Recalled(m)' /\ Dismissed(m)'
  BY <1>2, <1>3, <1>4, <1>5, LeftAlone DEF InHand
<1>6. Recalled(cur)'
  <2>1. Recurs(cur) => d > 0
    BY <1>1, <1>2, IntervalPositive DEF ErrorDelay
  <2>2. Recurs(cur) => queue'[cur] # "none"
    BY <1>3, <2>1 DEF After
  <2> QED BY <1>2, <2>2 DEF Recalled, Recurs
<1>7. Dismissed(cur)'
  <2>1. queue[cur] # "none" => queue[cur] = "ready"
    BY <1>1, <1>2, QueueTyped DEF QueueInv, NotWaiting
  <2>2. queue[cur] # "none" => queue'[cur] # "none"
    BY <1>3, <2>1 DEF After
  <2> QED BY <1>2, <1>4, <2>2 DEF QueueInv, Dismissed
<1> QED BY <1>2, <1>5, <1>6, <1>7 DEF NotWaiting

LEMMA QueueKept ==
    ASSUME TypeOK, IInv, QueueInv, [Next]_vars
    PROVE  (\A m \in Policies : Recalled(m)' /\ Dismissed(m)') /\ NotWaiting'
<1> USE DEF given, maps
<1>1. ASSUME UNCHANGED <<pc, cur, process, cached, queue, policyUIDs, policySpecs, rateLimiters>>,
             \A m \in Policies : (feed'[m] = feed[m] /\ uids'[m] = uids[m]) \/ Len(feed'[m]) # 0
      PROVE  (\A m \in Policies : Recalled(m)' /\ Dismissed(m)') /\ NotWaiting'
  <2>1. ASSUME NEW m \in Policies PROVE Recalled(m)' /\ Dismissed(m)'
    <3>1. Traced(m)' => Traced(m) \/ Len(feed'[m]) # 0
      BY <1>1 DEF Traced
    <3>2. Len(feed'[m]) # Len(feed[m]) => Len(feed'[m]) # 0
      BY <1>1
    <3> QED BY <1>1, <3>1, <3>2, LeftAlone DEF InHand
  <2> QED BY <1>1, <2>1 DEF QueueInv, NotWaiting
<1>2. ASSUME NEW n \in Policies, NEW o \in Policy, Store(n, o),
             \A m \in Policies \ {n} : uids'[m] = uids[m]
      PROVE  (\A m \in Policies : Recalled(m)' /\ Dismissed(m)') /\ NotWaiting'
  <2>1. feed[n] \in Seq(Policy) /\ feed' = [feed EXCEPT ![n] = Append(feed[n], o)]
    BY <1>2 DEF Store, TypeOK
  <2>2. feed'[n] = Append(feed[n], o) /\ \A m \in Policies \ {n} : feed'[m] = feed[m]
    BY <2>1 DEF TypeOK
  <2>3. Len(feed'[n]) # 0
    <3>1. Len(feed[n]) \in Nat /\ Len(Append(feed[n], o)) = Len(feed[n]) + 1
      BY <2>1, AppendProperties, LenProperties
    <3> QED BY <2>2, <3>1
  <2> QED BY <1>1, <1>2, <2>2, <2>3 DEF Store
<1>3. CASE Users
  <2>1. ASSUME NEW n \in Policies, NEW p \in BOOLEAN, Create(n, p)
        PROVE  \E o \in Policy : Store(n, o) /\ \A m \in Policies \ {n} : uids'[m] = uids[m]
    <3>1. uids[n] \in Nat
      BY UidsTyped
    <3>2. [uid |-> uids[n] + 1, paused |-> p] \in Policy
      BY <3>1 DEF Policy
    <3>3. \A m \in Policies \ {n} : uids'[m] = uids[m]
      BY <2>1 DEF Create, TypeOK
    <3> QED BY <2>1, <3>2, <3>3 DEF Create
  <2>2. ASSUME NEW n \in Policies, NEW p \in BOOLEAN, Update(n, p)
        PROVE  \E o \in Policy : Store(n, o) /\ \A m \in Policies \ {n} : uids'[m] = uids[m]
    <3>1. [stored[n] EXCEPT !.paused = p] \in Policy
      BY DEF TypeOK, Policy
    <3> QED BY <2>2, <3>1 DEF Update
  <2>3. ASSUME NEW n \in Policies, Remove(n)
        PROVE  \E o \in Policy : Store(n, o) /\ \A m \in Policies \ {n} : uids'[m] = uids[m]
    BY <2>3, AbsentTyped DEF Remove
  <2> QED BY <1>2, <1>3, <2>1, <2>2, <2>3 DEF Users
<1>4. CASE GetStatus
  <2>1. UNCHANGED <<cur, process, uids, cached, feed, queue, policyUIDs, policySpecs, rateLimiters>>
        /\ pc # "idle" /\ pc' # "idle"
    BY <1>4 DEF GetStatus
  <2> QED BY <2>1, LeftAlone DEF InHand, Traced, QueueInv, NotWaiting
<1>5. CASE Evaluate
  <2>1. UNCHANGED <<cur, process, uids, cached, feed, queue, policyUIDs, policySpecs>>
        /\ pc # "idle" /\ pc' # "idle"
    BY <1>5 DEF Evaluate
  <2>2. <<cur, policy.uid>> \in policySpecs
        /\ rateLimiters' \in {rateLimiters, rateLimiters \cup {<<cur, policy.uid>>}}
    BY <1>5 DEF Evaluate, IInv, EvaluatedTracked
  <2>3. \A m \in Policies : Traced(m)' => Traced(m)
    BY <2>1, <2>2 DEF Traced
  <2> QED BY <2>1, <2>3, LeftAlone DEF InHand, QueueInv, NotWaiting
<1>6. CASE FailEvaluation \/ FailStatus \/ TimeOutStatus \/ PutStatus
  BY <1>6, ReturnsQueue
<1>7. ASSUME NEW n \in Policies, Deliver(n) \/ DeliverStatus(n) \/ Fire(n) \/ Pick(n) \/ FailFetch(n)
      PROVE  (\A m \in Policies : Recalled(m)' /\ Dismissed(m)') /\ NotWaiting'
  BY <1>7, EventsQueue, PicksQueue
<1>8. CASE UNCHANGED vars
  BY <1>1, <1>8 DEF vars
<1> QED BY <1>3, <1>4, <1>5, <1>6, <1>7, <1>8 DEF Next, Work

\* The queue, the feed and the cache together know of every policy what is still to be done.
THEOREM QueueInvariant == Spec => []QueueInv
<1>1. Init => QueueInv
  <2> SUFFICES ASSUME Init PROVE QueueInv
    OBVIOUS
  <2>1. ASSUME NEW n \in Policies PROVE UpToDate(n) /\ Recalled(n) /\ Dismissed(n)
    <3>1. /\ Len(feed[n]) = 0 /\ cached[n] = stored[n] /\ policyUIDs[n] = 0
          /\ policySpecs = {} /\ rateLimiters = {}
      BY EmptySeq DEF Init
    <3>2. stored[n] # Absent => queue[n] = "ready"
      BY DEF Init
    <3> QED BY <3>1, <3>2 DEF UpToDate, Recalled, Dismissed, Traced
  <2> QED BY <2>1 DEF Init, QueueInv, NotWaiting
<1>2. TypeOK /\ IInv /\ QueueInv /\ [Next]_vars => QueueInv'
  <2> SUFFICES ASSUME TypeOK, IInv, QueueInv, [Next]_vars PROVE QueueInv'
    OBVIOUS
  <2>1. \A m \in Policies : UpToDate(m)'
    BY UpToDateKept DEF QueueInv
  <2> QED BY <2>1, QueueKept DEF QueueInv
<1> QED BY <1>1, <1>2, MapsInvariant, PTL DEF Spec

\* An active policy with a positive interval is queued, about to be queued by an event, or in
\* hand, in every state: no outcome of an evaluation, no pause, no error and no coalescing of
\* events lets the worker forget it (getRequeueIntervalForPolicy, handleEvaluationError).
\* What is left to fairness in EvaluatedForEver is that queued work is done.
THEOREM NeverForgotten == Spec => [](\A n \in Policies : Recurs(n) /\ Active(n) => Expected(n))
<1>1. TypeOK /\ QueueInv => \A n \in Policies : Recurs(n) /\ Active(n) => Expected(n)
  <2> SUFFICES ASSUME TypeOK, QueueInv, NEW n \in Policies, Recurs(n), Active(n), feed[n] = <<>>
               PROVE  queue[n] # "none" \/ InHand(n)
    BY DEF Expected
  <2>1. cached[n] = stored[n]
    BY EmptySeq DEF QueueInv, UpToDate
  <2>2. cached[n] # Absent /\ ~cached[n].paused
    BY <2>1 DEF Active
  <2> QED BY <2>2 DEF QueueInv, Recalled, Recurs
<1> QED BY <1>1, MapsInvariant, QueueInvariant, PTL

\* A paused policy is not lost either when --gc-interval is positive: it is looked at again
\* although no event says that it was resumed.
THEOREM PausedNeverForgotten ==
    Spec => [](\A n \in Policies : stored[n] # Absent /\ process.flags.GCInterval > 0 => Expected(n))
<1>1. TypeOK /\ QueueInv =>
        \A n \in Policies : stored[n] # Absent /\ process.flags.GCInterval > 0 => Expected(n)
  <2> SUFFICES ASSUME TypeOK, QueueInv, NEW n \in Policies, stored[n] # Absent,
                      process.flags.GCInterval > 0, feed[n] = <<>>
               PROVE  queue[n] # "none" \/ InHand(n)
    BY DEF Expected
  <2>1. cached[n] = stored[n]
    BY EmptySeq DEF QueueInv, UpToDate
  <2> QED BY <2>1 DEF QueueInv, Recalled
<1> QED BY <1>1, MapsInvariant, QueueInvariant, PTL

\* As long as anything is kept of the last incarnation of a policy that is gone, its name is
\* queued or the event of its removal is on its way, even if the removal happens in the middle
\* of its evaluation, whose limiter is only made then (cleanupPolicyResources).
THEOREM RemovedNotForgotten ==
    Spec => [](\A n \in Policies : stored[n] = Absent /\ Traced(n) => queue[n] # "none" \/ feed[n] # <<>>)
<1>1. TypeOK /\ QueueInv =>
        \A n \in Policies : stored[n] = Absent /\ Traced(n) => queue[n] # "none" \/ feed[n] # <<>>
  <2> SUFFICES ASSUME TypeOK, QueueInv, NEW n \in Policies, stored[n] = Absent, Traced(n), feed[n] = <<>>
               PROVE  queue[n] # "none"
    OBVIOUS
  <2>1. Len(feed[n]) = 0 /\ cached[n] = stored[n]
    BY EmptySeq DEF QueueInv, UpToDate
  <2> QED BY <2>1 DEF QueueInv, Dismissed
<1> QED BY <1>1, MapsInvariant, QueueInvariant, PTL

-----------------------------------------------------------------------------
(* The status.                                                             *)

\* A status belongs to a policy that is there, has the phase of an active one and counts an
\* evaluation of this incarnation or of one before.
StatusTrue(n) ==
    status[n] # NoStatus =>
        stored[n] # Absent /\ status[n].phase = "Active" /\ status[n].of \in 1 .. stored[n].uid

\* The copy in hand is of a policy that was there, and was not paused.
ActiveInHand == pc # "idle" => policy.uid \in 1 .. uids[cur] /\ ~policy.paused

\* A write that can succeed is one to a policy that is there.
WritesToStored == pc = "putStatus" /\ ~clash => stored[cur] # Absent

StatusInv == (\A n \in Policies : StatusTrue(n)) /\ ActiveInHand /\ WritesToStored

LEMMA InHandKept ==
    ASSUME TypeOK, IInv, ActiveInHand, WritesToStored, [Next]_vars PROVE ActiveInHand' /\ WritesToStored'
<1> USE DEF given, maps
<1>1. /\ cur \in Policies /\ policy.uid \in Nat /\ clash \in BOOLEAN
      /\ \A n \in Policies : uids[n] \in Nat /\ cached[n].uid \in Nat
  BY UidsTyped DEF TypeOK, Policy
<1>2. CASE Users
  <2>1. PICK n \in Policies, o \in {Absent} \cup Policy : Store(n, o)
    <3>1. ASSUME NEW n \in Policies, NEW p \in BOOLEAN, Create(n, p) PROVE \E o \in Policy : Store(n, o)
      <4>1. [uid |-> uids[n] + 1, paused |-> p] \in Policy
        BY <1>1 DEF Policy
      <4> QED BY <3>1, <4>1 DEF Create
    <3>2. ASSUME NEW n \in Policies, NEW p \in BOOLEAN, Update(n, p) PROVE \E o \in Policy : Store(n, o)
      <4>1. [stored[n] EXCEPT !.paused = p] \in Policy
        BY DEF TypeOK, Policy
      <4> QED BY <3>2, <4>1 DEF Update
    <3>3. ASSUME NEW n \in Policies, Remove(n) PROVE Store(n, Absent)
      BY <3>3 DEF Remove
    <3> QED BY <1>2, <3>1, <3>2, <3>3 DEF Users
  <2>2. UNCHANGED <<pc, cur, policy>> /\ (uids'[cur] = uids[cur] \/ uids'[cur] = uids[cur] + 1)
    <3>1. UNCHANGED <<pc, cur, policy>>
      BY <2>1 DEF Store
    <3>2. uids' = uids \/ \E m \in Policies : uids' = [uids EXCEPT ![m] = @ + 1]
      BY <1>2 DEF Users, Create, Update, Remove
    <3> QED BY <1>1, <3>1, <3>2 DEF TypeOK
  <2>3. ActiveInHand'
    <3>1. 1 .. uids[cur] \subseteq 1 .. uids'[cur]
      BY <1>1, <2>2
    <3> QED BY <2>2, <3>1 DEF ActiveInHand
  <2>4. WritesToStored'
    <3>1. pc = "putStatus" /\ cur = n => clash'
      BY <2>1 DEF Store
    <3>2. (clash => clash') /\ (n # cur => stored'[cur] = stored[cur])
      BY <1>1, <2>1 DEF Store, TypeOK
    <3> QED BY <2>2, <3>1, <3>2 DEF WritesToStored
  <2> QED BY <2>3, <2>4
<1>3. ASSUME NEW n \in Policies, StartEvaluation(n) PROVE ActiveInHand' /\ WritesToStored'
  <2>1. pc' = "evaluate" /\ cur' = n /\ policy' = cached[n] /\ uids' = uids
        /\ cached[n] # Absent /\ ~cached[n].paused
    BY <1>3 DEF StartEvaluation
  <2>2. cached[n].uid <= uids[n] /\ cached[n].uid # 0
    BY <2>1 DEF IInv, NameInv, Known, Version
  <2>3. cached[n].uid \in 1 .. uids[n]
    BY <1>1, <2>2
  <2> QED BY <2>1, <2>3 DEF ActiveInHand, WritesToStored
<1>4. CASE GetStatus
  BY <1>4 DEF GetStatus, ActiveInHand, WritesToStored
<1>5. CASE Evaluate
  BY <1>5 DEF Evaluate, ActiveInHand, WritesToStored
<1>6. CASE FailEvaluation \/ FailStatus \/ TimeOutStatus \/ PutStatus
  BY <1>6 DEF FailEvaluation, FailStatus, TimeOutStatus, PutStatus, Return, ActiveInHand, WritesToStored
<1>7. ASSUME UNCHANGED <<pc, cur, policy, clash, stored, uids>> PROVE ActiveInHand' /\ WritesToStored'
  BY <1>7 DEF ActiveInHand, WritesToStored
<1>8. ASSUME NEW n \in Policies,
             \/ Deliver(n) \/ DeliverStatus(n) \/ Fire(n) \/ FailFetch(n)
             \/ ReconcileDeleted(n) \/ ReconcilePaused(n)
      PROVE  UNCHANGED <<pc, cur, policy, clash, stored, uids>>
  BY <1>8 DEF Deliver, DeliverStatus, Fire, FailFetch, ReconcileDeleted, ReconcilePaused
<1>9. CASE UNCHANGED vars
  BY <1>7, <1>9 DEF vars
<1> QED BY <1>2, <1>3, <1>4, <1>5, <1>6, <1>7, <1>8, <1>9 DEF Next, Work, Pick

LEMMA StatusKept ==
    ASSUME TypeOK, IInv, StatusInv, [Next]_vars, NEW m \in Policies PROVE StatusTrue(m)'
<1> USE DEF given, maps
<1>1. StatusTrue(m) /\ stored[m].uid \in Nat
  BY UidsTyped DEF StatusInv
<1>2. ASSUME status'[m] = NoStatus PROVE StatusTrue(m)'
  BY <1>2 DEF StatusTrue
<1>3. ASSUME status'[m] = status[m], stored'[m] = stored[m] PROVE StatusTrue(m)'
  BY <1>1, <1>3 DEF StatusTrue
<1>4. ASSUME NEW n \in Policies, NEW p \in BOOLEAN, Create(n, p) PROVE StatusTrue(m)'
  BY <1>2, <1>3, <1>4 DEF Create, Store, TypeOK
<1>5. ASSUME NEW n \in Policies, NEW p \in BOOLEAN, Update(n, p) PROVE StatusTrue(m)'
  <2>1. status' = status /\ stored[n] # Absent /\ stored' = [stored EXCEPT ![n] = [stored[n] EXCEPT !.paused = p]]
    BY <1>5 DEF Update, Store
  <2>2. CASE n # m
    BY <1>3, <2>1, <2>2 DEF TypeOK
  <2>3. CASE n = m
    <3>1. stored[n].uid # 0
      BY <2>1 DEF IInv, NameInv, Known, Version
    <3>2. stored'[m].uid = stored[m].uid /\ stored'[m].uid # 0
      BY <2>1, <2>3, <3>1 DEF TypeOK, Policy
    <3> QED BY <1>1, <2>1, <3>2 DEF StatusTrue, Absent
  <2> QED BY <2>2, <2>3
<1>6. ASSUME NEW n \in Policies, Remove(n) PROVE StatusTrue(m)'
  BY <1>2, <1>3, <1>6 DEF Remove, Store, TypeOK
<1>7. CASE AcceptStatus /\ stored' = stored
  <2> DEFINE new == [phase |-> IF policy.paused THEN "Paused" ELSE "Active", of |-> policy.uid]
  <2>1. pc = "putStatus" /\ ~clash /\ cur \in Policies /\ stored' = stored
        /\ status' = [status EXCEPT ![cur] = new]
    BY <1>7 DEF AcceptStatus, TypeOK
  <2>2. CASE cur # m
    BY <1>3, <2>1, <2>2 DEF TypeOK
  <2>3. CASE cur = m
    <3>1. stored[m] # Absent /\ policy.uid \in 1 .. uids[m] /\ ~policy.paused
      BY <2>1, <2>3 DEF StatusInv, ActiveInHand, WritesToStored
    <3>2. stored[m].uid = uids[m]
      BY <3>1 DEF IInv, NameInv, Known, Version
    <3>3. status'[m] = new
      BY <2>1, <2>3 DEF TypeOK
    <3> QED BY <2>1, <3>1, <3>2, <3>3 DEF StatusTrue
  <2> QED BY <2>2, <2>3
<1>8. CASE Work
  <2>1. stored' = stored /\ (AcceptStatus \/ status' = status)
    BY <1>8 DEF Work, FailEvaluation, Evaluate, GetStatus, FailStatus, TimeOutStatus, PutStatus, StatusError, Return
  <2> QED BY <1>3, <1>7, <2>1
<1>9. ASSUME NEW n \in Policies, Deliver(n) \/ DeliverStatus(n) \/ Fire(n) \/ Pick(n) \/ FailFetch(n)
      PROVE  StatusTrue(m)'
  BY <1>3, <1>9 DEF Deliver, DeliverStatus, Fire, FailFetch, Pick, ReconcileDeleted, ReconcilePaused,
                    StartEvaluation
<1>10. CASE UNCHANGED vars
  BY <1>3, <1>10 DEF vars
<1> QED BY <1>4, <1>5, <1>6, <1>8, <1>9, <1>10 DEF Next, Users

\* Optimistic concurrency keeps the status of a removed policy from coming back, and a status
\* never counts an evaluation of a later incarnation.  It never says Paused, since Reconcile
\* returns before the status of a paused policy is written (UpdateStatus).
THEOREM StatusAlwaysTrue == Spec => [](\A n \in Policies : StatusTrue(n))
<1>1. Init => StatusInv
  BY DEF Init, StatusInv, StatusTrue, ActiveInHand, WritesToStored
<1>2. TypeOK /\ IInv /\ StatusInv /\ [Next]_vars => StatusInv'
  BY InHandKept, StatusKept DEF StatusInv
<1>3. StatusInv => \A n \in Policies : StatusTrue(n)
  BY DEF StatusInv
<1> QED BY <1>1, <1>2, <1>3, MapsInvariant, PTL DEF Spec
=============================================================================
