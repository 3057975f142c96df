------------------------- MODULE GCRefinementProofs -------------------------
(***************************************************************************)
(* GCEvaluation implements CollectorPromise, for every value of the        *)
(* constants.  The mapped variables depend on live, uids, victims and      *)
(* announced only; each step is a create, a removal by somebody else, a    *)
(* collection, a report, or leaves all four mapped variables alone.        *)
(***************************************************************************)
EXTENDS GCRefinement, GCEvaluationProofs

mapped == <<uids, Departed, Collected, Reported>>

-----------------------------------------------------------------------------
(* The mapped sets, element by element.                                    *)

LEMMA DepartedIsGone ==
    ASSUME TypeOK, NEW n \in Names, NEW u \in Nat
    PROVE  <<n, u>> \in Departed <=> Gone(n, u)
<1>1. <<n, u>> \in Born <=> u \in 1 .. uids[n]
  <2>1. ASSUME u \in 1 .. uids[n] PROVE <<n, u>> \in Born
    BY <2>1 DEF Born
  <2>2. ASSUME <<n, u>> \in Born PROVE u \in 1 .. uids[n]
    BY <2>2 DEF Born
  <2> QED BY <2>1, <2>2
<1>2. u \in 1 .. uids[n] <=> u # 0 /\ u <= uids[n]
  BY DEF TypeOK
<1> QED BY <1>1, <1>2 DEF Departed, Gone

LEMMA DepartedArePairs ==
    ASSUME NEW o \in Departed PROVE \E n \in Names, u \in Nat : o = <<n, u>>
BY DEF Departed, Born

LEMMA DepartedPrimed ==
    ASSUME TypeOK', NEW n \in Names, NEW u \in Nat
    PROVE  (<<n, u>> \in Departed)' <=> Gone(n, u)'
<1>1. (TypeOK => (<<n, u>> \in Departed <=> Gone(n, u)))'
  BY DepartedIsGone, PTL
<1> QED BY <1>1

\* The set grows by the objects that became gone.
LEMMA DepartedGrows ==
    ASSUME TypeOK, TypeOK', NEW S \in SUBSET (Names \X Nat),
           \A n \in Names, u \in Nat : Gone(n, u)' <=> (Gone(n, u) \/ <<n, u>> \in S)
    PROVE  Departed' = Departed \cup S
<1>1. ASSUME NEW n \in Names, NEW u \in Nat
      PROVE  <<n, u>> \in Departed' <=> <<n, u>> \in Departed \cup S
  BY DepartedIsGone, DepartedPrimed
<1>2. ASSUME NEW o \in Departed' PROVE \E n \in Names, u \in Nat : o = <<n, u>>
  BY DEF Departed, Born
<1>3. ASSUME NEW o \in Departed \cup S PROVE \E n \in Names, u \in Nat : o = <<n, u>>
  BY DepartedArePairs
<1> QED BY <1>1, <1>2, <1>3

-----------------------------------------------------------------------------
(* What a step does to the objects.                                        *)

\* The live object of n goes, or starts to terminate.
Departs(n) ==
    /\ live[n].uid # 0 /\ ~live[n].terminating /\ uids' = uids
    /\ live'[n] = Absent \/ (live'[n].uid = live[n].uid /\ live'[n].terminating)
    /\ \A m \in Names : m # n => live'[m] = live[m]

LEMMA DepartsRefines ==
    ASSUME TypeOK, TypeOK', LiveIsNewest, NEW n \in Names, Departs(n)
    PROVE  Promise!There(n) /\ Departed' = Departed \cup {<<n, uids[n]>>}
<1>1. /\ uids[n] \in Nat /\ uids[n] # 0 /\ live[n].uid = uids[n]
      /\ live'[n].uid # uids[n] \/ live'[n].terminating
  <2>1. uids[n] \in Nat
    BY DEF TypeOK
  <2>2. live[n].uid # 0 /\ live[n].uid = uids[n]
    BY DEF Departs, LiveIsNewest
  <2>3. Absent.uid = 0
    BY DEF Absent
  <2> QED BY <2>1, <2>2, <2>3 DEF Departs
<1>2. ~Gone(n, uids[n])
  BY <1>1 DEF Gone, Departs
<1>3. Promise!There(n)
  BY <1>1, <1>2, DepartedIsGone DEF Promise!There
<1>4. ASSUME NEW m \in Names, NEW u \in Nat
      PROVE  Gone(m, u)' <=> (Gone(m, u) \/ <<m, u>> \in {<<n, uids[n]>>})
  <2>1. CASE m # n
    BY <2>1 DEF Gone, Departs
  <2>2. CASE m = n /\ u = uids[n]
    BY <1>1, <2>2 DEF Gone, Departs
  <2>3. CASE m = n /\ u # uids[n]
    <3>1. live'[n].uid = 0 \/ live'[n].uid = uids[n]
      BY <1>1 DEF Departs, Absent
    <3>2. u # 0 /\ u <= uids[n] => Gone(m, u) /\ Gone(m, u)'
      BY <1>1, <2>3, <3>1 DEF Gone, Departs
    <3>3. Gone(m, u) \/ Gone(m, u)' => u # 0 /\ u <= uids[n]
      BY <2>3 DEF Gone, Departs
    <3>4. <<m, u>> # <<n, uids[n]>>
      BY <2>3
    <3> QED BY <3>2, <3>3, <3>4
  <2> QED BY <2>1, <2>2, <2>3
<1>5. {<<n, uids[n]>>} \in SUBSET (Names \X Nat)
  BY <1>1
<1>6. Departed' = Departed \cup {<<n, uids[n]>>}
  <2> DEFINE S == {<<n, uids[n]>>}
  <2>1. S \in SUBSET (Names \X Nat)
    BY <1>5
  <2>2. \A m \in Names, u \in Nat : Gone(m, u)' <=> (Gone(m, u) \/ <<m, u>> \in S)
    BY <1>4
  <2> HIDE DEF S
  <2>3. Departed' = Departed \cup S
    BY <2>1, <2>2, DepartedGrows
  <2> QED BY <2>3 DEF S
<1> QED BY <1>3, <1>6

\* Nothing goes: the objects are the same ones, or a new one was created.
LEMMA NothingDeparts ==
    ASSUME TypeOK, TypeOK', \A n \in Names, u \in Nat : Gone(n, u)' <=> Gone(n, u)
    PROVE  Departed' = Departed
<1>1. Departed' = Departed \cup {}
  BY DepartedGrows
<1> QED BY <1>1

LEMMA CreateRefines ==
    ASSUME TypeOK, TypeOK', LiveIsNewest, NEW n \in Names, NEW c \in Classes, Create(n, c)
    PROVE  Promise!Create(n)
<1>1. /\ uids[n] \in Nat /\ live[n] = Absent /\ uids' = [uids EXCEPT ![n] = @ + 1]
      /\ live'[n].uid = uids[n] + 1 /\ ~live'[n].terminating
      /\ \A m \in Names : m # n => live'[m] = live[m] /\ uids'[m] = uids[m]
  BY DEF TypeOK, Create, Store
<1>2. uids[n] # 0 => Gone(n, uids[n])
  BY <1>1 DEF Gone, Absent
<1>3. ~Promise!There(n)
  BY <1>1, <1>2, DepartedIsGone DEF Promise!There
<1>4. ASSUME NEW m \in Names, NEW u \in Nat PROVE Gone(m, u)' <=> Gone(m, u)
  <2>1. CASE m # n
    BY <1>1, <2>1 DEF Gone
  <2>2. CASE m = n
    <3>1. uids'[n] = uids[n] + 1
      BY <1>1 DEF TypeOK
    <3> QED BY <1>1, <2>2, <3>1 DEF Gone, Absent
  <2> QED BY <2>1, <2>2
<1>5. Departed' = Departed
  BY <1>4, NothingDeparts
<1>6. Collected' = Collected /\ Reported' = Reported
  BY DEF Create, leader, Collected, Reported
<1> QED BY <1>1, <1>3, <1>5, <1>6 DEF Promise!Create

LEMMA StoreOne ==
    ASSUME TypeOK, NEW n \in Names, NEW o, Store(n, o)
    PROVE  live'[n] = o /\ \A m \in Names : m # n => live'[m] = live[m]
BY DEF TypeOK, Store

LEMMA RelabelRefines ==
    ASSUME TypeOK, TypeOK', NEW n \in Names, NEW c \in Classes, Relabel(n, c)
    PROVE  UNCHANGED mapped
<1>1. /\ live'[n] = [live[n] EXCEPT !.class = c] /\ uids' = uids
      /\ \A m \in Names : m # n => live'[m] = live[m]
  BY StoreOne DEF Relabel
<1>2. live[n] \in Object
  BY DEF TypeOK
<1>3. live'[n].uid = live[n].uid /\ live'[n].terminating = live[n].terminating
  BY <1>1, <1>2 DEF Object
<1>4. \A m \in Names, u \in Nat : Gone(m, u)' <=> Gone(m, u)
  BY <1>1, <1>3 DEF Gone
<1>5. Departed' = Departed
  BY <1>4, NothingDeparts
<1> QED BY <1>1, <1>5 DEF Relabel, leader, mapped, Collected, Reported

\* Removing a terminating object completes what has begun.
LEMMA RemoveRefines ==
    ASSUME TypeOK, TypeOK', LiveIsNewest, NEW n \in Names, Remove(n)
    PROVE  Promise!Leave(n) \/ UNCHANGED mapped
<1>1. /\ live'[n] = Absent /\ uids' = uids /\ live[n].uid # 0
      /\ \A m \in Names : m # n => live'[m] = live[m]
  BY StoreOne DEF Remove, LiveIsNewest
<1>2. Collected' = Collected /\ Reported' = Reported
  BY DEF Remove, leader, Collected, Reported
<1>3. CASE live[n].terminating
  <2>1. ASSUME NEW m \in Names, NEW u \in Nat PROVE Gone(m, u)' <=> Gone(m, u)
    BY <1>1, <1>3 DEF Gone, Absent
  <2> QED BY <1>1, <1>2, <2>1, NothingDeparts DEF mapped
<1>4. CASE ~live[n].terminating
  <2>1. Departs(n)
    BY <1>1, <1>4 DEF Departs
  <2> QED BY <1>1, <1>2, <2>1, DepartsRefines DEF Promise!Leave
<1> QED BY <1>3, <1>4

\* A DELETE that finds its name taken by an object that is not terminating yet.
LEMMA ServerDeleteRefines ==
    ASSUME TypeOK, TypeOK', LiveIsNewest, NEW r \in inflight, ServerDelete(r)
    PROVE  (\E n \in Names : Promise!Collect(n)) \/ UNCHANGED mapped
<1> DEFINE n == r.name
           v == [name |-> n, uid |-> live[n].uid, judged |-> r.uid, state |-> Verdict(live[n])]
<1>1. n \in Names /\ live[n] \in Object
  BY DEF TypeOK, Request
<1>2. uids' = uids /\ Reported' = Reported
  BY DEF ServerDelete, server, Reported
<1>3. CASE UNCHANGED <<live, feed, victims>>
  <2>1. \A m \in Names, u \in Nat : Gone(m, u)' <=> Gone(m, u)
    BY <1>2, <1>3 DEF Gone
  <2> QED BY <1>2, <1>3, <2>1, NothingDeparts DEF mapped, Collected
<1>4. CASE /\ live[n] # Absent /\ ~live[n].terminating /\ victims' = victims \cup {v}
           /\ \/ Store(n, Absent)
              \/ Store(n, [live[n] EXCEPT !.terminating = TRUE])
  <2>1. live[n].uid # 0 /\ live[n].uid = uids[n]
    BY <1>1, <1>4 DEF LiveIsNewest
  <2>2. Departs(n)
    <3>1. /\ live'[n] = Absent \/ live'[n] = [live[n] EXCEPT !.terminating = TRUE]
          /\ \A m \in Names : m # n => live'[m] = live[m]
      BY <1>1, <1>4, StoreOne
    <3>2. live'[n] = Absent \/ (live'[n].uid = live[n].uid /\ live'[n].terminating)
      BY <1>1, <3>1 DEF Object
    <3> QED BY <1>2, <1>4, <2>1, <3>1, <3>2 DEF Departs
  <2>3. Collected' = Collected \cup {<<n, uids[n]>>}
    <3>1. <<v.name, v.uid>> = <<n, uids[n]>>
      BY <2>1
    <3> HIDE DEF v
    <3> QED BY <1>4, <3>1 DEF Collected
  <2>4. Promise!Collect(n)
    BY <1>1, <1>2, <2>2, <2>3, DepartsRefines DEF Promise!Collect
  <2> QED BY <1>1, <2>4
<1> QED BY <1>3, <1>4 DEF ServerDelete

\* A success is reported for an object that is gone; a rehearsal is not reported.
LEMMA SucceedRefines ==
    ASSUME TypeOK, idx < Len(todo), runDry \/ Gone(Current.name, Current.uid), Succeed
    PROVE  (\E o \in Departed : Promise!Report(o)) \/ UNCHANGED mapped
<1> DEFINE a == [name |-> Current.name, uid |-> Current.uid, dry |-> runDry]
           o == <<a.name, a.uid>>
<1>1. /\ announced' = announced \cup {a} /\ UNCHANGED <<live, uids, victims>>
  BY DEF Succeed, cluster, world
<1>2. Departed' = Departed /\ Collected' = Collected
  BY <1>1 DEF Departed, Born, Collected
<1>3. a.name \in Names /\ a.uid \in Nat /\ a.dry = runDry
  BY CurrentTyped DEF Request
<1>4. a.name = Current.name /\ a.uid = Current.uid
  OBVIOUS
<1> HIDE DEF a
<1>5. CASE runDry
  <2>1. Reported' = Reported
    BY <1>1, <1>3, <1>5 DEF Reported
  <2> QED BY <1>1, <1>2, <2>1 DEF mapped
<1>6. CASE ~runDry
  <2>1. Reported' = Reported \cup {o}
    BY <1>1, <1>3, <1>6 DEF Reported
  <2>2. o \in Departed
    BY <1>3, <1>4, <1>6, DepartedIsGone
  <2>3. Promise!Report(o)
    BY <1>1, <1>2, <2>1, <2>2 DEF Promise!Report
  <2> QED BY <2>2, <2>3
<1> QED BY <1>5, <1>6

-----------------------------------------------------------------------------
(* Every step of GCEvaluation is a step of the promise, or none.           *)

LEMMA StepRefines ==
    ASSUME TypeOK, TypeOK', IInv, [Next]_vars
    PROVE  Promise!Next \/ UNCHANGED mapped
<1> USE DEF IInv
<1>1. ASSUME UNCHANGED <<live, uids, victims, announced>> PROVE UNCHANGED mapped
  BY <1>1 DEF mapped, Departed, Born, Collected, Reported
<1>2. ASSUME NEW n \in Names, NEW c \in Classes, Create(n, c) \/ Relabel(n, c)
      PROVE  Promise!Next \/ UNCHANGED mapped
  BY <1>2, CreateRefines, RelabelRefines DEF Promise!Next
<1>3. ASSUME NEW n \in Names, Remove(n) PROVE Promise!Next \/ UNCHANGED mapped
  BY <1>3, RemoveRefines DEF Promise!Next
<1>4. ASSUME NEW r \in inflight, ServerDelete(r) PROVE Promise!Next \/ UNCHANGED mapped
  BY <1>4, ServerDeleteRefines DEF Promise!Next
<1>5. CASE Attempt
  <2>1. idx < Len(todo) /\ (Succeed => runDry)
    <3>1. idx < Len(todo)
      BY <1>5 DEF Attempt, HasCurrent
    <3>2. CASE Fail
      <4>1. announced' = announced /\ idx' = idx + 1 /\ errs' = errs + 1
        BY <3>2 DEF Fail, NextResource
      <4>2. Succeed => errs' = errs
        BY DEF Succeed
      <4> QED BY <3>1, <4>1, <4>2 DEF TypeOK
    <3>3. CASE Send
      BY <3>1, <3>3 DEF Send, Succeed, NextResource
    <3> QED BY <1>5, <3>1, <3>2, <3>3 DEF Attempt
  <2>2. CASE Succeed
    BY <2>1, <2>2, SucceedRefines DEF Promise!Next
  <2>3. CASE Fail \/ Send
    BY <1>1, <2>3 DEF Fail, Send, cluster, world
  <2> QED BY <1>5, <2>2, <2>3 DEF Attempt
<1>6. CASE Receive
  <2>1. idx < Len(todo)
    BY <1>6 DEF Receive, HasCurrent
  <2>2. CASE reply = "done" /\ Succeed
    BY <2>1, <2>2, SucceedRefines DEF Promise!Next, AnswerIsTrue
  <2>3. CASE ~(reply = "done" /\ Succeed)
    BY <1>1, <1>6, <2>3 DEF Receive, Fail, cluster, world
  <2> QED BY <2>2, <2>3
<1>7. ASSUME NEW m \in {"active", "dry", "paused", "gone"}, EditPolicy(m) PROVE UNCHANGED mapped
  BY <1>1, <1>7 DEF EditPolicy, leader
<1>8. ASSUME NEW n \in Names, Deliver(n) PROVE UNCHANGED mapped
  BY <1>1, <1>8 DEF Deliver, leader
<1>9. ASSUME NEW e \in items, Classify(e) PROVE UNCHANGED mapped
  BY <1>1, <1>9 DEF Classify, cluster, world
<1>10. CASE StartEvaluation \/ EndClassification \/ EndDeletion \/ TakeToken
  BY <1>1, <1>10 DEF StartEvaluation, EndClassification, EndDeletion, TakeToken, Fail, cluster, world
<1>11. CASE WriteStatus \/ LoseStatus \/ Exit \/ Takeover \/ Tick \/ Cancel \/ UNCHANGED vars
  BY <1>1, <1>11
     DEF WriteStatus, LoseStatus, EndRun, Exit, Takeover, Tick, Cancel, vars, cluster, world, leader
<1>12. ASSUME NEW r \in inflight, ServerReject(r) \/ ServerTimeout(r) PROVE UNCHANGED mapped
  BY <1>1, <1>12 DEF ServerReject, ServerTimeout, server
<1> QED
  BY <1>2, <1>3, <1>4, <1>5, <1>6, <1>7, <1>8, <1>9, <1>10, <1>11, <1>12
     DEF Next, Users, Evaluation, Server, Classes

LEMMA InitRefines == Init => Promise!Init
<1> SUFFICES ASSUME Init PROVE Promise!Init
  OBVIOUS
<1>1. Departed = {}
  BY DEF Init, Departed, Born
<1>2. Collected = {} /\ Reported = {}
  BY DEF Init, Collected, Reported
<1> QED BY <1>1, <1>2 DEF Init, Promise!Init

\* Whatever is listed, retried, lost, raced or taken over, the collector keeps its
\* promise: it takes only what is there and reports only what has gone for good
\* (EvaluatePolicy, deleteResourceWithBackoffShared, performResourceDeletion).
THEOREM PromiseCorrect == Spec => PromiseKept
<1>1. TypeOK /\ TypeOK' /\ IInv /\ [Next]_vars => [Promise!Next]_(Promise!vars)
  BY StepRefines DEF Promise!vars, mapped
<1> QED BY <1>1, InitRefines, InvariantHolds, PTL DEF Spec, PromiseKept, Promise!Spec
=============================================================================
