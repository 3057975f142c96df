------------------------- MODULE GCEvaluationProofs -------------------------
(***************************************************************************)
(* Proofs about GCEvaluation, for every set of names, batch size, number   *)
(* of retries and TTL.                                                     *)
(***************************************************************************)
EXTENDS GCEvaluation, SequenceTheorems, TLAPS

-----------------------------------------------------------------------------
(* The inductive invariant.                                                *)

\* A version of an object under name n that some store, list or request still
\* holds: its UID was handed out, and if it is the live object's the birth agrees.
Known(n, uid, born) ==
    /\ uid <= uids[n]
    /\ uid # 0 /\ uid = live[n].uid => born = live[n].born

\* A live object carries the newest UID of its name.
LiveIsNewest ==
    \A n \in Names : /\ live[n].uid = 0 => live[n] = Absent
                     /\ live[n].uid # 0 => live[n].uid = uids[n]

\* The watch stream and the informer store hold known versions.
ViewsKnown ==
    \A n \in Names : /\ Known(n, cache[n].uid, cache[n].born)
                     /\ \A k \in 1 .. Len(feed[n]) : Known(n, feed[n][k].uid, feed[n][k].born)

\* So do the lists of the evaluation; what is to be deleted is due.
ListsKnown ==
    /\ \A e \in items : e.uid # 0 /\ Known(e.name, e.uid, e.born)
    /\ \A i \in 1 .. Len(todo) : /\ todo[i].uid # 0
                                 /\ Known(todo[i].name, todo[i].uid, todo[i].born)
                                 /\ Due(todo[i])

\* A request names a UID that was handed out and whose object has expired.
RequestsKnown ==
    \A r \in inflight : /\ r.uid # 0 /\ r.uid <= uids[r.name]
                        /\ r.uid = live[r.name].uid => now > live[r.name].born + TTL

Gone(n, uid) == /\ uid # 0 /\ uid <= uids[n]
                /\ live[n].uid # uid \/ live[n].terminating

\* The evaluation has a current resource while it is deleting one.
HasCurrent == pc \in {"attempt", "inflight"} => idx < Len(todo)

\* A success the evaluation has heard of is one.
AnswerIsTrue ==
    /\ reply # "none" => pc = "inflight"
    /\ reply = "done" => Gone(Current.name, Current.uid)

AnnouncedAreGone == \A a \in announced : ~a.dry => Gone(a.name, a.uid)

IInv == /\ LiveIsNewest /\ ViewsKnown /\ ListsKnown /\ RequestsKnown
        /\ HasCurrent /\ AnswerIsTrue /\ AnnouncedAreGone /\ CollateralIsSuccessor

-----------------------------------------------------------------------------
(* Type correctness.                                                       *)

LEMMA StoreTyped ==
    ASSUME TypeOK, NEW n \in Names, NEW o \in Object, Store(n, o)
    PROVE  live' \in [Names -> Object] /\ feed' \in [Names -> Seq(Object)]
<1>1. live' \in [Names -> Object]
  BY DEF TypeOK, Store
<1>2. feed[n] \in Seq(Object)
  BY DEF TypeOK
<1>3. Append(feed[n], o) \in Seq(Object)
  BY <1>2, AppendProperties
<1> QED BY <1>1, <1>3 DEF TypeOK, Store

LEMMA AbsentTyped == Absent \in Object
BY DEF Absent, Object, Classes

LEMMA ListedTyped == TypeOK => Listed \in SUBSET Entry
BY DEF TypeOK, Listed, Entry, Object

LEMMA CurrentTyped == TypeOK /\ idx < Len(todo) => Current \in Request
<1> SUFFICES ASSUME TypeOK, idx < Len(todo) PROVE Current \in Request
  OBVIOUS
<1>1. idx + 1 \in 1 .. Len(todo) /\ todo \in Seq(Entry)
  BY DEF TypeOK
<1>2. todo[idx + 1] \in Entry
  BY <1>1, ElementOfSeq
<1> QED BY <1>2 DEF Current, Request, Entry, TypeOK

\* Every step keeps every variable in its type.
LEMMA TypeInductive == TypeOK /\ HasCurrent /\ [Next]_vars => TypeOK'
<1> SUFFICES ASSUME TypeOK, HasCurrent, [Next]_vars PROVE TypeOK'
  OBVIOUS
<1> USE DEF world, cluster, leader, work, progress, server
<1>1. ASSUME NEW n \in Names, NEW c \in Classes, Create(n, c) PROVE TypeOK'
  <2> DEFINE o == [uid |-> uids[n] + 1, class |-> c, born |-> now, terminating |-> FALSE]
  <2>a. uids[n] \in Nat /\ now \in Nat
    BY DEF TypeOK
  <2>b. uids[n] + 1 \in Nat
    BY <2>a
  <2>1. o \in Object /\ Store(n, o)
    BY <1>1, <2>a, <2>b DEF Create, Object
  <2>2. live' \in [Names -> Object] /\ feed' \in [Names -> Seq(Object)]
    BY <2>1, StoreTyped
  <2> HIDE DEF o
  <2>3. uids' \in [Names -> Nat] /\ edits' \in Nat
    BY <1>1 DEF Create, Edit, TypeOK
  <2> QED BY <1>1, <2>2, <2>3 DEF Create, TypeOK
<1>2. ASSUME NEW n \in Names, NEW c \in Classes, Relabel(n, c) PROVE TypeOK'
  <2> DEFINE o == [live[n] EXCEPT !.class = c]
  <2>a. live[n] \in Object
    BY DEF TypeOK
  <2>b. o \in Object
    BY <2>a DEF Object
  <2>1. o \in Object /\ Store(n, o)
    BY <1>2, <2>b DEF Relabel
  <2>2. live' \in [Names -> Object] /\ feed' \in [Names -> Seq(Object)]
    BY <2>1, StoreTyped
  <2> HIDE DEF o
  <2>3. edits' \in Nat
    BY <1>2 DEF Relabel, Edit, TypeOK
  <2> QED BY <1>2, <2>2, <2>3 DEF Relabel, TypeOK
<1>3. ASSUME NEW n \in Names, Remove(n) PROVE TypeOK'
  <2>1. live' \in [Names -> Object] /\ feed' \in [Names -> Seq(Object)]
    BY <1>3, AbsentTyped, StoreTyped DEF Remove
  <2> QED BY <1>3, <2>1 DEF Remove, TypeOK, Edit
<1>4. ASSUME NEW m \in {"active", "dry", "paused", "gone"}, EditPolicy(m) PROVE TypeOK'
  BY <1>4 DEF EditPolicy, TypeOK, Edit
<1>5. CASE Tick
  BY <1>5 DEF Tick, TypeOK
<1>6. ASSUME NEW n \in Names, Deliver(n) PROVE TypeOK'
  <2> PICK k \in {1, Len(feed[n])} :
         /\ cache' = [cache EXCEPT ![n] = feed[n][k]]
         /\ feed' = [feed EXCEPT ![n] = SubSeq(@, k + 1, Len(@))]
    BY <1>6 DEF Deliver
  <2>1. feed[n] \in Seq(Object) /\ k \in 1 .. Len(feed[n])
    BY <1>6 DEF Deliver, TypeOK
  <2>2. feed[n][k] \in Object
    BY <2>1, ElementOfSeq
  <2>3. SubSeq(feed[n], k + 1, Len(feed[n])) \in Seq(Object)
    BY <2>1, SubSeqProperties, ElementOfSeq
  <2> QED BY <1>6, <2>2, <2>3 DEF Deliver, TypeOK
<1>7. CASE StartEvaluation
  BY <1>7, ListedTyped DEF StartEvaluation, TypeOK
<1>8. ASSUME NEW e \in items, Classify(e) PROVE TypeOK'
  <2>1. Append(todo, e) \in Seq(Entry)
    BY AppendProperties DEF TypeOK
  <2>2. items' \in SUBSET Entry /\ seen' \in Nat
    BY <1>8 DEF Classify, TypeOK
  <2>3. matched' \in Nat /\ pending' \in Nat /\ todo' \in Seq(Entry)
    <3>1. matched \in Nat /\ pending \in Nat /\ todo \in Seq(Entry)
      BY DEF TypeOK
    <3>2. /\ matched' \in {matched, matched + 1} /\ pending' \in {pending, pending + 1}
          /\ todo' \in {todo, Append(todo, e)}
      BY <1>8 DEF Classify
    <3> QED BY ONLY <2>1, <3>1, <3>2
  <2> QED BY <1>8, <2>2, <2>3 DEF Classify, TypeOK
<1>9. CASE EndClassification
  BY <1>9 DEF EndClassification, TypeOK
<1>10. CASE EndDeletion
  BY <1>10 DEF EndDeletion, TypeOK
<1>11. ASSUME Fail PROVE TypeOK'
  BY <1>11 DEF Fail, NextResource, TypeOK
<1>12. ASSUME Succeed, idx < Len(todo) PROVE TypeOK'
  <2>1. [name |-> Current.name, uid |-> Current.uid, dry |-> runDry]
           \in [name: Names, uid: Nat, dry: BOOLEAN]
    BY <1>12, CurrentTyped DEF TypeOK, Request
  <2> QED BY <1>12, <2>1 DEF Succeed, NextResource, TypeOK
<1>13. CASE TakeToken
  <2>1. CASE cancelled
    BY <1>13, <2>1, <1>11 DEF TakeToken
  <2>2. CASE ~cancelled
    <3>1. /\ pc' = "attempt" /\ step' = 0
          /\ UNCHANGED <<cluster, inflight, status, cache, cancelled, runDry, work,
                         progress, reply, announced, victims>>
      BY <1>13, <2>2 DEF TakeToken
    <3> QED BY <3>1 DEF TypeOK
  <2> QED BY <2>1, <2>2
<1>14. CASE Attempt
  <2>1. idx < Len(todo)
    BY <1>14 DEF HasCurrent, Attempt
  <2>2. CASE Fail
    BY <2>2, <1>11
  <2>3. CASE Succeed
    BY <2>1, <2>3, <1>12
  <2>4. CASE ~Fail /\ ~Succeed
    <3>1. inflight' \in SUBSET Request
      BY <1>14, <2>1, <2>4, CurrentTyped DEF Attempt, Send, TypeOK
    <3> QED BY <1>14, <2>4, <3>1 DEF Attempt, Send, TypeOK
  <2> QED BY <2>2, <2>3, <2>4
<1>15. CASE Receive
  <2>1. idx < Len(todo)
    BY <1>15 DEF HasCurrent, Receive
  <2>2. CASE Fail
    BY <2>2, <1>11
  <2>3. CASE Succeed
    BY <2>1, <2>3, <1>12
  <2>4. CASE /\ pc' = "attempt" /\ step' = step + 1 /\ reply' = "none"
             /\ UNCHANGED <<cluster, inflight, status, cache, cancelled, runDry, work,
                            progress, announced, victims>>
    BY <2>4 DEF TypeOK
  <2> QED BY <1>15, <2>2, <2>3, <2>4 DEF Receive
<1>16. ASSUME EndRun, status' \in Count PROVE TypeOK'
  BY <1>16, EmptySeq DEF EndRun, TypeOK
<1>17. CASE WriteStatus \/ LoseStatus
  <2>1. status' \in Count
    BY <1>17 DEF WriteStatus, LoseStatus, Count, TypeOK
  <2> QED BY <1>16, <1>17, <2>1 DEF WriteStatus, LoseStatus
<1>18. ASSUME NEW r \in inflight, ServerDelete(r) PROVE TypeOK'
  <2>1. /\ inflight' \in SUBSET Request /\ faults' \in Nat
        /\ reply' \in {"none", "done", "retryable", "fatal"}
    BY <1>18 DEF ServerDelete, Answer, Fault, TypeOK
  <2>2. r.name \in Names /\ r.uid \in Nat /\ live[r.name] \in Object
    BY DEF TypeOK, Request
  <2>3. /\ live' \in [Names -> Object] /\ feed' \in [Names -> Seq(Object)]
    <3>1. CASE UNCHANGED <<live, feed, victims>>
      BY <3>1 DEF TypeOK
    <3>2. CASE Store(r.name, Absent)
      BY <2>2, <3>2, AbsentTyped, StoreTyped
    <3>3. CASE Store(r.name, [live[r.name] EXCEPT !.terminating = TRUE])
      <4>1. [live[r.name] EXCEPT !.terminating = TRUE] \in Object
        BY <2>2 DEF Object
      <4> QED BY <2>2, <3>3, <4>1, StoreTyped
    <3> QED BY <1>18, <3>1, <3>2, <3>3 DEF ServerDelete
  <2>4. victims' \in SUBSET [name: Names, uid: Nat, judged: Nat,
                             state: {"due", "early", "changed"}]
    <3>1. [name |-> r.name, uid |-> live[r.name].uid, judged |-> r.uid,
           state |-> Verdict(live[r.name])]
             \in [name: Names, uid: Nat, judged: Nat, state: {"due", "early", "changed"}]
      BY <2>2 DEF Verdict, Object
    <3> QED BY <1>18, <3>1 DEF ServerDelete, TypeOK
  <2> QED BY <1>18, <2>1, <2>3, <2>4 DEF ServerDelete, TypeOK
<1>19. ASSUME NEW r \in inflight, ServerReject(r) \/ ServerTimeout(r) PROVE TypeOK'
  <2>1. /\ inflight' \in SUBSET Request /\ faults' \in Nat
        /\ reply' \in {"none", "done", "retryable", "fatal"}
    BY <1>19 DEF ServerReject, ServerTimeout, Answer, Fault, TypeOK
  <2> QED BY <1>19, <2>1 DEF ServerReject, ServerTimeout, TypeOK
<1>20. CASE Cancel
  BY <1>20 DEF Cancel, Fault, TypeOK
<1>21. CASE Exit
  <2>1. faults' \in Nat
    BY <1>21 DEF Exit, Fault, TypeOK
  <2> QED BY <1>21, <2>1, EmptySeq DEF Exit, TypeOK
<1>22. CASE Takeover
  <2>1. feed' \in [Names -> Seq(Object)]
    BY <1>22, EmptySeq DEF Takeover
  <2> QED BY <1>22, <2>1 DEF Takeover, TypeOK
<1>23. CASE UNCHANGED vars
  BY <1>23 DEF vars, TypeOK
<1> QED
  BY <1>1, <1>2, <1>3, <1>4, <1>5, <1>6, <1>7, <1>8, <1>9, <1>10, <1>13, <1>14, <1>15,
     <1>17, <1>18, <1>19, <1>20, <1>21, <1>22, <1>23
     DEF Next, Users, Evaluation, Server

\* The evaluation deletes only while it has a resource to delete.
LEMMA HasCurrentInductive == TypeOK /\ HasCurrent /\ [Next]_vars => HasCurrent'
<1> SUFFICES ASSUME TypeOK, HasCurrent, [Next]_vars PROVE HasCurrent'
  OBVIOUS
<1> USE DEF HasCurrent, world, cluster, leader, work, progress, server
<1>1. ASSUME UNCHANGED <<pc, idx, todo>> PROVE HasCurrent'
  BY <1>1
<1>2. ASSUME pc' \notin {"attempt", "inflight"} PROVE HasCurrent'
  BY <1>2
<1>3. ASSUME NEW n \in Names, NEW c \in Classes, Create(n, c) \/ Relabel(n, c) \/ Remove(n)
      PROVE HasCurrent'
  BY <1>1, <1>3 DEF Create, Relabel, Remove
<1>4. ASSUME NEW m \in {"active", "dry", "paused", "gone"}, EditPolicy(m) PROVE HasCurrent'
  BY <1>1, <1>4 DEF EditPolicy
<1>5. ASSUME NEW n \in Names, Deliver(n) PROVE HasCurrent'
  BY <1>1, <1>5 DEF Deliver
<1>6. ASSUME Fail \/ Succeed PROVE HasCurrent'
  BY <1>2, <1>6 DEF Fail, Succeed, NextResource
<1>7. ASSUME NEW e \in items, Classify(e) PROVE HasCurrent'
  BY <1>2, <1>7 DEF Classify
<1>8. CASE StartEvaluation \/ EndClassification \/ EndDeletion
  BY <1>2, <1>8 DEF StartEvaluation, EndClassification, EndDeletion
<1>9. CASE TakeToken
  BY <1>6, <1>9 DEF TakeToken
<1>10. CASE Attempt
  BY <1>6, <1>10 DEF Attempt, Send
<1>11. CASE Receive
  BY <1>6, <1>11 DEF Receive
<1>12. CASE WriteStatus \/ LoseStatus \/ Exit \/ Takeover
  BY <1>2, <1>12 DEF WriteStatus, LoseStatus, EndRun, Exit, Takeover
<1>13. ASSUME NEW r \in inflight, ServerDelete(r) \/ ServerReject(r) \/ ServerTimeout(r)
       PROVE HasCurrent'
  BY <1>1, <1>13 DEF ServerDelete, ServerReject, ServerTimeout
<1>14. CASE Tick \/ Cancel \/ UNCHANGED vars
  BY <1>1, <1>14 DEF Tick, Cancel, vars
<1> QED
  BY <1>3, <1>4, <1>5, <1>7, <1>8, <1>9, <1>10, <1>11, <1>12, <1>13, <1>14
     DEF Next, Users, Evaluation, Server, Classes

LEMMA InitTyped == Init => TypeOK /\ HasCurrent
<1> SUFFICES ASSUME Init PROVE TypeOK /\ HasCurrent
  OBVIOUS
<1>1. <<>> \in Seq(Object) /\ <<>> \in Seq(Entry)
  BY EmptySeq
<1>2. live \in [Names -> Object] /\ cache \in [Names -> Object] /\ feed \in [Names -> Seq(Object)]
  BY <1>1, AbsentTyped DEF Init
<1> QED BY <1>1, <1>2, BoundAssumption DEF Init, TypeOK, HasCurrent, Count, NoCount

\* Every variable keeps its type: in particular no evaluation indexes its list of
\* deletions out of range (deleteResourcesInBatches, deleteBatchShared).
THEOREM TypeCorrect == Spec => [](TypeOK /\ HasCurrent)
<1>1. TypeOK /\ HasCurrent /\ [Next]_vars => (TypeOK /\ HasCurrent)'
  BY TypeInductive, HasCurrentInductive
<1> QED BY <1>1, InitTyped, PTL DEF Spec

-----------------------------------------------------------------------------
(* The counts of a run.                                                    *)

LEMMA CountsInductive ==
    TypeOK /\ HasCurrent /\ CountsConserved /\ [Next]_vars => CountsConserved'
<1> SUFFICES ASSUME TypeOK, HasCurrent, CountsConserved, [Next]_vars PROVE CountsConserved'
  OBVIOUS
<1> USE DEF CountsConserved, world, cluster, leader, work, progress, server
<1>1. ASSUME UNCHANGED <<matched, pending, todo, idx, deleted, errs, status>>
      PROVE CountsConserved'
  BY <1>1
<1>2. ASSUME NEW n \in Names, NEW c \in Classes, Create(n, c) \/ Relabel(n, c) \/ Remove(n)
      PROVE CountsConserved'
  BY <1>1, <1>2 DEF Create, Relabel, Remove
<1>3. ASSUME NEW m \in {"active", "dry", "paused", "gone"}, EditPolicy(m)
      PROVE CountsConserved'
  BY <1>1, <1>3 DEF EditPolicy
<1>4. ASSUME NEW n \in Names, Deliver(n) PROVE CountsConserved'
  BY <1>1, <1>4 DEF Deliver
<1>5. ASSUME Fail \/ Succeed, idx < Len(todo) PROVE CountsConserved'
  BY <1>5 DEF Fail, Succeed, NextResource, TypeOK
<1>6. ASSUME NEW e \in items, Classify(e) PROVE CountsConserved'
  <2>1. /\ Append(todo, e) \in Seq(Entry) /\ Len(Append(todo, e)) = Len(todo) + 1
        /\ Len(todo) \in Nat
    BY AppendProperties DEF TypeOK
  <2> QED BY <1>6, <2>1 DEF Classify, TypeOK
<1>7. CASE StartEvaluation \/ Exit
  BY <1>7, EmptySeq DEF StartEvaluation, Exit
<1>8. CASE EndClassification \/ EndDeletion \/ Takeover \/ Tick \/ Cancel \/ UNCHANGED vars
  BY <1>1, <1>8 DEF EndClassification, EndDeletion, Takeover, Tick, Cancel, vars
<1>9. CASE TakeToken
  BY <1>1, <1>5, <1>9 DEF TakeToken
<1>10. CASE Attempt
  <2>1. idx < Len(todo)
    BY <1>10 DEF Attempt, HasCurrent
  <2> QED BY <1>1, <1>5, <1>10, <2>1 DEF Attempt, Send
<1>11. CASE Receive
  <2>1. idx < Len(todo)
    BY <1>11 DEF Receive, HasCurrent
  <2> QED BY <1>1, <1>5, <1>11, <2>1 DEF Receive
<1>12. CASE WriteStatus \/ LoseStatus
  <2>1. deleted + pending <= matched
    BY DEF TypeOK
  <2> QED BY <1>12, <2>1, EmptySeq DEF WriteStatus, LoseStatus, EndRun
<1>13. ASSUME NEW r \in inflight, ServerDelete(r) \/ ServerReject(r) \/ ServerTimeout(r)
       PROVE CountsConserved'
  BY <1>1, <1>13 DEF ServerDelete, ServerReject, ServerTimeout
<1> QED
  BY <1>2, <1>3, <1>4, <1>6, <1>7, <1>8, <1>9, <1>10, <1>11, <1>12, <1>13
     DEF Next, Users, Evaluation, Server, Classes

\* The counts add up in every run and in the status (evaluateResources,
\* deleteBatchShared, UpdateStatus).
THEOREM CountsCorrect == Spec => []CountsConserved
<1>1. Init => CountsConserved
  BY EmptySeq DEF Init, CountsConserved, NoCount
<1> QED BY <1>1, CountsInductive, TypeCorrect, PTL DEF Spec

-----------------------------------------------------------------------------
(* Announced deletions are true, collateral ones hit successors only.      *)

\* How the objects of the cluster evolve in a step: under each name the object
\* goes, keeps its identity, or is a new one with a fresh UID.
Evolves ==
    /\ now' >= now
    /\ \A n \in Names :
         \/ live'[n] = Absent /\ uids'[n] = uids[n]
         \/ /\ live'[n].uid # 0 /\ live'[n].uid = live[n].uid /\ live'[n].born = live[n].born
            /\ live[n].terminating => live'[n].terminating
            /\ uids'[n] = uids[n]
         \/ live'[n].uid = uids'[n] /\ uids'[n] = uids[n] + 1

\* What the watch stream and the store hold comes from earlier versions.
ViewsMove ==
    \A n \in Names :
       /\ \/ cache'[n] = cache[n] \/ cache'[n] = live'[n]
          \/ \E k \in 1 .. Len(feed[n]) : cache'[n] = feed[n][k]
       /\ \A k \in 1 .. Len(feed'[n]) :
             feed'[n][k] = live'[n] \/ \E j \in 1 .. Len(feed[n]) : feed'[n][k] = feed[n][j]

Same == live' = live /\ uids' = uids /\ now' = now

LEMMA SameEvolves == TypeOK /\ LiveIsNewest /\ Same => Evolves
BY DEF TypeOK, LiveIsNewest, Same, Evolves, Object

LEMMA StoreEvolves ==
    ASSUME TypeOK, LiveIsNewest, NEW n \in Names, NEW o \in Object, Store(n, o), now' = now,
           \/ o = Absent /\ uids' = uids
           \/ /\ live[n].uid # 0 /\ o.uid = live[n].uid /\ o.born = live[n].born
              /\ live[n].terminating => o.terminating
              /\ uids' = uids
           \/ o.uid = uids[n] + 1 /\ uids' = [uids EXCEPT ![n] = @ + 1]
    PROVE  Evolves
<1>1. ASSUME NEW m \in Names, m # n, uids'[m] = uids[m]
      PROVE  \/ live'[m] = Absent /\ uids'[m] = uids[m]
             \/ /\ live'[m].uid # 0 /\ live'[m].uid = live[m].uid /\ live'[m].born = live[m].born
                /\ live[m].terminating => live'[m].terminating
                /\ uids'[m] = uids[m]
  <2>1. live'[m] = live[m]
    BY <1>1 DEF Store, TypeOK
  <2> QED BY <1>1, <2>1 DEF LiveIsNewest
<1>2. live'[n] = o
  BY DEF Store, TypeOK
<1>3. \A m \in Names : m # n => uids'[m] = uids[m]
  BY DEF TypeOK
<1>4. now' >= now
  BY DEF TypeOK
<1>5. CASE o = Absent /\ uids' = uids
  BY <1>1, <1>2, <1>3, <1>4, <1>5 DEF Evolves
<1>6. CASE /\ live[n].uid # 0 /\ o.uid = live[n].uid /\ o.born = live[n].born
           /\ live[n].terminating => o.terminating
           /\ uids' = uids
  BY <1>1, <1>2, <1>3, <1>4, <1>6 DEF Evolves
<1>7. CASE o.uid = uids[n] + 1 /\ uids' = [uids EXCEPT ![n] = @ + 1]
  <2>1. uids'[n] = uids[n] + 1
    BY <1>7 DEF TypeOK
  <2> QED BY <1>1, <1>2, <1>3, <1>4, <1>7, <2>1 DEF Evolves
<1> QED BY <1>5, <1>6, <1>7

LEMMA SameViewsMove == TypeOK /\ UNCHANGED <<cache, feed>> => ViewsMove
BY DEF ViewsMove

LEMMA StoreMovesViews ==
    ASSUME TypeOK, NEW n \in Names, NEW o \in Object, Store(n, o), cache' = cache
    PROVE  ViewsMove
<1> SUFFICES ASSUME NEW m \in Names, NEW k \in 1 .. Len(feed'[m])
             PROVE  feed'[m][k] = live'[m] \/ \E j \in 1 .. Len(feed[m]) : feed'[m][k] = feed[m][j]
  BY DEF ViewsMove
<1>1. CASE m # n
  <2>1. feed'[m] = feed[m]
    BY <1>1 DEF Store, TypeOK
  <2> QED BY <2>1
<1>2. CASE m = n
  <2>1. feed[n] \in Seq(Object) /\ feed'[n] = Append(feed[n], o) /\ live'[n] = o
    BY DEF Store, TypeOK
  <2>2. /\ Len(Append(feed[n], o)) = Len(feed[n]) + 1
        /\ \A i \in 1 .. Len(feed[n]) : Append(feed[n], o)[i] = feed[n][i]
        /\ Append(feed[n], o)[Len(feed[n]) + 1] = o
    BY <2>1, AppendProperties
  <2>3. Len(feed[n]) \in Nat
    BY <2>1
  <2>4. k \in 1 .. Len(feed[n]) \/ k = Len(feed[n]) + 1
    BY <1>2, <2>1, <2>2, <2>3
  <2> QED BY <1>2, <2>1, <2>2, <2>4
<1> QED BY <1>1, <1>2

LEMMA StepEvolves ==
    ASSUME TypeOK, HasCurrent, LiveIsNewest, [Next]_vars
    PROVE  Evolves /\ ViewsMove
<1> USE DEF world, cluster, leader, work, progress, server
<1>1. ASSUME Same, UNCHANGED <<cache, feed>> PROVE Evolves /\ ViewsMove
  BY <1>1, SameEvolves, SameViewsMove
<1>2. ASSUME NEW n \in Names, NEW c \in Classes, Create(n, c) PROVE Evolves /\ ViewsMove
  <2> DEFINE o == [uid |-> uids[n] + 1, class |-> c, born |-> now, terminating |-> FALSE]
  <2>1. /\ o \in Object /\ Store(n, o) /\ o.uid = uids[n] + 1
        /\ uids' = [uids EXCEPT ![n] = @ + 1] /\ UNCHANGED <<now, cache>>
    BY <1>2 DEF Create, TypeOK, Object
  <2> HIDE DEF o
  <2> QED BY <2>1, StoreEvolves, StoreMovesViews
<1>3. ASSUME NEW n \in Names, NEW c \in Classes, Relabel(n, c) PROVE Evolves /\ ViewsMove
  <2> DEFINE o == [live[n] EXCEPT !.class = c]
  <2>1. /\ o \in Object /\ Store(n, o) /\ UNCHANGED <<uids, now, cache>>
        /\ o.uid = live[n].uid /\ o.born = live[n].born /\ o.terminating = live[n].terminating
    BY <1>3 DEF Relabel, TypeOK, Object
  <2>2. live[n].uid # 0
    BY <1>3 DEF Relabel, LiveIsNewest
  <2> HIDE DEF o
  <2> QED BY <2>1, <2>2, StoreEvolves, StoreMovesViews
<1>4. ASSUME NEW n \in Names, Remove(n) PROVE Evolves /\ ViewsMove
  BY <1>4, AbsentTyped, StoreEvolves, StoreMovesViews DEF Remove
<1>5. ASSUME NEW m \in {"active", "dry", "paused", "gone"}, EditPolicy(m)
      PROVE Evolves /\ ViewsMove
  BY <1>1, <1>5 DEF EditPolicy, Same
<1>6. CASE Tick
  <2>1. now' >= now /\ live' = live /\ uids' = uids
    BY <1>6 DEF Tick, TypeOK
  <2>2. Evolves
    BY <2>1 DEF Evolves, LiveIsNewest
  <2> QED BY <1>6, <2>2, SameViewsMove DEF Tick
<1>7. ASSUME NEW n \in Names, Deliver(n) PROVE Evolves /\ ViewsMove
  <2>1. Evolves
    BY <1>7, SameEvolves DEF Deliver, Same
  <2> PICK k \in {1, Len(feed[n])} :
         /\ cache' = [cache EXCEPT ![n] = feed[n][k]]
         /\ feed' = [feed EXCEPT ![n] = SubSeq(@, k + 1, Len(@))]
    BY <1>7 DEF Deliver
  <2>2. feed[n] \in Seq(Object) /\ k \in 1 .. Len(feed[n])
    BY <1>7 DEF Deliver, TypeOK
  <2>3. cache'[n] = feed[n][k] /\ feed'[n] = SubSeq(feed[n], k + 1, Len(feed[n]))
    BY DEF TypeOK
  <2>4. \A m \in Names : m # n => cache'[m] = cache[m] /\ feed'[m] = feed[m]
    BY DEF TypeOK
  <2>5. ASSUME NEW i \in 1 .. Len(feed'[n]) PROVE \E j \in 1 .. Len(feed[n]) : feed'[n][i] = feed[n][j]
    <3>1. /\ Len(feed'[n]) = (IF k + 1 <= Len(feed[n]) THEN Len(feed[n]) - (k + 1) + 1 ELSE 0)
          /\ \A j \in 1 .. Len(feed[n]) - (k + 1) + 1 : feed'[n][j] = feed[n][k + 1 + j - 1]
      BY <2>2, <2>3, SubSeqProperties, ElementOfSeq
    <3>2. Len(feed[n]) \in Nat /\ k \in Nat
      BY <2>2
    <3>3. i \in 1 .. Len(feed[n]) - (k + 1) + 1 /\ k + 1 + i - 1 \in 1 .. Len(feed[n])
      BY <2>2, <3>1, <3>2
    <3> QED BY <3>1, <3>3
  <2>6. ASSUME NEW m \in Names
        PROVE  /\ \/ cache'[m] = cache[m] \/ cache'[m] = live'[m]
                  \/ \E j \in 1 .. Len(feed[m]) : cache'[m] = feed[m][j]
               /\ \A i \in 1 .. Len(feed'[m]) :
                     feed'[m][i] = live'[m] \/ \E j \in 1 .. Len(feed[m]) : feed'[m][i] = feed[m][j]
    <3>1. CASE m = n
      <4>1. \E j \in 1 .. Len(feed[m]) : cache'[m] = feed[m][j]
        <5>1. cache'[n] = feed[n][k] /\ k \in 1 .. Len(feed[n])
          BY <2>2, <2>3
        <5> QED BY ONLY <5>1, <3>1
      <4>2. \A i \in 1 .. Len(feed'[m]) : \E j \in 1 .. Len(feed[m]) : feed'[m][i] = feed[m][j]
        <5>1. \A i \in 1 .. Len(feed'[n]) : \E j \in 1 .. Len(feed[n]) : feed'[n][i] = feed[n][j]
          BY <2>5
        <5> QED BY ONLY <5>1, <3>1
      <4> QED BY ONLY <4>1, <4>2
    <3>2. CASE m # n
      BY <2>4, <3>2
    <3> QED BY <3>1, <3>2
  <2> QED BY <2>1, <2>6 DEF ViewsMove
<1>8. CASE StartEvaluation \/ EndClassification \/ EndDeletion
  BY <1>1, <1>8 DEF StartEvaluation, EndClassification, EndDeletion, Same
<1>9. ASSUME NEW e \in items, Classify(e) PROVE Evolves /\ ViewsMove
  BY <1>1, <1>9 DEF Classify, Same
<1>10. ASSUME Fail \/ Succeed PROVE Evolves /\ ViewsMove
  BY <1>1, <1>10 DEF Fail, Succeed, Same
<1>11. CASE TakeToken
  BY <1>1, <1>10, <1>11 DEF TakeToken, Same
<1>12. CASE Attempt
  BY <1>1, <1>10, <1>12 DEF Attempt, Send, Same
<1>13. CASE Receive
  BY <1>1, <1>10, <1>13 DEF Receive, Same
<1>14. CASE WriteStatus \/ LoseStatus
  BY <1>1, <1>14 DEF WriteStatus, LoseStatus, EndRun, Same
<1>15. ASSUME NEW r \in inflight, ServerDelete(r) PROVE Evolves /\ ViewsMove
  <2>1. r.name \in Names /\ live[r.name] \in Object /\ UNCHANGED <<uids, now, cache>>
    BY <1>15 DEF ServerDelete, TypeOK, Request
  <2>2. CASE UNCHANGED <<live, feed, victims>>
    BY <2>1, <2>2, <1>1 DEF Same
  <2>3. CASE Store(r.name, Absent)
    BY <2>1, <2>3, AbsentTyped, StoreEvolves, StoreMovesViews
  <2>4. CASE Store(r.name, [live[r.name] EXCEPT !.terminating = TRUE]) /\ live[r.name] # Absent
    <3> DEFINE o == [live[r.name] EXCEPT !.terminating = TRUE]
    <3>1. /\ o \in Object /\ Store(r.name, o) /\ o.uid = live[r.name].uid
          /\ o.born = live[r.name].born /\ o.terminating
      BY <2>1, <2>4 DEF Object
    <3>2. live[r.name].uid # 0
      BY <2>1, <2>4 DEF LiveIsNewest
    <3> HIDE DEF o
    <3> QED BY <2>1, <3>1, <3>2, StoreEvolves, StoreMovesViews
  <2> QED BY <1>15, <2>2, <2>3, <2>4 DEF ServerDelete
<1>16. ASSUME NEW r \in inflight, ServerReject(r) \/ ServerTimeout(r) PROVE Evolves /\ ViewsMove
  BY <1>1, <1>16 DEF ServerReject, ServerTimeout, Same
<1>17. CASE Cancel \/ Exit \/ UNCHANGED vars
  BY <1>1, <1>17 DEF Cancel, Exit, vars, Same
<1>18. CASE Takeover
  <2>1. Evolves
    BY <1>18, SameEvolves DEF Takeover, Same
  <2>2. ViewsMove
    BY <1>18 DEF Takeover, ViewsMove
  <2> QED BY <2>1, <2>2
<1> QED
  BY <1>2, <1>3, <1>4, <1>5, <1>6, <1>7, <1>8, <1>9, <1>11, <1>12, <1>13, <1>14, <1>15,
     <1>16, <1>17, <1>18
     DEF Next, Users, Evaluation, Server

LEMMA KnownStable ==
    ASSUME TypeOK, TypeOK', LiveIsNewest, Evolves,
           NEW n \in Names, NEW u \in Nat, NEW b \in Nat, Known(n, u, b)
    PROVE  Known(n, u, b)'
<1>1. /\ live[n].uid \in Nat /\ live'[n].uid \in Nat /\ uids[n] \in Nat /\ uids'[n] \in Nat
      /\ live[n].uid <= uids[n]
  <2>1. /\ live[n].uid \in Nat /\ live'[n].uid \in Nat /\ uids[n] \in Nat /\ uids'[n] \in Nat
    BY DEF TypeOK, Object
  <2> QED BY <2>1 DEF LiveIsNewest
<1>2. \/ live'[n].uid = 0 /\ uids'[n] = uids[n]
      \/ /\ live'[n].uid = live[n].uid /\ live'[n].born = live[n].born
         /\ live[n].terminating => live'[n].terminating
         /\ uids'[n] = uids[n]
      \/ live'[n].uid = uids'[n] /\ uids'[n] = uids[n] + 1
  BY DEF Evolves, Absent
<1> QED BY <1>1, <1>2 DEF Known

LEMMA GoneStable ==
    ASSUME TypeOK, TypeOK', LiveIsNewest, Evolves, NEW n \in Names, NEW u \in Nat, Gone(n, u)
    PROVE  Gone(n, u)'
<1>1. /\ live[n].uid \in Nat /\ live'[n].uid \in Nat /\ uids[n] \in Nat /\ uids'[n] \in Nat
      /\ live[n].uid <= uids[n]
  <2>1. /\ live[n].uid \in Nat /\ live'[n].uid \in Nat /\ uids[n] \in Nat /\ uids'[n] \in Nat
    BY DEF TypeOK, Object
  <2> QED BY <2>1 DEF LiveIsNewest
<1>2. \/ live'[n].uid = 0 /\ uids'[n] = uids[n]
      \/ /\ live'[n].uid = live[n].uid /\ live'[n].born = live[n].born
         /\ live[n].terminating => live'[n].terminating
         /\ uids'[n] = uids[n]
      \/ live'[n].uid = uids'[n] /\ uids'[n] = uids[n] + 1
  BY DEF Evolves, Absent
<1> QED BY <1>1, <1>2 DEF Gone

LEMMA NewestStable ==
    ASSUME TypeOK, TypeOK', LiveIsNewest, Evolves PROVE LiveIsNewest'
<1> SUFFICES ASSUME NEW n \in Names
             PROVE  /\ live'[n].uid = 0 => live'[n] = Absent
                    /\ live'[n].uid # 0 => live'[n].uid = uids'[n]
  BY DEF LiveIsNewest
<1>1. /\ live[n].uid = 0 => live[n] = Absent
      /\ live[n].uid # 0 => live[n].uid = uids[n]
      /\ live[n].uid \in Nat /\ live'[n].uid \in Nat /\ uids[n] \in Nat /\ uids'[n] \in Nat
  BY DEF LiveIsNewest, TypeOK, Object
<1> QED BY <1>1 DEF Evolves, Absent

LEMMA ViewsStable ==
    ASSUME TypeOK, TypeOK', LiveIsNewest, LiveIsNewest', ViewsKnown, Evolves, ViewsMove
    PROVE  ViewsKnown'
<1> SUFFICES ASSUME NEW n \in Names
             PROVE  /\ Known(n, cache[n].uid, cache[n].born)'
                    /\ \A k \in 1 .. Len(feed'[n]) : Known(n, feed[n][k].uid, feed[n][k].born)'
  BY DEF ViewsKnown
<1>1. ASSUME NEW o \in Object, Known(n, o.uid, o.born) PROVE Known(n, o.uid, o.born)'
  <2>1. o.uid \in Nat /\ o.born \in Nat
    BY DEF Object
  <2> QED BY <1>1, <2>1, KnownStable
<1>2. live'[n].uid <= uids'[n]
  <2>1. live'[n].uid \in Nat /\ uids'[n] \in Nat
    BY DEF TypeOK, Object
  <2> QED BY <2>1 DEF LiveIsNewest
<1>3. \A j \in 1 .. Len(feed[n]) : feed[n][j] \in Object /\ Known(n, feed[n][j].uid, feed[n][j].born)
  <2>1. feed[n] \in Seq(Object)
    BY DEF TypeOK
  <2> QED BY <2>1, ElementOfSeq DEF ViewsKnown
<1>4. cache[n] \in Object /\ Known(n, cache[n].uid, cache[n].born)
  BY DEF TypeOK, ViewsKnown
<1>5. Known(n, cache[n].uid, cache[n].born)'
  <2>1. CASE cache'[n] = cache[n]
    BY <1>1, <1>4, <2>1 DEF Known
  <2>2. CASE cache'[n] = live'[n]
    BY <1>2, <2>2 DEF Known
  <2>3. ASSUME NEW k \in 1 .. Len(feed[n]), cache'[n] = feed[n][k]
        PROVE  Known(n, cache[n].uid, cache[n].born)'
    BY <1>1, <1>3, <2>3 DEF Known
  <2> QED BY <2>1, <2>2, <2>3 DEF ViewsMove
<1>6. ASSUME NEW k \in 1 .. Len(feed'[n]) PROVE Known(n, feed[n][k].uid, feed[n][k].born)'
  <2>1. CASE feed'[n][k] = live'[n]
    BY <1>2, <2>1 DEF Known
  <2>2. ASSUME NEW j \in 1 .. Len(feed[n]), feed'[n][k] = feed[n][j]
        PROVE  Known(n, feed[n][k].uid, feed[n][k].born)'
    BY <1>1, <1>3, <2>2 DEF Known
  <2> QED BY <1>6, <2>1, <2>2 DEF ViewsMove
<1> QED BY <1>5, <1>6

LEMMA DueStable ==
    ASSUME TypeOK, TypeOK', Evolves, NEW o, o.class = "candidate", o.born \in Nat, Due(o)
    PROVE  Due(o)'
<1>1. now \in Nat /\ now' \in Nat /\ now' >= now
  BY DEF TypeOK, Evolves
<1> QED BY <1>1, BoundAssumption DEF Due

\* A list of known, due entries stays one.
LEMMA ListsStable ==
    ASSUME TypeOK, TypeOK', LiveIsNewest, Evolves, ListsKnown, items' \subseteq items, todo' = todo
    PROVE  ListsKnown'
<1>1. ASSUME NEW e \in Entry, Known(e.name, e.uid, e.born) PROVE Known(e.name, e.uid, e.born)'
  <2>1. e.name \in Names /\ e.uid \in Nat /\ e.born \in Nat
    BY DEF Entry
  <2> QED BY <1>1, <2>1, KnownStable
<1>2. ASSUME NEW e \in items' PROVE e.uid # 0 /\ Known(e.name, e.uid, e.born)'
  <2>1. e \in items /\ e \in Entry
    BY DEF TypeOK
  <2> QED BY <1>1, <2>1 DEF ListsKnown
<1>3. ASSUME NEW i \in 1 .. Len(todo)
      PROVE  /\ todo[i].uid # 0 /\ Known(todo[i].name, todo[i].uid, todo[i].born)'
             /\ Due(todo[i])'
  <2>1. todo[i] \in Entry
    BY ElementOfSeq DEF TypeOK
  <2>2. /\ todo[i].uid # 0 /\ Known(todo[i].name, todo[i].uid, todo[i].born) /\ Due(todo[i])
    BY DEF ListsKnown
  <2>3. todo[i].born \in Nat /\ todo[i].class = "candidate"
    BY <2>1, <2>2 DEF Entry, Due
  <2>4. todo'[i] = todo[i]
    OBVIOUS
  <2>5. Known(todo[i].name, todo[i].uid, todo[i].born)'
    BY <1>1, <2>1, <2>2, <2>4 DEF Known
  <2>6. now \in Nat /\ now' \in Nat /\ now' >= now
    BY DEF TypeOK, Evolves
  <2>7. Due(todo[i])'
    BY <2>2, <2>3, <2>4, <2>6, BoundAssumption DEF Due
  <2> QED BY <2>2, <2>5, <2>7
<1> QED BY <1>2, <1>3 DEF ListsKnown, Known

LEMMA EntryOfTodo == TypeOK => \A i \in 1 .. Len(todo) : todo[i] \in Entry
BY ElementOfSeq DEF TypeOK

LEMMA ListsInductive ==
    ASSUME TypeOK, TypeOK', HasCurrent, LiveIsNewest, Evolves, ViewsKnown, ListsKnown, [Next]_vars
    PROVE  ListsKnown'
<1> USE DEF world, cluster, leader, work, progress, server
<1>1. ASSUME items' \subseteq items, todo' = todo PROVE ListsKnown'
  BY <1>1, ListsStable
<1>2. ASSUME NEW n \in Names, NEW c \in Classes, Create(n, c) \/ Relabel(n, c) \/ Remove(n)
      PROVE ListsKnown'
  BY <1>1, <1>2 DEF Create, Relabel, Remove
<1>3. ASSUME NEW m \in {"active", "dry", "paused", "gone"}, EditPolicy(m) PROVE ListsKnown'
  BY <1>1, <1>3 DEF EditPolicy
<1>4. ASSUME NEW n \in Names, Deliver(n) PROVE ListsKnown'
  BY <1>1, <1>4 DEF Deliver
<1>5. CASE StartEvaluation
  <2>1. \A e \in Listed : e.uid # 0 /\ Known(e.name, e.uid, e.born)
    BY DEF Listed, ViewsKnown
  <2>2. items' = Listed /\ Len(todo') = 0 /\ UNCHANGED <<live, uids>>
    BY <1>5, EmptySeq DEF StartEvaluation
  <2> QED BY <2>1, <2>2 DEF ListsKnown, Known
<1>6. ASSUME NEW e \in items, Classify(e) PROVE ListsKnown'
  <2>1. CASE todo' = todo
    BY <1>1, <1>6, <2>1 DEF Classify
  <2>2. CASE todo' = Append(todo, e) /\ Due(e)
    <3>0. items \in SUBSET Entry /\ todo \in Seq(Entry)
      BY DEF TypeOK
    <3>1. /\ e \in Entry /\ e.uid # 0 /\ Known(e.name, e.uid, e.born)
          /\ todo \in Seq(Entry) /\ Len(todo) \in Nat
      BY <3>0, LenProperties DEF ListsKnown
    <3>2. /\ Len(Append(todo, e)) = Len(todo) + 1
          /\ \A i \in 1 .. Len(todo) : Append(todo, e)[i] = todo[i]
          /\ Append(todo, e)[Len(todo) + 1] = e
      BY <3>1, AppendProperties
    <3>3. UNCHANGED <<live, uids, now>> /\ items' \subseteq items
      BY <1>6 DEF Classify
    <3>4. ASSUME NEW i \in 1 .. Len(todo')
          PROVE  todo'[i].uid # 0 /\ Known(todo'[i].name, todo'[i].uid, todo'[i].born) /\ Due(todo'[i])
      <4>1. CASE i = Len(todo) + 1
        BY <2>2, <3>1, <3>2, <4>1
      <4>2. CASE i \in 1 .. Len(todo)
        BY <2>2, <3>2, <4>2 DEF ListsKnown
      <4> QED BY <2>2, <3>1, <3>2, <4>1, <4>2
    <3>5. \A x \in items' : x.uid # 0 /\ Known(x.name, x.uid, x.born)
      BY <3>3 DEF ListsKnown
    <3> QED BY <3>3, <3>4, <3>5 DEF ListsKnown, Known, Due
  <2> QED BY <1>6, <2>1, <2>2 DEF Classify
<1>7. CASE EndClassification \/ EndDeletion \/ Takeover \/ Tick \/ Cancel \/ UNCHANGED vars
  BY <1>1, <1>7 DEF EndClassification, EndDeletion, Takeover, Tick, Cancel, vars
<1>8. CASE TakeToken \/ Attempt \/ Receive
  BY <1>1, <1>8 DEF TakeToken, Attempt, Send, Receive, Fail, Succeed
<1>9. CASE WriteStatus \/ LoseStatus \/ Exit
  BY <1>9, EmptySeq DEF WriteStatus, LoseStatus, EndRun, Exit, ListsKnown
<1>10. ASSUME NEW r \in inflight, ServerDelete(r) \/ ServerReject(r) \/ ServerTimeout(r)
       PROVE ListsKnown'
  BY <1>1, <1>10 DEF ServerDelete, ServerReject, ServerTimeout
<1> QED
  BY <1>2, <1>3, <1>4, <1>5, <1>6, <1>7, <1>8, <1>9, <1>10
     DEF Next, Users, Evaluation, Server, Classes

RequestKnown(r) == /\ r.uid # 0 /\ r.uid <= uids[r.name]
                   /\ r.uid = live[r.name].uid => now > live[r.name].born + TTL

LEMMA RequestStable ==
    ASSUME TypeOK, TypeOK', LiveIsNewest, Evolves, NEW r \in Request, RequestKnown(r)
    PROVE  RequestKnown(r)'
<1> DEFINE n == r.name
<1>1. /\ n \in Names /\ r.uid \in Nat
      /\ live[n].uid \in Nat /\ live'[n].uid \in Nat /\ uids[n] \in Nat /\ uids'[n] \in Nat
      /\ live[n].born \in Nat /\ live'[n].born \in Nat
  BY DEF TypeOK, Object, Request
<1>2. now \in Nat /\ now' \in Nat /\ now' >= now
  BY DEF TypeOK, Evolves
<1>3. \/ live'[n].uid = 0 /\ uids'[n] = uids[n]
      \/ /\ live'[n].uid = live[n].uid /\ live'[n].born = live[n].born
         /\ uids'[n] = uids[n]
      \/ live'[n].uid = uids'[n] /\ uids'[n] = uids[n] + 1
  BY <1>1 DEF Evolves, Absent
<1> QED BY <1>1, <1>2, <1>3, BoundAssumption DEF RequestKnown

LEMMA CurrentKnown ==
    ASSUME TypeOK, ListsKnown, LiveIsNewest, idx < Len(todo)
    PROVE  Current \in Request /\ RequestKnown(Current)
<1>1. Current \in Request
  BY CurrentTyped
<1> DEFINE e == todo[idx + 1]
<1>2. /\ idx + 1 \in 1 .. Len(todo) /\ e \in Entry
      /\ e.uid # 0 /\ Known(e.name, e.uid, e.born) /\ Due(e)
  <2>1. idx + 1 \in 1 .. Len(todo)
    BY DEF TypeOK
  <2> QED BY <2>1, EntryOfTodo DEF ListsKnown
<1>3. Current.name = e.name /\ Current.uid = e.uid
  BY DEF Current
<1> HIDE DEF e
<1>4. RequestKnown(Current)
  BY <1>2, <1>3 DEF RequestKnown, Known, Due
<1> QED BY <1>1, <1>4

\* Only the retry loop sends requests.
LEMMA OnlyAttemptSends ==
    ASSUME ~Attempt, [Next]_vars PROVE inflight' \subseteq inflight
<1> USE DEF world, cluster, leader, work, progress, server
<1>1. ASSUME NEW n \in Names, NEW c \in Classes, Create(n, c) \/ Relabel(n, c) \/ Remove(n)
      PROVE inflight' \subseteq inflight
  BY <1>1 DEF Create, Relabel, Remove
<1>2. ASSUME NEW m \in {"active", "dry", "paused", "gone"}, EditPolicy(m)
      PROVE inflight' \subseteq inflight
  BY <1>2 DEF EditPolicy
<1>3. ASSUME NEW n \in Names, Deliver(n) PROVE inflight' \subseteq inflight
  BY <1>3 DEF Deliver
<1>4. CASE StartEvaluation \/ EndClassification \/ EndDeletion \/ TakeToken \/ Receive
  BY <1>4 DEF StartEvaluation, EndClassification, EndDeletion, TakeToken, Receive, Fail, Succeed
<1>5. ASSUME NEW e \in items, Classify(e) PROVE inflight' \subseteq inflight
  BY <1>5 DEF Classify
<1>6. CASE WriteStatus \/ LoseStatus \/ Exit \/ Takeover \/ Tick \/ Cancel \/ UNCHANGED vars
  BY <1>6 DEF WriteStatus, LoseStatus, EndRun, Exit, Takeover, Tick, Cancel, vars
<1>7. ASSUME NEW r \in inflight, ServerDelete(r) \/ ServerReject(r) \/ ServerTimeout(r)
      PROVE inflight' \subseteq inflight
  BY <1>7 DEF ServerDelete, ServerReject, ServerTimeout
<1> QED
  BY <1>1, <1>2, <1>3, <1>4, <1>5, <1>6, <1>7
     DEF Next, Users, Evaluation, Server, Classes

LEMMA RequestsInductive ==
    ASSUME TypeOK, TypeOK', HasCurrent, LiveIsNewest, Evolves, ListsKnown, RequestsKnown, [Next]_vars
    PROVE  RequestsKnown'
<1> USE DEF world, cluster, leader, work, progress, server
<1>1. ASSUME NEW r \in Request, RequestKnown(r) PROVE RequestKnown(r)'
  BY <1>1, RequestStable
<1>2. \A r \in inflight : r \in Request /\ RequestKnown(r)
  BY DEF TypeOK, RequestsKnown, RequestKnown
<1>3. ASSUME inflight' \subseteq inflight PROVE RequestsKnown'
  <2>1. \A r \in inflight' : RequestKnown(r)'
    BY <1>1, <1>2, <1>3
  <2> QED BY <2>1 DEF RequestsKnown, RequestKnown
<1>4. CASE Attempt
  <2>1. Current \in Request /\ RequestKnown(Current)
    BY <1>4, CurrentKnown DEF Attempt, HasCurrent
  <2>2. inflight' \subseteq inflight \cup {Current}
    BY <1>4 DEF Attempt, Send, Fail, Succeed
  <2>3. \A r \in inflight' : r \in Request /\ RequestKnown(r)
    BY <1>2, <2>1, <2>2
  <2>4. \A r \in inflight' : RequestKnown(r)'
    BY <1>1, <2>3
  <2> QED BY <2>4 DEF RequestsKnown, RequestKnown
<1>5. ASSUME ~Attempt PROVE inflight' \subseteq inflight
  BY <1>5, OnlyAttemptSends
<1> QED BY <1>3, <1>4, <1>5

\* A success is heard only when the API server removed or marked the object.
LEMMA AnswerInductive ==
    ASSUME TypeOK, TypeOK', HasCurrent, LiveIsNewest, Evolves, RequestsKnown, AnswerIsTrue,
           [Next]_vars
    PROVE  AnswerIsTrue'
<1> USE DEF world, cluster, leader, work, progress, server
<1>1. ASSUME UNCHANGED <<pc, reply, todo, idx, step>> PROVE AnswerIsTrue'
  <2>1. Current' = Current
    BY <1>1 DEF Current
  <2>2. ASSUME reply = "done" PROVE Gone(Current.name, Current.uid)'
    <3>1. Current \in Request /\ Gone(Current.name, Current.uid)
      BY <2>2, CurrentTyped DEF AnswerIsTrue, HasCurrent
    <3> DEFINE n == Current.name
               u == Current.uid
    <3>2. n \in Names /\ u \in Nat /\ Gone(n, u)
      BY <3>1 DEF Request
    <3>3. n' = n /\ u' = u
      BY <2>1
    <3> HIDE DEF n, u
    <3>4. Gone(n, u)'
      BY <3>2, <3>3, GoneStable DEF Gone
    <3> QED BY <3>4 DEF n, u
  <2> QED BY <1>1, <2>2 DEF AnswerIsTrue
<1>2. ASSUME reply' = "none" PROVE AnswerIsTrue'
  BY <1>2 DEF AnswerIsTrue
<1>3. ASSUME NEW n \in Names, NEW c \in Classes, Create(n, c) \/ Relabel(n, c) \/ Remove(n)
      PROVE AnswerIsTrue'
  BY <1>1, <1>3 DEF Create, Relabel, Remove
<1>4. ASSUME NEW m \in {"active", "dry", "paused", "gone"}, EditPolicy(m) PROVE AnswerIsTrue'
  BY <1>1, <1>4 DEF EditPolicy
<1>5. ASSUME NEW n \in Names, Deliver(n) PROVE AnswerIsTrue'
  BY <1>1, <1>5 DEF Deliver
<1>6. CASE StartEvaluation \/ EndClassification \/ EndDeletion \/ WriteStatus \/ LoseStatus
           \/ Takeover
  BY <1>2, <1>6 DEF StartEvaluation, EndClassification, EndDeletion, WriteStatus, LoseStatus,
                    EndRun, Takeover, AnswerIsTrue
<1>7. ASSUME NEW e \in items, Classify(e) PROVE AnswerIsTrue'
  BY <1>2, <1>7 DEF Classify, AnswerIsTrue
<1>8. CASE TakeToken \/ Attempt
  BY <1>2, <1>8 DEF TakeToken, Attempt, Send, Fail, Succeed, NextResource, AnswerIsTrue
<1>9. CASE Receive \/ Exit
  BY <1>2, <1>9 DEF Receive, Fail, Succeed, NextResource, Exit
<1>10. CASE Tick \/ Cancel \/ UNCHANGED vars
  BY <1>1, <1>10 DEF Tick, Cancel, vars
<1>11. ASSUME NEW r \in inflight, ServerDelete(r) PROVE AnswerIsTrue'
  <2>1. UNCHANGED <<pc, todo, idx, step, uids>>
    BY <1>11 DEF ServerDelete
  <2>2. CASE reply' = reply
    BY <1>1, <2>1, <2>2
  <2>3. CASE reply' # reply
    <3>1. Awaited(r)
      BY <1>11, <2>3 DEF ServerDelete, Answer
    <3>2. pc' = "inflight" /\ Current' = r
      BY <2>1, <3>1 DEF Awaited, Current
    <3>3. r.name \in Names /\ live[r.name] \in Object /\ r.uid # 0 /\ r.uid <= uids[r.name]
      BY DEF TypeOK, Request, RequestsKnown
    <3>4. live'[r.name].uid # r.uid \/ live'[r.name].terminating
      <4>1. live \in [Names -> Object]
        BY DEF TypeOK
      <4>2. CASE live' = live /\ (live[r.name] = Absent \/ live[r.name].terminating)
        BY <3>3, <4>2 DEF Absent
      <4>3. CASE Store(r.name, Absent)
        BY <3>3, <4>1, <4>3 DEF Store, Absent
      <4>4. CASE Store(r.name, [live[r.name] EXCEPT !.terminating = TRUE])
        BY <3>3, <4>1, <4>4 DEF Store, Object
      <4> QED BY <1>11, <4>2, <4>3, <4>4 DEF ServerDelete
    <3>5. r.uid # 0 /\ r.uid <= uids'[r.name] /\ (live'[r.name].uid # r.uid \/ live'[r.name].terminating)
      BY <2>1, <3>3, <3>4
    <3> QED BY <3>2, <3>5 DEF AnswerIsTrue, Gone
  <2> QED BY <2>2, <2>3
<1>12. ASSUME NEW r \in inflight, ServerReject(r) \/ ServerTimeout(r) PROVE AnswerIsTrue'
  <2>1. UNCHANGED <<pc, todo, idx, step>>
    BY <1>12 DEF ServerReject, ServerTimeout
  <2>2. CASE reply' = reply
    BY <1>1, <2>1, <2>2
  <2>3. CASE reply' # reply
    <3>1. pc = "inflight" /\ reply' # "done"
      BY <1>12, <2>3 DEF ServerReject, ServerTimeout, Answer, Awaited
    <3> QED BY <2>1, <3>1 DEF AnswerIsTrue
  <2> QED BY <2>2, <2>3
<1> QED
  BY <1>3, <1>4, <1>5, <1>6, <1>7, <1>8, <1>9, <1>10, <1>11, <1>12
     DEF Next, Users, Evaluation, Server, Classes

\* What is announced outside a dry run stays gone.
LEMMA AnnouncedInductive ==
    ASSUME TypeOK, TypeOK', HasCurrent, LiveIsNewest, Evolves, AnswerIsTrue, AnnouncedAreGone,
           [Next]_vars
    PROVE  AnnouncedAreGone'
<1> USE DEF world, cluster, leader, work, progress, server
<1> DEFINE Report == [name: Names, uid: Nat, dry: BOOLEAN]
<1>1. ASSUME NEW a \in Report, ~a.dry => Gone(a.name, a.uid)
      PROVE  ~a.dry => Gone(a.name, a.uid)'
  <2>1. a.name \in Names /\ a.uid \in Nat
    OBVIOUS
  <2> QED BY <1>1, <2>1, GoneStable
<1>2. ASSUME NEW a \in announced PROVE a \in Report /\ (~a.dry => Gone(a.name, a.uid))
  BY DEF TypeOK, AnnouncedAreGone
<1> HIDE DEF Report
<1>3. ASSUME announced' = announced PROVE AnnouncedAreGone'
  <2>1. ASSUME NEW a \in announced' PROVE ~a.dry => Gone(a.name, a.uid)'
    BY <1>1, <1>2, <1>3, <2>1
  <2> QED BY <2>1 DEF AnnouncedAreGone, Gone
<1>4. ASSUME Succeed, idx < Len(todo), runDry \/ Gone(Current.name, Current.uid)
      PROVE  AnnouncedAreGone'
  <2> DEFINE b == [name |-> Current.name, uid |-> Current.uid, dry |-> runDry]
  <2>1. b \in Report /\ (~b.dry => Gone(b.name, b.uid))
    BY <1>4, CurrentTyped DEF Report, Request, TypeOK
  <2>2. announced' = announced \cup {b}
    BY <1>4 DEF Succeed
  <2> HIDE DEF b
  <2>3. ASSUME NEW a \in announced' PROVE ~a.dry => Gone(a.name, a.uid)'
    BY <1>1, <1>2, <2>1, <2>2, <2>3
  <2> QED BY <2>3 DEF AnnouncedAreGone, Gone
<1>5. ASSUME NEW n \in Names, NEW c \in Classes, Create(n, c) \/ Relabel(n, c) \/ Remove(n)
      PROVE AnnouncedAreGone'
  BY <1>3, <1>5 DEF Create, Relabel, Remove
<1>6. ASSUME NEW m \in {"active", "dry", "paused", "gone"}, EditPolicy(m) PROVE AnnouncedAreGone'
  BY <1>3, <1>6 DEF EditPolicy
<1>7. ASSUME NEW n \in Names, Deliver(n) PROVE AnnouncedAreGone'
  BY <1>3, <1>7 DEF Deliver
<1>8. CASE StartEvaluation \/ EndClassification \/ EndDeletion \/ TakeToken
  BY <1>3, <1>8 DEF StartEvaluation, EndClassification, EndDeletion, TakeToken, Fail
<1>9. ASSUME NEW e \in items, Classify(e) PROVE AnnouncedAreGone'
  BY <1>3, <1>9 DEF Classify
<1>10. CASE Attempt
  <2>1. idx < Len(todo)
    BY <1>10 DEF Attempt, HasCurrent
  <2> QED BY <1>3, <1>4, <1>10, <2>1 DEF Attempt, Send, Fail
<1>11. CASE Receive
  <2>1. idx < Len(todo)
    BY <1>11 DEF Receive, HasCurrent
  <2> QED BY <1>3, <1>4, <1>11, <2>1 DEF Receive, Fail, AnswerIsTrue
<1>12. CASE WriteStatus \/ LoseStatus \/ Exit \/ Takeover \/ Tick \/ Cancel \/ UNCHANGED vars
  BY <1>3, <1>12 DEF WriteStatus, LoseStatus, EndRun, Exit, Takeover, Tick, Cancel, vars
<1>13. ASSUME NEW r \in inflight, ServerDelete(r) \/ ServerReject(r) \/ ServerTimeout(r)
       PROVE AnnouncedAreGone'
  BY <1>3, <1>13 DEF ServerDelete, ServerReject, ServerTimeout
<1> QED
  BY <1>5, <1>6, <1>7, <1>8, <1>9, <1>10, <1>11, <1>12, <1>13
     DEF Next, Users, Evaluation, Server, Classes

\* A DELETE hits the object judged, expired, or a newer one.
LEMMA CollateralInductive ==
    ASSUME TypeOK, LiveIsNewest, RequestsKnown, CollateralIsSuccessor, [Next]_vars
    PROVE  CollateralIsSuccessor'
<1> USE DEF world, cluster, leader, work, progress, server
<1>1. ASSUME victims' = victims PROVE CollateralIsSuccessor'
  BY <1>1 DEF CollateralIsSuccessor
<1>2. ASSUME NEW n \in Names, NEW c \in Classes, Create(n, c) \/ Relabel(n, c) \/ Remove(n)
      PROVE CollateralIsSuccessor'
  BY <1>1, <1>2 DEF Create, Relabel, Remove
<1>3. ASSUME NEW m \in {"active", "dry", "paused", "gone"}, EditPolicy(m)
      PROVE CollateralIsSuccessor'
  BY <1>1, <1>3 DEF EditPolicy
<1>4. ASSUME NEW n \in Names, Deliver(n) PROVE CollateralIsSuccessor'
  BY <1>1, <1>4 DEF Deliver
<1>5. CASE StartEvaluation \/ EndClassification \/ EndDeletion
  BY <1>1, <1>5 DEF StartEvaluation, EndClassification, EndDeletion
<1>6. ASSUME NEW e \in items, Classify(e) PROVE CollateralIsSuccessor'
  BY <1>1, <1>6 DEF Classify
<1>7. CASE TakeToken \/ Attempt \/ Receive
  BY <1>1, <1>7 DEF TakeToken, Attempt, Send, Receive, Fail, Succeed
<1>8. CASE WriteStatus \/ LoseStatus \/ Exit \/ Takeover \/ Tick \/ Cancel \/ UNCHANGED vars
  BY <1>1, <1>8 DEF WriteStatus, LoseStatus, EndRun, Exit, Takeover, Tick, Cancel, vars
<1>9. ASSUME NEW r \in inflight, ServerReject(r) \/ ServerTimeout(r) PROVE CollateralIsSuccessor'
  BY <1>1, <1>9 DEF ServerReject, ServerTimeout
<1>10. ASSUME NEW r \in inflight, ServerDelete(r) PROVE CollateralIsSuccessor'
  <2> DEFINE o == live[r.name]
             v == [name |-> r.name, uid |-> o.uid, judged |-> r.uid, state |-> Verdict(o)]
  <2>1. CASE victims' = victims
    BY <1>1, <2>1
  <2>2. CASE o # Absent /\ victims' = victims \cup {v}
    <3>1. /\ r.name \in Names /\ o \in Object /\ r.uid \in Nat /\ uids[r.name] \in Nat
          /\ o.uid \in Nat /\ o.born \in Nat /\ now \in Nat
      BY DEF TypeOK, Request, Object
    <3>2. /\ o.uid = uids[r.name] /\ r.uid <= uids[r.name]
          /\ r.uid = o.uid => now > o.born + TTL
      BY <2>2, <3>1 DEF LiveIsNewest, RequestsKnown
    <3>3. v.state = "early" => ~(now > o.born + TTL)
      BY DEF Verdict, Due
    <3>4. v.judged = r.uid /\ v.uid = o.uid
      OBVIOUS
    <3> HIDE DEF o, v
    <3>5. v.judged <= v.uid /\ (v.state = "early" => v.judged < v.uid)
      BY <3>1, <3>2, <3>3, <3>4
    <3> QED BY <2>2, <3>5 DEF CollateralIsSuccessor
  <2> QED BY <1>10, <2>1, <2>2 DEF ServerDelete
<1> QED
  BY <1>2, <1>3, <1>4, <1>5, <1>6, <1>7, <1>8, <1>9, <1>10
     DEF Next, Users, Evaluation, Server, Classes

LEMMA InitKnown == Init => IInv
<1> SUFFICES ASSUME Init PROVE IInv
  OBVIOUS
<1>1. LiveIsNewest /\ ViewsKnown /\ ListsKnown
  BY EmptySeq DEF Init, LiveIsNewest, ViewsKnown, ListsKnown, Known, Absent
<1>2. RequestsKnown /\ HasCurrent /\ AnswerIsTrue /\ AnnouncedAreGone /\ CollateralIsSuccessor
  BY DEF Init, RequestsKnown, HasCurrent, AnswerIsTrue, AnnouncedAreGone, CollateralIsSuccessor
<1> QED BY <1>1, <1>2 DEF IInv

\* The evaluation, the watch and the API server agree about which objects existed
\* and which are gone, whatever the order of their steps.
THEOREM InvariantHolds == Spec => [](TypeOK /\ IInv)
<1>1. ASSUME TypeOK, IInv, [Next]_vars PROVE (TypeOK /\ IInv)'
  <2> USE <1>1 DEF IInv
  <2>1. TypeOK' /\ HasCurrent'
    BY TypeInductive, HasCurrentInductive
  <2>2. Evolves /\ ViewsMove
    BY StepEvolves
  <2>3. LiveIsNewest'
    BY <2>1, <2>2, NewestStable
  <2>4. ViewsKnown'
    BY <2>1, <2>2, <2>3, ViewsStable
  <2>5. ListsKnown' /\ RequestsKnown'
    BY <2>1, <2>2, ListsInductive, RequestsInductive
  <2>6. AnswerIsTrue' /\ AnnouncedAreGone'
    BY <2>1, <2>2, AnswerInductive, AnnouncedInductive
  <2>7. CollateralIsSuccessor'
    BY CollateralInductive
  <2> QED BY <2>1, <2>3, <2>4, <2>5, <2>6, <2>7
<1>2. Init => TypeOK /\ IInv
  BY InitTyped, InitKnown
<1> QED BY <1>1, <1>2, PTL DEF Spec

\* A deletion that was announced is real: lost answers, retries and NotFound never
\* make the evaluation report an object that is still there (deleteBatchShared).
THEOREM AnnouncementsTrue == Spec => []AnnouncedIsGone
<1>1. IInv => AnnouncedIsGone
  BY DEF IInv, AnnouncedAreGone, Gone, AnnouncedIsGone
<1> QED BY <1>1, InvariantHolds, PTL

\* A DELETE by name never removes the judged object early nor an older one
\* (performResourceDeletion).
THEOREM CollateralBounded == Spec => []CollateralIsSuccessor
<1>1. IInv => CollateralIsSuccessor
  BY DEF IInv
<1> QED BY <1>1, InvariantHolds, PTL

-----------------------------------------------------------------------------
(* What a step may never do.                                               *)

\* Only an attempt of the retry loop sends a DELETE, and for a due entry.
THEOREM DeletesCorrect == Spec => DeletesAuthorised
<1> DEFINE Authorised ==
      \A r \in inflight' \ inflight :
          /\ ~runDry /\ ~cancelled /\ pc = "attempt"
          /\ \E i \in 1 .. Len(todo) :
                todo[i].name = r.name /\ todo[i].uid = r.uid /\ Due(todo[i])
<1>1. ASSUME TypeOK, IInv, [Next]_vars PROVE [Authorised]_vars
  <2>1. CASE Attempt
    <3> SUFFICES ASSUME NEW r \in inflight' \ inflight PROVE
            /\ ~runDry /\ ~cancelled /\ pc = "attempt"
            /\ \E i \in 1 .. Len(todo) :
                  todo[i].name = r.name /\ todo[i].uid = r.uid /\ Due(todo[i])
      OBVIOUS
    <3>1. ~runDry /\ ~cancelled /\ pc = "attempt" /\ r = Current
      BY <2>1 DEF Attempt, Send, Fail, Succeed
    <3>2. idx + 1 \in 1 .. Len(todo)
      BY <1>1, <3>1 DEF IInv, HasCurrent, TypeOK
    <3>3. Due(todo[idx + 1])
      BY <1>1, <3>2 DEF IInv, ListsKnown
    <3>4. todo[idx + 1].name = r.name /\ todo[idx + 1].uid = r.uid
      BY <3>1 DEF Current
    <3> QED BY <3>1, <3>2, <3>3, <3>4
  <2>2. CASE ~Attempt
    <3>1. inflight' \subseteq inflight
      BY <1>1, <2>2, OnlyAttemptSends
    <3> QED BY <3>1
  <2> QED BY <2>1, <2>2
<1>2. TypeOK /\ IInv /\ [Next]_vars => [Authorised]_vars
  BY <1>1
<1> HIDE DEF Authorised
<1>3. Spec => [][Authorised]_vars
  BY <1>2, InvariantHolds, PTL DEF Spec
<1> QED BY <1>3 DEF Authorised, DeletesAuthorised

\* A run that was not canceled has classified all it listed before it deletes, and
\* tried all that was due before it writes the status.
RunComplete ==
    /\ pc = "classify" => idx = 0
    /\ ~cancelled => /\ pc \in {"batch", "attempt", "inflight", "status"} => items = {}
                     /\ pc = "status" => idx = Len(todo)

LEMMA RunCompleteInductive ==
    ASSUME RunComplete, [Next]_vars PROVE RunComplete'
<1> USE DEF RunComplete, world, cluster, leader, work, progress, server
<1>1. ASSUME UNCHANGED <<cancelled, pc, items, idx, todo>> PROVE RunComplete'
  BY <1>1
<1>2. ASSUME \/ pc' \notin {"classify", "batch", "attempt", "inflight", "status"}
             \/ pc' = "classify" /\ idx' = 0
             \/ cancelled' /\ pc' = pc /\ idx' = idx
      PROVE RunComplete'
  BY <1>2
<1>3. ASSUME NEW n \in Names, NEW c \in Classes, Create(n, c) \/ Relabel(n, c) \/ Remove(n)
      PROVE RunComplete'
  BY <1>1, <1>3 DEF Create, Relabel, Remove
<1>4. ASSUME NEW m \in {"active", "dry", "paused", "gone"}, EditPolicy(m) PROVE RunComplete'
  BY <1>1, <1>4 DEF EditPolicy
<1>5. ASSUME NEW n \in Names, Deliver(n) PROVE RunComplete'
  BY <1>1, <1>5 DEF Deliver
<1>6. CASE StartEvaluation \/ WriteStatus \/ LoseStatus \/ Exit \/ Takeover \/ Cancel
  BY <1>2, <1>6 DEF StartEvaluation, WriteStatus, LoseStatus, EndRun, Exit, Takeover, Cancel
<1>7. ASSUME NEW e \in items, Classify(e) PROVE RunComplete'
  BY <1>2, <1>7 DEF Classify
<1>8. CASE EndClassification
  <2>1. UNCHANGED <<cancelled, items, idx, todo>> /\ (cancelled \/ items = {})
    BY <1>8 DEF EndClassification, ClassificationStops
  <2>2. idx = 0 /\ pc' \in {"batch", "status"} /\ (pc' = "status" => todo = <<>>)
    BY <1>8 DEF EndClassification
  <2> QED BY <2>1, <2>2, EmptySeq
<1>9. CASE EndDeletion
  BY <1>9 DEF EndDeletion, StopDeleting
<1>10. ASSUME pc \in {"batch", "attempt", "inflight"}, pc' \in {"batch", "attempt", "inflight"},
              UNCHANGED <<cancelled, items>>
       PROVE RunComplete'
  BY <1>10
<1>11. CASE TakeToken \/ Attempt \/ Receive
  BY <1>10, <1>11 DEF TakeToken, Attempt, Send, Receive, Fail, Succeed, NextResource
<1>12. CASE Tick \/ UNCHANGED vars
  BY <1>1, <1>12 DEF Tick, vars
<1>13. ASSUME NEW r \in inflight, ServerDelete(r) \/ ServerReject(r) \/ ServerTimeout(r)
       PROVE RunComplete'
  BY <1>1, <1>13 DEF ServerDelete, ServerReject, ServerTimeout
<1> QED
  BY <1>3, <1>4, <1>5, <1>6, <1>7, <1>8, <1>9, <1>11, <1>12, <1>13
     DEF Next, Users, Evaluation, Server, Classes

LEMMA StatusWritten == ASSUME status' # status, [Next]_vars PROVE WriteStatus
<1> USE DEF world, cluster, leader, work, progress, server
<1>1. ASSUME NEW n \in Names, NEW c \in Classes, Create(n, c) \/ Relabel(n, c) \/ Remove(n)
      PROVE status' = status
  BY <1>1 DEF Create, Relabel, Remove
<1>2. ASSUME NEW m \in {"active", "dry", "paused", "gone"}, EditPolicy(m) PROVE status' = status
  BY <1>2 DEF EditPolicy
<1>3. ASSUME NEW n \in Names, Deliver(n) PROVE status' = status
  BY <1>3 DEF Deliver
<1>4. CASE StartEvaluation \/ EndClassification \/ EndDeletion \/ TakeToken \/ Attempt \/ Receive
  BY <1>4 DEF StartEvaluation, EndClassification, EndDeletion, TakeToken, Attempt, Send, Receive, Fail,
              Succeed
<1>5. ASSUME NEW e \in items, Classify(e) PROVE status' = status
  BY <1>5 DEF Classify
<1>6. CASE LoseStatus \/ Exit \/ Takeover \/ Tick \/ Cancel \/ UNCHANGED vars
  BY <1>6 DEF LoseStatus, Exit, Takeover, Tick, Cancel, vars
<1>7. ASSUME NEW r \in inflight, ServerDelete(r) \/ ServerReject(r) \/ ServerTimeout(r)
      PROVE status' = status
  BY <1>7 DEF ServerDelete, ServerReject, ServerTimeout
<1> QED
  BY <1>1, <1>2, <1>3, <1>4, <1>5, <1>6, <1>7 DEF Next, Users, Evaluation, Server, Classes

\* The status never shows the counts of a run that was cut short
\* (updatePolicyStatus, evaluateResources, deleteResourcesInBatches).
THEOREM StatusCorrect == Spec => StatusIsComplete
<1> DEFINE Complete ==
      status' # status =>
          /\ items = {} /\ idx = Len(todo)
          /\ status'.matched = status'.deleted + status'.pending + errs
<1>1. Init => RunComplete
  BY DEF Init, RunComplete
<1>2. Spec => []RunComplete
  BY <1>1, RunCompleteInductive, PTL DEF Spec
<1>3. ASSUME TypeOK, CountsConserved, RunComplete, [Next]_vars PROVE [Complete]_vars
  <2> SUFFICES ASSUME status' # status PROVE Complete
    OBVIOUS
  <2>1. WriteStatus
    BY <1>3, StatusWritten
  <2>2. items = {} /\ idx = Len(todo)
    BY <1>3, <2>1 DEF WriteStatus, RunComplete
  <2>3. matched = deleted + pending + errs
    BY <1>3, <2>2 DEF CountsConserved, TypeOK
  <2> QED BY <2>1, <2>2, <2>3 DEF WriteStatus
<1>4. TypeOK /\ CountsConserved /\ RunComplete /\ [Next]_vars => [Complete]_vars
  BY <1>3
<1> HIDE DEF Complete
<1>5. Spec => [][Complete]_vars
  BY <1>2, <1>4, InvariantHolds, CountsCorrect, PTL DEF Spec
<1> QED BY <1>5 DEF Complete, StatusIsComplete

-----------------------------------------------------------------------------
(* Why an evaluation ends: the part of EvaluationEnds that is no fairness. *)

\* How much of the run is left: its phases, and within the deletion of one resource what
\* the retries still allow.
Stage ==
    CASE pc = "classify" -> 3
      [] pc \in {"batch", "attempt", "inflight"} -> 2
      [] pc = "status" -> 1
      [] OTHER -> 0

Effort ==
    CASE pc = "batch" -> 2 * Steps + 2
      [] pc = "attempt" -> 2 * (Steps - step) + 1
      [] OTHER -> 2 * (Steps - step)

\* The phase goes down, or in it the listed objects, or the resources to delete, or the
\* rounds for one of them: a well-founded order, for one listing and one todo.
Lower ==
    \/ Stage' < Stage
    \/ Stage = 3 /\ Stage' = 3 /\ items' \subseteq items /\ items' # items
    \/ Stage = 2 /\ Stage' = 2 /\ todo' = todo /\ idx' = idx + 1 /\ idx' <= Len(todo)
    \/ Stage = 2 /\ Stage' = 2 /\ todo' = todo /\ idx' = idx /\ 0 <= Effort' /\ Effort' < Effort

Unmoved == UNCHANGED <<pc, items, todo, idx, step>>

\* The retry loop stays within the steps of the backoff.
StepsBounded == /\ pc = "attempt" => step <= Steps
                /\ pc = "inflight" => step < Steps

LEMMA StepsInductive ==
    ASSUME TypeOK, StepsBounded, [Next]_vars PROVE StepsBounded'
<1> USE StepsAssumption DEF StepsBounded, world, cluster, leader, work, progress, server
<1>1. ASSUME UNCHANGED <<pc, step>> \/ pc' \notin {"attempt", "inflight"} PROVE StepsBounded'
  BY <1>1
<1>2. ASSUME NEW n \in Names, NEW c \in Classes, Create(n, c) \/ Relabel(n, c) \/ Remove(n)
      PROVE StepsBounded'
  BY <1>1, <1>2 DEF Create, Relabel, Remove
<1>3. ASSUME NEW m \in {"active", "dry", "paused", "gone"}, EditPolicy(m) PROVE StepsBounded'
  BY <1>1, <1>3 DEF EditPolicy
<1>4. ASSUME NEW n \in Names, Deliver(n) PROVE StepsBounded'
  BY <1>1, <1>4 DEF Deliver
<1>5. CASE StartEvaluation \/ EndClassification \/ EndDeletion \/ WriteStatus \/ LoseStatus
  BY <1>1, <1>5 DEF StartEvaluation, EndClassification, EndDeletion, WriteStatus, LoseStatus, EndRun
<1>6. ASSUME NEW e \in items, Classify(e) PROVE StepsBounded'
  BY <1>1, <1>6 DEF Classify
<1>7. CASE TakeToken
  BY <1>7 DEF TakeToken, Fail, NextResource
<1>8. CASE Attempt
  BY <1>8 DEF Attempt, Send, Fail, Succeed, NextResource
<1>9. CASE Receive
  BY <1>9 DEF Receive, Fail, Succeed, NextResource, TypeOK
<1>10. ASSUME NEW r \in inflight, ServerDelete(r) \/ ServerReject(r) \/ ServerTimeout(r)
       PROVE StepsBounded'
  BY <1>1, <1>10 DEF ServerDelete, ServerReject, ServerTimeout
<1>11. CASE Tick \/ Cancel \/ Exit \/ Takeover \/ UNCHANGED vars
  BY <1>1, <1>11 DEF Tick, Cancel, Exit, Takeover, vars
<1> QED
  BY <1>2, <1>3, <1>4, <1>5, <1>6, <1>7, <1>8, <1>9, <1>10, <1>11
     DEF Next, Users, Evaluation, Server, Classes

LEMMA ResourceLowers ==
    ASSUME TypeOK, HasCurrent, CountsConserved, StepsBounded, TakeToken \/ Attempt \/ Receive
    PROVE  Lower
<1> USE StepsAssumption DEF TypeOK, cluster, world, work
<1>1. ASSUME pc \in {"batch", "attempt", "inflight"}, pc' \in {"batch", "attempt", "inflight"}
      PROVE  Stage = 2 /\ Stage' = 2
  BY <1>1 DEF Stage
<1>2. ASSUME pc \in {"batch", "attempt", "inflight"}, idx < Len(todo), Fail \/ Succeed PROVE Lower
  BY <1>1, <1>2 DEF Fail, Succeed, NextResource, Lower
<1>3. CASE TakeToken
  <2>1. ASSUME ~cancelled PROVE Lower
    <3>1. pc = "batch" /\ pc' = "attempt" /\ step' = 0 /\ UNCHANGED <<todo, idx>>
      BY <1>3, <2>1 DEF TakeToken, progress
    <3>2. Effort = 2 * Steps + 2 /\ Effort' = 2 * Steps + 1
      BY <3>1 DEF Effort
    <3> QED BY <1>1, <3>1, <3>2 DEF Lower
  <2> QED BY <1>2, <1>3, <2>1 DEF TakeToken
<1>4. CASE Attempt
  <2>1. ASSUME Send, step < Steps PROVE Lower
    <3>1. pc = "attempt" /\ pc' = "inflight" /\ UNCHANGED <<todo, idx, step>>
      BY <1>4, <2>1 DEF Attempt, Send, progress
    <3>2. Effort = 2 * (Steps - step) + 1 /\ Effort' = 2 * (Steps - step)
      BY <3>1 DEF Effort
    <3> QED BY <1>1, <2>1, <3>1, <3>2 DEF Lower
  <2> QED BY <1>2, <1>4, <2>1 DEF Attempt, HasCurrent
<1>5. CASE Receive
  <2>1. ASSUME reply = "retryable", pc' = "attempt", step' = step + 1, UNCHANGED <<todo, idx>>
        PROVE  Lower
    <3>1. pc = "inflight" /\ step < Steps
      BY <1>5 DEF Receive, StepsBounded
    <3>2. Effort = 2 * (Steps - step) /\ Effort' = 2 * (Steps - (step + 1)) + 1
      BY <2>1, <3>1 DEF Effort
    <3> QED BY <1>1, <2>1, <3>1, <3>2 DEF Lower
  <2> QED BY <1>2, <1>5, <2>1 DEF Receive, HasCurrent, progress
<1> QED BY <1>3, <1>4, <1>5

\* Every step of the evaluation lowers the measure, and no step of anybody else raises it:
\* whatever the API server answers and the users do meanwhile, the loops of an evaluation
\* go round a bounded number of times.  What EvaluationEnds adds is that the next step
\* comes (evaluateResources, deleteBatchShared, deleteResourceWithBackoffShared).
THEOREM EvaluationAdvances ==
    Spec => [][Stage # 0 => Lower \/ (Unmoved /\ ~Evaluation)]_vars
<1> DEFINE Advances == Stage # 0 => Lower \/ (Unmoved /\ ~Evaluation)
<1>1. ASSUME TypeOK, HasCurrent, CountsConserved, StepsBounded, Next PROVE Advances
  <2> SUFFICES ASSUME Stage # 0 PROVE Lower \/ (Unmoved /\ ~Evaluation)
    OBVIOUS
  <2> USE DEF world, cluster, leader, work, progress, server
  <2>1. CASE Evaluation
    <3>1. CASE StartEvaluation
      BY <3>1 DEF StartEvaluation, Stage
    <3>2. ASSUME NEW e \in items, Classify(e) PROVE Lower
      BY <3>2 DEF Classify, Stage, Lower
    <3>3. CASE EndClassification
      BY <3>3 DEF EndClassification, Stage, Lower
    <3>4. CASE EndDeletion
      BY <3>4 DEF EndDeletion, Stage, Lower
    <3>5. CASE WriteStatus \/ LoseStatus
      BY <3>5 DEF WriteStatus, LoseStatus, EndRun, Stage, Lower
    <3>6. CASE TakeToken \/ Attempt \/ Receive
      BY <1>1, <3>6, ResourceLowers
    <3> QED BY <2>1, <3>1, <3>2, <3>3, <3>4, <3>5, <3>6 DEF Evaluation
  <2>2. CASE Exit
    BY <2>2 DEF Exit, Stage, Lower
  <2>3. CASE Takeover
    BY <2>3 DEF Takeover, Stage
  <2>4. ASSUME ~Evaluation, Users \/ Tick \/ (\E n \in Names : Deliver(n)) \/ Server \/ Cancel
        PROVE  Unmoved
    <3>1. ASSUME NEW n \in Names, NEW c \in Classes, Create(n, c) \/ Relabel(n, c) \/ Remove(n)
          PROVE  Unmoved
      BY <3>1 DEF Create, Relabel, Remove, Unmoved
    <3>2. ASSUME NEW m \in {"active", "dry", "paused", "gone"}, EditPolicy(m) PROVE Unmoved
      BY <3>2 DEF EditPolicy, Unmoved
    <3>3. ASSUME NEW n \in Names, Deliver(n) PROVE Unmoved
      BY <3>3 DEF Deliver, Unmoved
    <3>4. ASSUME NEW r \in inflight, ServerDelete(r) \/ ServerReject(r) \/ ServerTimeout(r)
          PROVE  Unmoved
      BY <3>4 DEF ServerDelete, ServerReject, ServerTimeout, Unmoved
    <3>5. CASE Tick \/ Cancel
      BY <3>5 DEF Tick, Cancel, Unmoved
    <3> QED BY <2>4, <3>1, <3>2, <3>3, <3>4, <3>5 DEF Users, Server, Classes
  <2> QED BY <1>1, <2>1, <2>2, <2>3, <2>4 DEF Next
<1>2. Init => StepsBounded
  BY DEF Init, StepsBounded
<1>3. TypeOK /\ StepsBounded /\ [Next]_vars => StepsBounded'
  BY StepsInductive
<1>4. TypeOK /\ HasCurrent /\ CountsConserved /\ StepsBounded /\ [Next]_vars => [Advances]_vars
  BY <1>1
<1> HIDE DEF Advances
<1>5. Spec => [][Advances]_vars
  BY <1>2, <1>3, <1>4, TypeCorrect, CountsCorrect, PTL DEF Spec
<1> QED BY <1>5 DEF Advances
=============================================================================
