---------------------------- MODULE FailoverProofs ----------------------------
(***************************************************************************)
(* Proofs about Failover, for every set of replicas and objects, all       *)
(* durations that the elector accepts, any delay of requests and any       *)
(* number of faults.                                                       *)
(***************************************************************************)
EXTENDS Failover, LeaderElectionProofs

-----------------------------------------------------------------------------
(* The inductive invariant.                                                *)

\* A DELETE of the replica that holds the lease left under a lease that was written not
\* long before; when the lease is taken, this is what is known of the old holder.
OwnDeletesFresh ==
    enabled => \A d \in deletes : d.by = holder => quiet <= GiveUp + Delay + d.age

\* What a replica waits for is gone already, or its request is on its way.
WaitSound ==
    \A r \in Replicas : waiting[r] # NoObject =>
        waiting[r] \notin stored \/ \E d \in deletes : d.by = r /\ d.object = waiting[r]

ReportsTrue == \A x \in reported : x[2] \notin stored

OverlapNoted == \A r, s \in Replicas : r # s /\ Works(r) /\ Works(s) => overlapped

\* While leaders have followed one another, none has in hand what another has reported.
ReportsApart ==
    ~overlapped => \A r, s \in Replicas, o \in Objects : <<s, o>> \in reported /\ o \in todo[r] => r = s

Collected ==
    CollectionTypeOK /\ OwnDeletesFresh /\ StrayDeletesBounded
    /\ WaitSound /\ ReportsTrue /\ OverlapNoted /\ ReportsApart /\ ReportedOnce

-----------------------------------------------------------------------------
(* The leases under the collection are those of LeaderElection.            *)

LEMMA LeaseStep == FailoverNext => [Next]_vars
BY DEF FailoverNext, Lead, Elapse, Collect, List, SendAny, Send, Request, Report, FailDelete, Land, Next

\* Collecting does not interfere with the election: the composition keeps every property of
\* LeaderElection (runController under RunWithLeaderElection).
THEOREM FailoverElects == FailoverSpec => Spec
<1>1. FailoverInit => Init
  BY DEF FailoverInit
<1>2. [FailoverNext]_allVars => [Next]_vars
  BY LeaseStep DEF allVars
<1> QED BY <1>1, <1>2, PTL DEF FailoverSpec, Spec

LEMMA LeaseInvariant == FailoverSpec => []IInv
BY FailoverElects, Invariant, PTL

-----------------------------------------------------------------------------
(* One lemma per step.                                                     *)

\* The steps of one replica's evaluation leave the leases alone.
LEMMA LeasesApart ==
    ASSUME UNCHANGED vars
    PROVE  /\ enabled' = enabled /\ holder' = holder /\ quiet' = quiet /\ held' = held
           /\ \A r \in Replicas : Works(r)' <=> Works(r)
BY DEF vars, lease, control, world, Works

LEMMA CollectedSame == ASSUME Collected, UNCHANGED allVars PROVE Collected'
<1>1. UNCHANGED <<stored, todo, waiting, deletes, reported, overlapped>> /\ UNCHANGED vars
  BY DEF allVars, collection
<1> USE LeasesApart, <1>1
<1>2. CollectionTypeOK'
  BY DEF Collected, CollectionTypeOK
<1>3. OwnDeletesFresh' /\ StrayDeletesBounded'
  BY DEF Collected, OwnDeletesFresh, StrayDeletesBounded
<1>4. WaitSound' /\ ReportsTrue' /\ OverlapNoted'
  BY DEF Collected, WaitSound, ReportsTrue, OverlapNoted
<1>5. ReportsApart' /\ ReportedOnce'
  BY DEF Collected, ReportsApart, ReportedOnce, ReportedTwice
<1> QED BY <1>2, <1>3, <1>4, <1>5 DEF Collected

LEMMA ListStep == ASSUME Collected, NEW r \in Replicas, List(r) PROVE Collected'
<1>1. /\ Works(r) /\ todo' = [todo EXCEPT ![r] = stored]
      /\ UNCHANGED <<stored, waiting, deletes, reported, overlapped>> /\ UNCHANGED vars
  BY DEF List
<1> USE LeasesApart, <1>1
<1>2. CollectionTypeOK'
  <2>1. waiting[r] = NoObject
    BY DEF List, Collected, CollectionTypeOK
  <2> QED BY <2>1 DEF Collected, CollectionTypeOK
<1>3. OwnDeletesFresh' /\ StrayDeletesBounded'
  BY DEF Collected, OwnDeletesFresh, StrayDeletesBounded
<1>4. WaitSound' /\ ReportsTrue' /\ OverlapNoted'
  BY DEF Collected, WaitSound, ReportsTrue, OverlapNoted
<1>5. ReportsApart'
  <2> SUFFICES ASSUME ~overlapped, NEW p \in Replicas, NEW s \in Replicas, NEW o \in Objects,
                      <<s, o>> \in reported, o \in todo'[p]
               PROVE  p = s
    BY DEF ReportsApart
  <2>1. o \notin stored
    BY DEF Collected, ReportsTrue
  <2>2. p # r
    BY <2>1 DEF Collected, CollectionTypeOK
  <2>3. o \in todo[p]
    BY <2>2 DEF Collected, CollectionTypeOK
  <2> QED BY <2>3 DEF Collected, ReportsApart
<1>6. ReportedOnce'
  BY DEF Collected, ReportedOnce, ReportedTwice
<1> QED BY <1>2, <1>3, <1>4, <1>5, <1>6 DEF Collected

\* A DELETE is sent under a lease that the elector still counts on.
LEMMA SendStep == ASSUME IInv, Collected, NEW r \in Replicas, NEW o \in Objects, Send(r, o) PROVE Collected'
<1> DEFINE new == [by |-> r, object |-> o, age |-> 0]
<1>1. /\ Works(r) /\ o \in todo[r] /\ waiting' = [waiting EXCEPT ![r] = o]
      /\ deletes' = deletes \cup {new}
      /\ UNCHANGED <<stored, todo, reported, overlapped>> /\ UNCHANGED vars
  BY DEF Send, Request
<1> USE LeasesApart
<1>2. CollectionTypeOK'
  <2>1. new \in Delete
    BY RequestAssumption DEF Delete
  <2> HIDE DEF new
  <2> QED BY <1>1, <2>1 DEF Collected, CollectionTypeOK
<1>3. enabled => /\ r = holder => quiet <= GiveUp + Delay
                 /\ r # holder => held <= GiveUp + Delay - LeaseDuration
  <2> SUFFICES ASSUME enabled PROVE /\ r = holder => quiet <= GiveUp + Delay
                                    /\ r # holder => held <= GiveUp + Delay - LeaseDuration
    OBVIOUS
  <2>1. stage[r] = "leading"
    BY <1>1 DEF IInv, Parts, WorkSound, TypeOK, Works
  <2>2. /\ holder = r => idle[r] + Delay >= quiet
        /\ holder # r => idle[r] + Delay >= LeaseDuration + held
    BY <2>1 DEF IInv, Parts, LeaderFresh
  <2>3. idle[r] \in 0 .. GiveUp /\ held \in Int /\ quiet \in Int
    BY Durations DEF IInv, TypeOK
  <2> QED BY <2>2, <2>3, Durations
<1>4. new.by = r /\ new.age = 0 /\ new.object = o
  OBVIOUS
<1> HIDE DEF new
<1>5. quiet \in Int /\ held \in Int
  BY Durations DEF IInv, TypeOK
<1>6. OwnDeletesFresh'
  <2> SUFFICES ASSUME enabled, NEW d \in deletes', d.by = holder PROVE quiet <= GiveUp + Delay + d.age
    BY <1>1 DEF OwnDeletesFresh
  <2>1. CASE d = new
    BY <1>3, <1>4, <1>5, <2>1, Durations
  <2>2. CASE d \in deletes
    BY <2>2 DEF Collected, OwnDeletesFresh
  <2> QED BY <1>1, <2>1, <2>2
<1>7. StrayDeletesBounded'
  <2> SUFFICES ASSUME enabled, NEW d \in deletes', d.by # holder
               PROVE  held <= GiveUp + Delay - LeaseDuration + d.age
    BY <1>1 DEF StrayDeletesBounded
  <2>1. CASE d = new
    BY <1>3, <1>4, <1>5, <2>1, Durations
  <2>2. CASE d \in deletes
    BY <2>2 DEF Collected, StrayDeletesBounded
  <2> QED BY <1>1, <2>1, <2>2
<1>8. WaitSound'
  <2> SUFFICES ASSUME NEW s \in Replicas, waiting'[s] # NoObject
               PROVE  waiting'[s] \notin stored \/ \E d \in deletes' : d.by = s /\ d.object = waiting'[s]
    BY <1>1 DEF WaitSound
  <2>1. waiting \in [Replicas -> Objects \cup {NoObject}]
    BY DEF Collected, CollectionTypeOK
  <2>2. CASE s = r
    BY <1>1, <1>4, <2>1, <2>2
  <2>3. CASE s # r
    <3>1. waiting'[s] = waiting[s]
      BY <1>1, <2>1, <2>3
    <3> QED BY <1>1, <3>1 DEF Collected, WaitSound
  <2> QED BY <2>2, <2>3
<1>9. ReportsTrue' /\ OverlapNoted' /\ ReportsApart' /\ ReportedOnce'
  BY <1>1 DEF Collected, ReportsTrue, OverlapNoted, ReportsApart, ReportedOnce, ReportedTwice
<1> QED BY <1>2, <1>6, <1>7, <1>8, <1>9 DEF Collected

\* A step in which r is done with the object it waits for.
LEMMA DoneStep ==
    ASSUME Collected, NEW r \in Replicas, waiting[r] # NoObject, Done(r), UNCHANGED vars,
           deletes' \subseteq deletes, UNCHANGED <<stored, overlapped>>,
           \A d \in deletes \ deletes' : d.by = r
    PROVE  /\ waiting[r] \in todo[r] /\ waiting[r] \in Objects
           /\ todo' = [todo EXCEPT ![r] = @ \ {waiting[r]}]
           /\ \A s \in Replicas : todo'[s] \subseteq todo[s]
           /\ deletes' \subseteq Delete /\ todo' \in [Replicas -> SUBSET Objects]
           /\ waiting' \in [Replicas -> Objects \cup {NoObject}]
           /\ \A s \in Replicas :
                 waiting'[s] \in todo'[s] \cup {NoObject} /\ (~Works(s)' => todo'[s] = {})
           /\ OwnDeletesFresh' /\ StrayDeletesBounded' /\ WaitSound' /\ OverlapNoted'
<1> USE LeasesApart
<1>1. /\ todo \in [Replicas -> SUBSET Objects] /\ waiting \in [Replicas -> Objects \cup {NoObject}]
      /\ waiting[r] \in todo[r]
  BY DEF Collected, CollectionTypeOK
<1>2. /\ todo' = [todo EXCEPT ![r] = @ \ {waiting[r]}]
      /\ waiting' = [waiting EXCEPT ![r] = NoObject]
  BY DEF Done
<1>3. /\ waiting[r] \in Objects /\ \A s \in Replicas : todo'[s] \subseteq todo[s]
      /\ todo' \in [Replicas -> SUBSET Objects] /\ waiting' \in [Replicas -> Objects \cup {NoObject}]
      /\ deletes' \subseteq Delete
  BY <1>1, <1>2 DEF Collected, CollectionTypeOK
<1>4. ASSUME NEW s \in Replicas
      PROVE  waiting'[s] \in todo'[s] \cup {NoObject} /\ (~Works(s)' => todo'[s] = {})
  BY <1>1, <1>2 DEF Collected, CollectionTypeOK
<1>5. OwnDeletesFresh' /\ StrayDeletesBounded'
  BY DEF Collected, OwnDeletesFresh, StrayDeletesBounded
<1>6. WaitSound'
  <2> SUFFICES ASSUME NEW s \in Replicas, waiting'[s] # NoObject
               PROVE  waiting'[s] \notin stored \/ \E d \in deletes' : d.by = s /\ d.object = waiting'[s]
    BY DEF WaitSound
  <2>1. s # r /\ waiting'[s] = waiting[s]
    BY <1>1, <1>2
  <2> QED BY <2>1 DEF Collected, WaitSound
<1>7. OverlapNoted'
  BY DEF Collected, OverlapNoted
<1> QED BY <1>1, <1>2, <1>3, <1>4, <1>5, <1>6, <1>7

LEMMA ReportStep == ASSUME Collected, NEW r \in Replicas, Report(r) PROVE Collected'
<1>1. /\ Works(r) /\ waiting[r] # NoObject /\ Done(r) /\ UNCHANGED vars
      /\ reported' = reported \cup {<<r, waiting[r]>>} /\ UNCHANGED <<stored, deletes, overlapped>>
      /\ \A d \in deletes : d.by = r => d.object # waiting[r]
  BY DEF Report
<1>2. /\ waiting[r] \in todo[r] /\ waiting[r] \in Objects
      /\ \A s \in Replicas : todo'[s] \subseteq todo[s]
      /\ deletes' \subseteq Delete /\ todo' \in [Replicas -> SUBSET Objects]
      /\ waiting' \in [Replicas -> Objects \cup {NoObject}]
      /\ \A s \in Replicas :
            waiting'[s] \in todo'[s] \cup {NoObject} /\ (~Works(s)' => todo'[s] = {})
      /\ OwnDeletesFresh' /\ StrayDeletesBounded' /\ WaitSound' /\ OverlapNoted'
  BY <1>1, DoneStep
<1>3. CollectionTypeOK'
  BY <1>1, <1>2 DEF Collected, CollectionTypeOK
<1>4. waiting[r] \notin stored
  BY <1>1 DEF Collected, WaitSound
<1>5. ReportsTrue'
  BY <1>1, <1>4 DEF Collected, ReportsTrue
<1>6. ReportsApart'
  <2> SUFFICES ASSUME ~overlapped, NEW p \in Replicas, NEW s \in Replicas, NEW o \in Objects,
                      <<s, o>> \in reported', o \in todo'[p], p # s
               PROVE  FALSE
    BY <1>1 DEF ReportsApart
  <2>1. o \in todo[p]
    BY <1>2
  <2>2. <<s, o>> \notin reported
    BY <2>1 DEF Collected, ReportsApart
  <2>3. s = r
    BY <1>1, <2>2
  <2>4. Works(p)
    BY <2>1 DEF Collected, CollectionTypeOK
  <2> QED BY <1>1, <2>3, <2>4 DEF Collected, OverlapNoted
<1>7. ReportedOnce'
  <2> SUFFICES ASSUME ~overlapped, NEW o \in Objects, NEW p \in Replicas, NEW s \in Replicas,
                      p # s, <<p, o>> \in reported', <<s, o>> \in reported'
               PROVE  FALSE
    BY <1>1 DEF ReportedOnce, ReportedTwice
  <2>1. ~(<<p, o>> \in reported /\ <<s, o>> \in reported)
    BY DEF Collected, ReportedOnce, ReportedTwice
  <2>2. o = waiting[r] /\ \E x \in Replicas : x # r /\ <<x, o>> \in reported
    BY <1>1, <2>1
  <2> QED BY <1>2, <2>2 DEF Collected, ReportsApart
<1> QED BY <1>2, <1>3, <1>5, <1>6, <1>7 DEF Collected

LEMMA FailDeleteStep == ASSUME Collected, NEW r \in Replicas, FailDelete(r) PROVE Collected'
<1>1. /\ waiting[r] # NoObject /\ Done(r) /\ UNCHANGED vars
      /\ UNCHANGED <<stored, reported, overlapped>>
      /\ deletes' \subseteq deletes /\ \A d \in deletes \ deletes' : d.by = r
  BY DEF FailDelete
<1>2. /\ \A s \in Replicas : todo'[s] \subseteq todo[s]
      /\ deletes' \subseteq Delete /\ todo' \in [Replicas -> SUBSET Objects]
      /\ waiting' \in [Replicas -> Objects \cup {NoObject}]
      /\ \A s \in Replicas :
            waiting'[s] \in todo'[s] \cup {NoObject} /\ (~Works(s)' => todo'[s] = {})
      /\ OwnDeletesFresh' /\ StrayDeletesBounded' /\ WaitSound' /\ OverlapNoted'
  BY <1>1, DoneStep
<1>3. CollectionTypeOK'
  BY <1>1, <1>2 DEF Collected, CollectionTypeOK
<1>4. ReportsTrue' /\ ReportedOnce'
  BY <1>1 DEF Collected, ReportsTrue, ReportedOnce, ReportedTwice
<1>5. ReportsApart'
  <2> SUFFICES ASSUME ~overlapped, NEW p \in Replicas, NEW s \in Replicas, NEW o \in Objects,
                      <<s, o>> \in reported, o \in todo'[p]
               PROVE  p = s
    BY <1>1 DEF ReportsApart
  <2>1. o \in todo[p]
    BY <1>2
  <2> QED BY <2>1 DEF Collected, ReportsApart
<1> QED BY <1>2, <1>3, <1>4, <1>5 DEF Collected

LEMMA LandStep == ASSUME Collected, NEW d \in deletes, Land(d) PROVE Collected'
<1>1. /\ deletes' = deletes \ {d} /\ stored' = stored \ {d.object}
      /\ UNCHANGED <<todo, waiting, reported, overlapped>> /\ UNCHANGED vars
  BY DEF Land
<1> USE LeasesApart, <1>1
<1>2. CollectionTypeOK'
  BY DEF Collected, CollectionTypeOK
<1>3. OwnDeletesFresh' /\ StrayDeletesBounded'
  BY DEF Collected, OwnDeletesFresh, StrayDeletesBounded
<1>4. WaitSound'
  <2> SUFFICES ASSUME NEW s \in Replicas, waiting[s] # NoObject, waiting[s] \in stored'
               PROVE  \E e \in deletes' : e.by = s /\ e.object = waiting[s]
    BY DEF WaitSound
  <2>1. PICK e \in deletes : e.by = s /\ e.object = waiting[s]
    BY DEF Collected, WaitSound
  <2>2. e # d
    BY <2>1
  <2> QED BY <2>1, <2>2
<1>5. ReportsTrue' /\ OverlapNoted' /\ ReportsApart' /\ ReportedOnce'
  BY DEF Collected, ReportsTrue, OverlapNoted, ReportsApart, ReportedOnce, ReportedTwice
<1> QED BY <1>2, <1>3, <1>4, <1>5 DEF Collected

\* The clock of the lease and that of the requests advance together.
LEMMA ElapseStep == ASSUME IInv, Collected, Elapse PROVE Collected'
<1> DEFINE older(d) == [d EXCEPT !.age = @ + 1]
<1>1. /\ deletes' = {older(d) : d \in deletes} /\ UNCHANGED <<stored, todo, waiting, reported, overlapped>>
      /\ \A d \in deletes : d.age < RequestDelay
  BY DEF Elapse
<1>2. /\ UNCHANGED <<enabled, holder, running>>
      /\ quiet' = Older(quiet, LeaseDuration) /\ held' = Older(held, GiveUp + Delay)
  BY DEF Elapse, Tick, control, world
<1>3. \A r \in Replicas : Works(r)' <=> Works(r)
  BY <1>2 DEF Works
<1>4. /\ quiet \in Int /\ quiet' \in Int /\ quiet' <= quiet + 1
      /\ held \in Int /\ held' \in Int /\ held' <= held + 1
  <2>1. quiet \in 0 .. LeaseDuration /\ held \in 0 .. (GiveUp + Delay)
    BY DEF IInv, TypeOK
  <2> QED BY <1>2, <2>1, OlderIsLater, Durations
<1>5. ASSUME NEW d \in deletes
      PROVE  /\ older(d) \in Delete /\ older(d).by = d.by /\ older(d).object = d.object
             /\ older(d).age = d.age + 1 /\ d.age \in Int
  <2>1. d \in Delete /\ d.age < RequestDelay
    BY <1>1 DEF Collected, CollectionTypeOK
  <2> QED BY <2>1, RequestAssumption DEF Delete
<1> HIDE DEF older
<1>6. CollectionTypeOK'
  <2>1. deletes' \subseteq Delete
    BY <1>1, <1>5
  <2> QED BY <1>1, <1>3, <2>1 DEF Collected, CollectionTypeOK
<1>7. OwnDeletesFresh'
  <2> SUFFICES ASSUME enabled, NEW d \in deletes, older(d).by = holder
               PROVE  quiet' <= GiveUp + Delay + older(d).age
    BY <1>1, <1>2 DEF OwnDeletesFresh
  <2>1. quiet <= GiveUp + Delay + d.age
    BY <1>5 DEF Collected, OwnDeletesFresh
  <2> QED BY <1>4, <1>5, <2>1, Durations
<1>8. StrayDeletesBounded'
  <2> SUFFICES ASSUME enabled, NEW d \in deletes, older(d).by # holder
               PROVE  held' <= GiveUp + Delay - LeaseDuration + older(d).age
    BY <1>1, <1>2 DEF StrayDeletesBounded
  <2>1. held <= GiveUp + Delay - LeaseDuration + d.age
    BY <1>5 DEF Collected, StrayDeletesBounded
  <2> QED BY <1>4, <1>5, <2>1, Durations
<1>9. WaitSound'
  <2> SUFFICES ASSUME NEW s \in Replicas, waiting[s] # NoObject, waiting[s] \in stored
               PROVE  \E e \in deletes' : e.by = s /\ e.object = waiting[s]
    BY <1>1 DEF WaitSound
  <2>1. PICK d \in deletes : d.by = s /\ d.object = waiting[s]
    BY DEF Collected, WaitSound
  <2>2. older(d) \in deletes' /\ older(d).by = s /\ older(d).object = waiting[s]
    BY <1>1, <1>5, <2>1
  <2> QED BY <2>2
<1>10. ReportsTrue' /\ OverlapNoted' /\ ReportsApart' /\ ReportedOnce'
  BY <1>1, <1>3 DEF Collected, ReportsTrue, OverlapNoted, ReportsApart, ReportedOnce, ReportedTwice
<1> QED BY <1>6, <1>7, <1>8, <1>9, <1>10 DEF Collected

-----------------------------------------------------------------------------
(* The steps of the replicas.                                              *)

\* The lease does not change but for a write of it.
LEMMA LeaseWritten ==
    ASSUME NEW r \in Replicas, Act(r)
    PROVE  enabled' = enabled /\ (Execute(r) \/ UNCHANGED lease)
BY DEF Act, Elect, Process, Try, Execute, Refuse, Receive, RunDirectly, OnStartedLeading, StopRenewing,
       OnStoppedLeading, Exit, Restart, ManagerFails, Signal, Crash, Lose, Disconnect, Reconnect,
       Stop, world

\* When a replica takes the lease, the old holder's requests have been on their way for as
\* long as the lease was silent beyond what its deadlines allow.
LEMMA WriteBounds ==
    ASSUME IInv, Collected, NEW r \in Replicas, Execute(r), UNCHANGED <<deletes, enabled>>
    PROVE  OwnDeletesFresh' /\ StrayDeletesBounded'
<1>1. /\ request[r] = "sent" /\ holder' = r /\ quiet' = 0
      /\ held' = IF holder = r THEN held ELSE 0
  BY DEF Execute
<1>2. quiet \in Int /\ held \in Nat
  BY Durations DEF IInv, TypeOK
<1>3. ASSUME NEW d \in deletes PROVE d.age \in Nat /\ d.by \in Replicas
  BY RequestAssumption DEF Collected, CollectionTypeOK, Delete
<1>4. OwnDeletesFresh'
  <2> SUFFICES ASSUME NEW d \in deletes PROVE 0 <= GiveUp + Delay + d.age
    BY <1>1 DEF OwnDeletesFresh
  <2> QED BY <1>3, Durations
<1>5. StrayDeletesBounded'
  <2> SUFFICES ASSUME enabled, NEW d \in deletes, d.by # r
               PROVE  held' <= GiveUp + Delay - LeaseDuration + d.age
    BY <1>1 DEF StrayDeletesBounded
  <2>1. CASE d.by # holder
    <3>1. held <= GiveUp + Delay - LeaseDuration + d.age
      BY <2>1 DEF Collected, StrayDeletesBounded
    <3>2. held' = held \/ held' = 0
      BY <1>1
    <3> QED BY <1>2, <1>3, <3>1, <3>2, Durations
  <2>2. CASE d.by = holder
    <3>1. quiet = LeaseDuration
      BY <1>1, <1>3, <2>2, ReplicaAssumption DEF IInv, Parts, TakeSound
    <3>2. quiet <= GiveUp + Delay + d.age
      BY <2>2 DEF Collected, OwnDeletesFresh
    <3>3. held' = 0
      BY <1>1, <2>2
    <3> QED BY <1>3, <3>1, <3>2, <3>3, Durations
  <2> QED BY <2>1, <2>2
<1> QED BY <1>4, <1>5

LEMMA LeadStep == ASSUME IInv, Collected, Lead PROVE Collected'
<1>1. /\ Interrupt /\ UNCHANGED <<stored, deletes, reported>>
      /\ overlapped' = (overlapped \/ \E r, s \in Replicas : r # s /\ Works(r)' /\ Works(s)')
  BY DEF Lead
<1>2. PICK r \in Replicas : Act(r)
  BY DEF Lead
<1>3. /\ todo' = [s \in Replicas |-> IF Works(s)' THEN todo[s] ELSE {}]
      /\ waiting' = [s \in Replicas |-> IF Works(s)' THEN waiting[s] ELSE NoObject]
  BY <1>1 DEF Interrupt
<1>4. /\ stored \subseteq Objects /\ reported \subseteq Replicas \X Objects
      /\ todo \in [Replicas -> SUBSET Objects] /\ waiting \in [Replicas -> Objects \cup {NoObject}]
      /\ deletes \subseteq Delete /\ overlapped \in BOOLEAN
      /\ \A s \in Replicas : waiting[s] \in todo[s] \cup {NoObject}
  BY DEF Collected, CollectionTypeOK
<1>5. ASSUME NEW s \in Replicas
      PROVE  /\ todo'[s] = (IF Works(s)' THEN todo[s] ELSE {})
             /\ waiting'[s] = (IF Works(s)' THEN waiting[s] ELSE NoObject)
  BY <1>3
<1>6. CollectionTypeOK'
  <2>1. overlapped' \in BOOLEAN
    BY <1>1, <1>4, Zenon
  <2>2. todo' \in [Replicas -> SUBSET Objects] /\ waiting' \in [Replicas -> Objects \cup {NoObject}]
    BY <1>3, <1>4
  <2>3. \A s \in Replicas : waiting'[s] \in todo'[s] \cup {NoObject} /\ (~Works(s)' => todo'[s] = {})
    BY <1>4, <1>5
  <2> QED BY <1>1, <1>4, <2>1, <2>2, <2>3 DEF CollectionTypeOK
<1>7. OwnDeletesFresh' /\ StrayDeletesBounded'
  <2>1. CASE Execute(r)
    BY <1>1, <1>2, <2>1, LeaseWritten, WriteBounds
  <2>2. CASE UNCHANGED lease
    BY <1>1, <1>2, <2>2, LeaseWritten DEF Collected, OwnDeletesFresh, StrayDeletesBounded, lease
  <2> QED BY <1>2, <2>1, <2>2, LeaseWritten
<1>8. WaitSound'
  BY <1>1, <1>5 DEF Collected, WaitSound
<1>9. ReportsTrue'
  BY <1>1 DEF Collected, ReportsTrue
<1>10. OverlapNoted'
  BY <1>1 DEF OverlapNoted
<1>11. overlapped => overlapped'
  BY <1>1
<1>12. ReportsApart'
  BY <1>1, <1>5, <1>11 DEF Collected, ReportsApart
<1>13. ReportedOnce'
  BY <1>1, <1>11 DEF Collected, ReportedOnce, ReportedTwice
<1> QED BY <1>6, <1>7, <1>8, <1>9, <1>10, <1>12, <1>13 DEF Collected

-----------------------------------------------------------------------------
(* The theorems.                                                           *)

LEMMA CollectedInit == FailoverInit => Collected
<1> SUFFICES ASSUME FailoverInit PROVE Collected
  OBVIOUS
<1>1. \A r \in Replicas : ~Works(r)
  BY DEF FailoverInit, Init, Works
<1> QED BY <1>1 DEF FailoverInit, Collected, CollectionTypeOK, OwnDeletesFresh, StrayDeletesBounded,
               WaitSound, ReportsTrue, OverlapNoted, ReportsApart, ReportedOnce, ReportedTwice

LEMMA CollectedStep == IInv /\ Collected /\ [FailoverNext]_allVars => Collected'
<1> SUFFICES ASSUME IInv, Collected, [FailoverNext]_allVars PROVE Collected'
  OBVIOUS
<1>1. CASE UNCHANGED allVars
  BY <1>1, CollectedSame
<1>2. CASE Lead
  BY <1>2, LeadStep
<1>3. CASE Elapse
  BY <1>3, ElapseStep
<1>4. ASSUME NEW r \in Replicas, Collect(r) \/ FailDelete(r) PROVE Collected'
  BY <1>4, ListStep, SendStep, ReportStep, FailDeleteStep DEF Collect, SendAny
<1>5. ASSUME NEW d \in deletes, Land(d) PROVE Collected'
  BY <1>5, LandStep
<1> QED BY <1>1, <1>2, <1>3, <1>4, <1>5 DEF FailoverNext

\* What is known of the leases, of requests on their way and of reports holds throughout.
THEOREM CollectionInvariant == FailoverSpec => []Collected
BY CollectedInit, CollectedStep, LeaseInvariant, PTL DEF FailoverSpec

\* A replica whose context is canceled has nothing in hand, and every variable has its type.
THEOREM CollectionTyped == FailoverSpec => []CollectionTypeOK
<1>1. Collected => CollectionTypeOK
  BY DEF Collected
<1> QED BY <1>1, CollectionInvariant, PTL

\* For all durations and delays: a replica that has lost the lease has sent its last DELETE at
\* most GiveUp + Delay - LeaseDuration after the change of leader (ApplyDefaults).
THEOREM StraysAlwaysBounded == FailoverSpec => []StrayDeletesBounded
<1>1. Collected => StrayDeletesBounded
  BY DEF Collected
<1> QED BY <1>1, CollectionInvariant, PTL

\* Leaders that follow one another report no deletion twice, whatever is on its way.
THEOREM AlwaysReportedOnce == FailoverSpec => []ReportedOnce
<1>1. Collected => ReportedOnce
  BY DEF Collected
<1> QED BY <1>1, CollectionInvariant, PTL

\* With durations that leave slack nothing is reported twice by two leaders at all, as
\* docs/validation/leader-election-safety.md promises.  The defaults of ApplyDefaults leave
\* none.
THEOREM SlackReportsOnce ==
    ASSUME GiveUp + Delay < LeaseDuration
    PROVE  FailoverSpec => [](enabled => ~ReportedTwice)
<1>1. FailoverSpec => []ExactlyOne
  BY FailoverElects, SlackGivesExactlyOne, PTL
<1>2. FailoverInit => (enabled => ~overlapped)
  BY DEF FailoverInit
<1>3. (enabled => ~overlapped) /\ ExactlyOne' /\ [FailoverNext]_allVars => (enabled => ~overlapped)'
  <2> SUFFICES ASSUME enabled => ~overlapped, ExactlyOne', [FailoverNext]_allVars, enabled'
               PROVE  ~overlapped'
    OBVIOUS
  <2>1. CASE Lead
    <3>1. enabled' = enabled
      BY <2>1, LeaseWritten DEF Lead
    <3>2. overlapped' = (overlapped \/ \E r, s \in Replicas : r # s /\ Works(r)' /\ Works(s)')
      BY <2>1 DEF Lead
    <3>3. ~ \E r, s \in Replicas : r # s /\ Works(r)' /\ Works(s)'
      BY DEF ExactlyOne
    <3> QED BY <3>1, <3>2, <3>3
  <2>2. CASE ~Lead
    <3>1. UNCHANGED <<enabled, overlapped>>
      BY <2>2 DEF FailoverNext, Elapse, Tick, Collect, List, SendAny, Send, Request, Report, FailDelete,
                  Land, allVars, vars, world
    <3> QED BY <3>1
  <2> QED BY <2>1, <2>2
<1>4. FailoverSpec => [](enabled => ~overlapped)
  BY <1>1, <1>2, <1>3, PTL DEF FailoverSpec
<1>5. ReportedOnce /\ (enabled => ~overlapped) => (enabled => ~ReportedTwice)
  BY DEF ReportedOnce
<1> QED BY <1>4, <1>5, AlwaysReportedOnce, PTL

-----------------------------------------------------------------------------
(* Several replicas together keep the promise of one collector.            *)

First == [o \in Objects |-> 1]

Departed == {<<o, 1>> : o \in Objects \ stored}

Reported == {<<x[2], 1>> : x \in reported}

Promise == INSTANCE CollectorPromise WITH
    Names <- Objects, newest <- First, gone <- Departed, collected <- Departed, reported <- Reported

LEMMA LandRefines ==
    ASSUME Collected, NEW d \in deletes, Land(d) PROVE [Promise!Next]_(Promise!vars)
<1>1. /\ d.object \in Objects /\ stored' = stored \ {d.object}
      /\ First' = First /\ Reported' = Reported
  BY DEF Land, Collected, CollectionTypeOK, Delete, First, Reported
<1>2. CASE d.object \in stored
  <2>1. /\ Departed' = Departed \cup {<<d.object, 1>>} /\ <<d.object, 1>> \notin Departed
        /\ First[d.object] = 1
    BY <1>1, <1>2 DEF Departed, First
  <2>2. Promise!Collect(d.object)
    BY <1>1, <2>1 DEF Promise!Collect, Promise!There
  <2> QED BY <1>1, <2>2 DEF Promise!Next
<1>3. CASE d.object \notin stored
  BY <1>1, <1>3 DEF Departed, Promise!vars
<1> QED BY <1>2, <1>3

LEMMA ReportRefines ==
    ASSUME Collected, NEW r \in Replicas, Report(r) PROVE [Promise!Next]_(Promise!vars)
<1>1. /\ waiting[r] # NoObject /\ stored' = stored
      /\ reported' = reported \cup {<<r, waiting[r]>>}
      /\ \A d \in deletes : d.by = r => d.object # waiting[r]
  BY DEF Report
<1>2. waiting[r] \in Objects \ stored
  BY <1>1 DEF Collected, WaitSound, CollectionTypeOK
<1>3. <<waiting[r], 1>> \in Departed /\ Departed' = Departed /\ First' = First
  BY <1>1, <1>2 DEF Departed, First
<1>4. Reported' = Reported \cup {<<waiting[r], 1>>}
  <2>1. <<r, waiting[r]>>[2] = waiting[r]
    OBVIOUS
  <2> QED BY <1>1, <2>1 DEF Reported
<1>5. Promise!Report(<<waiting[r], 1>>)
  BY <1>3, <1>4 DEF Promise!Report
<1> QED BY <1>3, <1>5 DEF Promise!Next

\* The replicas, with the requests that each leaves behind, keep the promise that
\* GCEvaluation keeps alone: every object goes once, and is reported only when it has gone,
\* whoever deleted it (deleteResource, performResourceDeletion, RunWithLeaderElection).
THEOREM ReplicasKeepPromise == FailoverSpec => Promise!Spec
<1>1. FailoverInit => Promise!Init
  BY DEF FailoverInit, Promise!Init, Departed, First, Reported
<1>2. Collected /\ [FailoverNext]_allVars => [Promise!Next]_(Promise!vars)
  <2> SUFFICES ASSUME Collected, [FailoverNext]_allVars PROVE [Promise!Next]_(Promise!vars)
    OBVIOUS
  <2>1. ASSUME UNCHANGED <<stored, reported>> PROVE UNCHANGED Promise!vars
    BY <2>1 DEF Promise!vars, Departed, First, Reported
  <2>2. CASE Lead \/ Elapse \/ UNCHANGED allVars
    BY <2>1, <2>2 DEF Lead, Elapse, allVars, collection
  <2>3. ASSUME NEW r \in Replicas, List(r) \/ SendAny(r) \/ FailDelete(r)
        PROVE  UNCHANGED Promise!vars
    BY <2>1, <2>3 DEF List, SendAny, Send, Request, FailDelete
  <2> QED BY <2>2, <2>3, LandRefines, ReportRefines DEF FailoverNext, Collect
<1> QED BY <1>1, <1>2, CollectionInvariant, PTL DEF FailoverSpec, Promise!Spec
===============================================================================
