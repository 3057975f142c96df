------------------------- MODULE LeaderElectionProofs -------------------------
(***************************************************************************)
(* Proofs about LeaderElection, for every set of replicas, all durations   *)
(* that the elector accepts, and any number of faults.                     *)
(***************************************************************************)
EXTENDS LeaderElection, TLAPS

-----------------------------------------------------------------------------
(* The inductive invariant.                                                *)

\* What a replica knows of the lease is not older than the lease.
SightSound == \A r \in Replicas : seen[r] => age[r] <= quiet

\* A replica that is about to take the lease from another has seen it run out, and nobody
\* has written it since: such a write makes the request stale.
TakeSound ==
    \A r \in Replicas : request[r] = "sent" /\ holder \notin {r, NoReplica} => quiet = LeaseDuration

\* A write whose answer is on its way was the last one, or a lease ago.
WriteFresh ==
    \A r \in Replicas : request[r] = "done" =>
        /\ holder # NoReplica
        /\ holder = r => quiet <= delay[r]
        /\ holder # r => delay[r] >= LeaseDuration + held

\* A leader counts from an answer that came at most Delay after its write.
LeaderFresh ==
    \A r \in Replicas : stage[r] = "leading" =>
        /\ holder # NoReplica
        /\ holder = r => idle[r] + Delay >= quiet
        /\ holder # r => idle[r] + Delay >= LeaseDuration + held

\* Only a process whose context is not canceled works, and under election it says so.
WorkSound ==
    \A r \in Replicas : running[r] = "running" =>
        /\ stage[r] \in {"leading", "alone"}
        /\ enabled => leading[r]

Parts == SightSound /\ TakeSound /\ WriteFresh /\ LeaderFresh /\ WorkSound

IInv == TypeOK /\ Parts
-----------------------------------------------------------------------------
(* Time.                                                                   *)

LEMMA Durations ==
    /\ LeaseDuration \in Nat \ {0} /\ RetryPeriod \in Nat \ {0} /\ Delay \in Nat
    /\ GiveUp \in Nat /\ RetryPeriod <= GiveUp
BY TimingAssumption DEF GiveUp

LEMMA OlderIsLater ==
    ASSUME NEW b \in Nat, NEW t \in 0 .. b
    PROVE  /\ Older(t, b) \in 0 .. b /\ Older(t, b) >= t /\ Older(t, b) <= t + 1
           /\ t < b => Older(t, b) = t + 1
           /\ t = b => Older(t, b) = b
BY DEF Older

-----------------------------------------------------------------------------
(* Types.                                                                  *)

LEMMA TypeStep == TypeOK /\ [Next]_vars => TypeOK'
<1> SUFFICES ASSUME TypeOK, [Next]_vars PROVE TypeOK'
  OBVIOUS
<1> USE ReplicaAssumption, BudgetAssumption, Durations
<1>1. CASE UNCHANGED vars
  BY <1>1 DEF TypeOK, vars, lease, elector, control, world
<1>2. CASE Tick
  <2>1. quiet' \in 0 .. LeaseDuration /\ held' \in 0 .. (GiveUp + Delay)
    BY <1>2, OlderIsLater DEF TypeOK, Tick
  <2>2. /\ age' \in [Replicas -> 0 .. LeaseDuration] /\ idle' \in [Replicas -> 0 .. GiveUp]
        /\ delay' \in [Replicas -> 0 .. Delay]
    <3>1. ASSUME NEW r \in Replicas
          PROVE  /\ Older(age[r], LeaseDuration) \in 0 .. LeaseDuration
                 /\ Older(idle[r], GiveUp) \in 0 .. GiveUp
                 /\ Older(delay[r], Delay) \in 0 .. Delay
      BY OlderIsLater DEF TypeOK
    <3> QED BY <1>2, <3>1 DEF Tick
  <2> QED BY <1>2, <2>1, <2>2 DEF TypeOK, Tick, control, world
<1>3. ASSUME NEW r \in Replicas,
             Elect(r) \/ Process(r) \/ ManagerFails(r) \/ Signal(r) \/ Crash(r) \/ Lose(r)
             \/ Disconnect(r) \/ Reconnect(r)
      PROVE  TypeOK'
  <2>2. CASE Try(r)
    BY <2>2 DEF TypeOK, Stages, Try, lease, elector, control, world
  <2>3. CASE Execute(r)
    <3>1. /\ quiet' \in 0 .. LeaseDuration /\ held' \in 0 .. (GiveUp + Delay)
          /\ age' \in [Replicas -> 0 .. LeaseDuration] /\ delay' \in [Replicas -> 0 .. Delay]
          /\ seen' \in [Replicas -> BOOLEAN] /\ holder' \in Replicas \cup {NoReplica}
      BY <2>3 DEF TypeOK, Execute
    <3>2. /\ request' \in [Replicas -> {"none", "sent", "stale", "done"}]
          /\ \A s \in Replicas : request[s] = "none" /\ s # r => request'[s] = "none"
      BY <2>3 DEF TypeOK, Execute
    <3>3. UNCHANGED <<enabled, connected, faults, errors, stage, running, leading, idle>>
      BY <2>3 DEF Execute, control, world
    <3>4. \A s \in Replicas : stage[s] \in {"standby", "leading"} \/ (request[s] = "none" /\ s # r)
      BY <2>3 DEF Execute, TypeOK
    <3>5. enabled
      BY <2>3 DEF Execute, TypeOK
    <3> QED BY <3>1, <3>2, <3>3, <3>4, <3>5 DEF TypeOK
  <2>4. CASE Refuse(r)
    BY <2>4 DEF TypeOK, Stages, Refuse, lease, elector, control, world
  <2>5. CASE Receive(r)
    <3>1. /\ idle' \in [Replicas -> 0 .. GiveUp] /\ age' \in [Replicas -> 0 .. LeaseDuration]
          /\ stage' \in [Replicas -> Stages]
          /\ running' \in [Replicas -> {"none", "due", "running", "failed", "over"}]
          /\ request' \in [Replicas -> {"none", "sent", "stale", "done"}]
      BY <2>5 DEF TypeOK, Stages, Receive
    <3>2. UNCHANGED <<enabled, connected, faults, errors, holder, quiet, held, seen, delay, leading>>
      BY <2>5 DEF Receive, lease, world
    <3>3. stage'[r] = "leading" /\ request'[r] = "none"
      BY <2>5 DEF TypeOK, Receive
    <3>4. \A s \in Replicas \ {r} : UNCHANGED <<stage[s], running[s], request[s]>>
      BY <2>5 DEF TypeOK, Receive
    <3> QED BY <3>1, <3>2, <3>3, <3>4 DEF TypeOK
  <2>6. CASE RunDirectly(r)
    BY <2>6 DEF TypeOK, Stages, RunDirectly, lease, elector, control, world
  <2>7. CASE OnStartedLeading(r)
    BY <2>7 DEF TypeOK, Stages, OnStartedLeading, lease, elector, control, world
  <2>8. CASE StopRenewing(r)
    BY <2>8 DEF TypeOK, Stages, StopRenewing, Stop, lease, elector, control, world
  <2>9. CASE OnStoppedLeading(r)
    BY <2>9 DEF TypeOK, Stages, OnStoppedLeading, lease, elector, control, world
  <2>10. CASE Exit(r)
    BY <2>10 DEF TypeOK, Stages, Exit, End, lease, elector, control, world
  <2>11. CASE Restart(r)
    BY <2>11 DEF TypeOK, Stages, Restart, lease, elector, control, world
  <2>12. CASE ManagerFails(r)
    BY <2>12 DEF TypeOK, Stages, ManagerFails, lease, elector, control, world
  <2>13. CASE Signal(r)
    BY <2>13 DEF TypeOK, Stages, Signal, Fault, Stop, lease, elector, control, world
  <2>14. CASE Crash(r)
    BY <2>14 DEF TypeOK, Stages, Crash, Fault, End, lease, elector, control, world
  <2>15. CASE Lose(r)
    BY <2>15 DEF TypeOK, Stages, Lose, Fault, lease, elector, control, world
  <2>16. CASE Disconnect(r)
    BY <2>16 DEF TypeOK, Stages, Disconnect, Fault, lease, elector, control, world
  <2>17. CASE Reconnect(r)
    BY <2>17 DEF TypeOK, Stages, Reconnect, lease, elector, control, world
  <2> QED BY <1>3, <2>2, <2>3, <2>4, <2>5, <2>6, <2>7, <2>8, <2>9, <2>10, <2>11, <2>12, <2>13, <2>14, <2>15, <2>16, <2>17 DEF Elect, Process
<1> QED BY <1>1, <1>2, <1>3 DEF Next, Act

\* Every variable of the replicas and of the lease has its type, and a process that waits or is
\* down has nothing left of its last term (runController, RunWithLeaderElection).
THEOREM LeadersTyped == Spec => []TypeOK
<1>1. Init => TypeOK
  BY BudgetAssumption, Durations DEF Init, TypeOK, Stages
<1> QED BY <1>1, TypeStep, PTL DEF Spec

-----------------------------------------------------------------------------
(* The invariant.                                                          *)

LEMMA PartsSame == Parts /\ UNCHANGED vars => Parts'
BY DEF Parts, SightSound, TakeSound, WriteFresh, LeaderFresh, WorkSound, vars, lease, elector,
       control, world

LEMMA TryStep == ASSUME TypeOK, Parts, NEW r \in Replicas, Try(r) PROVE Parts'
<1> USE ReplicaAssumption, Durations
<1>1. SightSound'
  BY DEF TypeOK, Parts, SightSound, Try, lease, elector, control, world
<1>2. TakeSound'
  BY DEF TypeOK, Parts, SightSound, TakeSound, MayTake, Try, lease, elector, control, world
<1>3. WriteFresh'
  BY DEF TypeOK, Parts, TakeSound, WriteFresh, Try, lease, elector, control, world
<1>4. LeaderFresh'
  BY DEF TypeOK, Parts, TakeSound, WriteFresh, LeaderFresh, Try, lease, elector, control, world
<1>5. WorkSound'
  BY DEF TypeOK, Parts, WorkSound, Try, lease, elector, control, world
<1> QED BY <1>1, <1>2, <1>3, <1>4, <1>5 DEF Parts

LEMMA ExecuteStep == ASSUME TypeOK, Parts, NEW r \in Replicas, Execute(r) PROVE Parts'
<1> USE ReplicaAssumption, Durations
<1>1. SightSound'
  <2>1. \A s \in Replicas : seen'[s] => s = r
    BY DEF Execute
  <2>2. quiet' = 0 /\ age'[r] = 0
    BY DEF TypeOK, Execute
  <2> QED BY <2>1, <2>2 DEF SightSound
<1>2. TakeSound'
  BY DEF TypeOK, Parts, SightSound, TakeSound, MayTake, Execute, lease, elector, control, world
<1>3. WriteFresh'
  BY DEF TypeOK, Parts, TakeSound, WriteFresh, Execute, lease, elector, control, world
<1>4. LeaderFresh'
  BY DEF TypeOK, Parts, TakeSound, WriteFresh, LeaderFresh, Execute, lease, elector, control, world
<1>5. WorkSound'
  BY DEF TypeOK, Parts, WorkSound, Execute, lease, elector, control, world
<1> QED BY <1>1, <1>2, <1>3, <1>4, <1>5 DEF Parts

LEMMA RefuseStep == ASSUME TypeOK, Parts, NEW r \in Replicas, Refuse(r) PROVE Parts'
<1> USE ReplicaAssumption, Durations
<1>1. SightSound'
  BY DEF TypeOK, Parts, SightSound, Refuse, lease, elector, control, world
<1>2. TakeSound'
  BY DEF TypeOK, Parts, SightSound, TakeSound, MayTake, Refuse, lease, elector, control, world
<1>3. WriteFresh'
  BY DEF TypeOK, Parts, TakeSound, WriteFresh, Refuse, lease, elector, control, world
<1>4. LeaderFresh'
  BY DEF TypeOK, Parts, TakeSound, WriteFresh, LeaderFresh, Refuse, lease, elector, control, world
<1>5. WorkSound'
  BY DEF TypeOK, Parts, WorkSound, Refuse, lease, elector, control, world
<1> QED BY <1>1, <1>2, <1>3, <1>4, <1>5 DEF Parts

LEMMA ReceiveStep == ASSUME TypeOK, Parts, NEW r \in Replicas, Receive(r) PROVE Parts'
<1> USE ReplicaAssumption, Durations
<1>1. SightSound'
  BY DEF TypeOK, Parts, SightSound, Receive, lease, elector, control, world
<1>2. TakeSound'
  BY DEF TypeOK, Parts, SightSound, TakeSound, MayTake, Receive, lease, elector, control, world
<1>3. WriteFresh'
  BY DEF TypeOK, Parts, TakeSound, WriteFresh, Receive, lease, elector, control, world
<1>4. LeaderFresh'
  BY DEF TypeOK, Parts, TakeSound, WriteFresh, LeaderFresh, Receive, lease, elector, control, world
<1>5. WorkSound'
  BY DEF TypeOK, Parts, WorkSound, Receive, lease, elector, control, world
<1> QED BY <1>1, <1>2, <1>3, <1>4, <1>5 DEF Parts

LEMMA RunDirectlyStep == ASSUME TypeOK, Parts, NEW r \in Replicas, RunDirectly(r) PROVE Parts'
<1> USE ReplicaAssumption, Durations
<1>1. SightSound'
  BY DEF TypeOK, Parts, SightSound, RunDirectly, lease, elector, control, world
<1>2. TakeSound'
  BY DEF TypeOK, Parts, SightSound, TakeSound, MayTake, RunDirectly, lease, elector, control, world
<1>3. WriteFresh'
  BY DEF TypeOK, Parts, TakeSound, WriteFresh, RunDirectly, lease, elector, control, world
<1>4. LeaderFresh'
  BY DEF TypeOK, Parts, TakeSound, WriteFresh, LeaderFresh, RunDirectly, lease, elector, control, world
<1>5. WorkSound'
  BY DEF TypeOK, Parts, WorkSound, RunDirectly, lease, elector, control, world
<1> QED BY <1>1, <1>2, <1>3, <1>4, <1>5 DEF Parts

LEMMA OnStartedLeadingStep == ASSUME TypeOK, Parts, NEW r \in Replicas, OnStartedLeading(r) PROVE Parts'
<1> USE ReplicaAssumption, Durations
<1>1. SightSound'
  BY DEF TypeOK, Parts, SightSound, OnStartedLeading, lease, elector, control, world
<1>2. TakeSound'
  BY DEF TypeOK, Parts, SightSound, TakeSound, MayTake, OnStartedLeading, lease, elector, control, world
<1>3. WriteFresh'
  BY DEF TypeOK, Parts, TakeSound, WriteFresh, OnStartedLeading, lease, elector, control, world
<1>4. LeaderFresh'
  BY DEF TypeOK, Parts, TakeSound, WriteFresh, LeaderFresh, OnStartedLeading, lease, elector, control, world
<1>5. WorkSound'
  BY DEF TypeOK, Parts, WorkSound, OnStartedLeading, lease, elector, control, world
<1> QED BY <1>1, <1>2, <1>3, <1>4, <1>5 DEF Parts

LEMMA StopRenewingStep == ASSUME TypeOK, Parts, NEW r \in Replicas, StopRenewing(r) PROVE Parts'
<1> USE ReplicaAssumption, Durations
<1>1. SightSound'
  BY DEF TypeOK, Parts, SightSound, StopRenewing, Stop, lease, elector, control, world
<1>2. TakeSound'
  BY DEF TypeOK, Parts, SightSound, TakeSound, MayTake, StopRenewing, Stop, lease, elector, control, world
<1>3. WriteFresh'
  BY DEF TypeOK, Parts, TakeSound, WriteFresh, StopRenewing, Stop, lease, elector, control, world
<1>4. LeaderFresh'
  BY DEF TypeOK, Parts, TakeSound, WriteFresh, LeaderFresh, StopRenewing, Stop, lease, elector, control, world
<1>5. WorkSound'
  BY DEF TypeOK, Parts, WorkSound, StopRenewing, Stop, lease, elector, control, world
<1> QED BY <1>1, <1>2, <1>3, <1>4, <1>5 DEF Parts

LEMMA OnStoppedLeadingStep == ASSUME TypeOK, Parts, NEW r \in Replicas, OnStoppedLeading(r) PROVE Parts'
<1> USE ReplicaAssumption, Durations
<1>1. SightSound'
  BY DEF TypeOK, Parts, SightSound, OnStoppedLeading, lease, elector, control, world
<1>2. TakeSound'
  BY DEF TypeOK, Parts, SightSound, TakeSound, MayTake, OnStoppedLeading, lease, elector, control, world
<1>3. WriteFresh'
  BY DEF TypeOK, Parts, TakeSound, WriteFresh, OnStoppedLeading, lease, elector, control, world
<1>4. LeaderFresh'
  BY DEF TypeOK, Parts, TakeSound, WriteFresh, LeaderFresh, OnStoppedLeading, lease, elector, control, world
<1>5. WorkSound'
  BY DEF TypeOK, Parts, WorkSound, OnStoppedLeading, lease, elector, control, world
<1> QED BY <1>1, <1>2, <1>3, <1>4, <1>5 DEF Parts

LEMMA ExitStep == ASSUME TypeOK, Parts, NEW r \in Replicas, Exit(r) PROVE Parts'
<1> USE ReplicaAssumption, Durations
<1>1. SightSound'
  BY DEF TypeOK, Parts, SightSound, Exit, End, lease, elector, control, world
<1>2. TakeSound'
  BY DEF TypeOK, Parts, SightSound, TakeSound, MayTake, Exit, End, lease, elector, control, world
<1>3. WriteFresh'
  BY DEF TypeOK, Parts, TakeSound, WriteFresh, Exit, End, lease, elector, control, world
<1>4. LeaderFresh'
  BY DEF TypeOK, Parts, TakeSound, WriteFresh, LeaderFresh, Exit, End, lease, elector, control, world
<1>5. WorkSound'
  BY DEF TypeOK, Parts, WorkSound, Exit, End, lease, elector, control, world
<1> QED BY <1>1, <1>2, <1>3, <1>4, <1>5 DEF Parts

LEMMA RestartStep == ASSUME TypeOK, Parts, NEW r \in Replicas, Restart(r) PROVE Parts'
<1> USE ReplicaAssumption, Durations
<1>1. SightSound'
  BY DEF TypeOK, Parts, SightSound, Restart, lease, elector, control, world
<1>2. TakeSound'
  BY DEF TypeOK, Parts, SightSound, TakeSound, MayTake, Restart, lease, elector, control, world
<1>3. WriteFresh'
  BY DEF TypeOK, Parts, TakeSound, WriteFresh, Restart, lease, elector, control, world
<1>4. LeaderFresh'
  BY DEF TypeOK, Parts, TakeSound, WriteFresh, LeaderFresh, Restart, lease, elector, control, world
<1>5. WorkSound'
  BY DEF TypeOK, Parts, WorkSound, Restart, lease, elector, control, world
<1> QED BY <1>1, <1>2, <1>3, <1>4, <1>5 DEF Parts

LEMMA ManagerFailsStep == ASSUME TypeOK, Parts, NEW r \in Replicas, ManagerFails(r) PROVE Parts'
<1> USE ReplicaAssumption, Durations
<1>1. SightSound'
  BY DEF TypeOK, Parts, SightSound, ManagerFails, lease, elector, control, world
<1>2. TakeSound'
  BY DEF TypeOK, Parts, SightSound, TakeSound, MayTake, ManagerFails, lease, elector, control, world
<1>3. WriteFresh'
  BY DEF TypeOK, Parts, TakeSound, WriteFresh, ManagerFails, lease, elector, control, world
<1>4. LeaderFresh'
  BY DEF TypeOK, Parts, TakeSound, WriteFresh, LeaderFresh, ManagerFails, lease, elector, control, world
<1>5. WorkSound'
  BY DEF TypeOK, Parts, WorkSound, ManagerFails, lease, elector, control, world
<1> QED BY <1>1, <1>2, <1>3, <1>4, <1>5 DEF Parts

LEMMA SignalStep == ASSUME TypeOK, Parts, NEW r \in Replicas, Signal(r) PROVE Parts'
<1> USE ReplicaAssumption, Durations
<1>1. SightSound'
  BY DEF TypeOK, Parts, SightSound, Signal, Fault, Stop, lease, elector, control, world
<1>2. TakeSound'
  BY DEF TypeOK, Parts, SightSound, TakeSound, MayTake, Signal, Fault, Stop, lease, elector, control, world
<1>3. WriteFresh'
  BY DEF TypeOK, Parts, TakeSound, WriteFresh, Signal, Fault, Stop, lease, elector, control, world
<1>4. LeaderFresh'
  BY DEF TypeOK, Parts, TakeSound, WriteFresh, LeaderFresh, Signal, Fault, Stop, lease, elector, control, world
<1>5. WorkSound'
  BY DEF TypeOK, Parts, WorkSound, Signal, Fault, Stop, lease, elector, control, world
<1> QED BY <1>1, <1>2, <1>3, <1>4, <1>5 DEF Parts

LEMMA CrashStep == ASSUME TypeOK, Parts, NEW r \in Replicas, Crash(r) PROVE Parts'
<1> USE ReplicaAssumption, Durations
<1>1. SightSound'
  BY DEF TypeOK, Parts, SightSound, Crash, Fault, End, lease, elector, control, world
<1>2. TakeSound'
  BY DEF TypeOK, Parts, SightSound, TakeSound, MayTake, Crash, Fault, End, lease, elector, control, world
<1>3. WriteFresh'
  BY DEF TypeOK, Parts, TakeSound, WriteFresh, Crash, Fault, End, lease, elector, control, world
<1>4. LeaderFresh'
  BY DEF TypeOK, Parts, TakeSound, WriteFresh, LeaderFresh, Crash, Fault, End, lease, elector, control, world
<1>5. WorkSound'
  BY DEF TypeOK, Parts, WorkSound, Crash, Fault, End, lease, elector, control, world
<1> QED BY <1>1, <1>2, <1>3, <1>4, <1>5 DEF Parts

LEMMA LoseStep == ASSUME TypeOK, Parts, NEW r \in Replicas, Lose(r) PROVE Parts'
<1> USE ReplicaAssumption, Durations
<1>1. SightSound'
  BY DEF TypeOK, Parts, SightSound, Lose, Fault, lease, elector, control, world
<1>2. TakeSound'
  BY DEF TypeOK, Parts, SightSound, TakeSound, MayTake, Lose, Fault, lease, elector, control, world
<1>3. WriteFresh'
  BY DEF TypeOK, Parts, TakeSound, WriteFresh, Lose, Fault, lease, elector, control, world
<1>4. LeaderFresh'
  BY DEF TypeOK, Parts, TakeSound, WriteFresh, LeaderFresh, Lose, Fault, lease, elector, control, world
<1>5. WorkSound'
  BY DEF TypeOK, Parts, WorkSound, Lose, Fault, lease, elector, control, world
<1> QED BY <1>1, <1>2, <1>3, <1>4, <1>5 DEF Parts

LEMMA DisconnectStep == ASSUME TypeOK, Parts, NEW r \in Replicas, Disconnect(r) PROVE Parts'
<1> USE ReplicaAssumption, Durations
<1>1. SightSound'
  BY DEF TypeOK, Parts, SightSound, Disconnect, Fault, lease, elector, control, world
<1>2. TakeSound'
  BY DEF TypeOK, Parts, SightSound, TakeSound, MayTake, Disconnect, Fault, lease, elector, control, world
<1>3. WriteFresh'
  BY DEF TypeOK, Parts, TakeSound, WriteFresh, Disconnect, Fault, lease, elector, control, world
<1>4. LeaderFresh'
  BY DEF TypeOK, Parts, TakeSound, WriteFresh, LeaderFresh, Disconnect, Fault, lease, elector, control, world
<1>5. WorkSound'
  BY DEF TypeOK, Parts, WorkSound, Disconnect, Fault, lease, elector, control, world
<1> QED BY <1>1, <1>2, <1>3, <1>4, <1>5 DEF Parts

LEMMA ReconnectStep == ASSUME TypeOK, Parts, NEW r \in Replicas, Reconnect(r) PROVE Parts'
<1> USE ReplicaAssumption, Durations
<1>1. SightSound'
  BY DEF TypeOK, Parts, SightSound, Reconnect, lease, elector, control, world
<1>2. TakeSound'
  BY DEF TypeOK, Parts, SightSound, TakeSound, MayTake, Reconnect, lease, elector, control, world
<1>3. WriteFresh'
  BY DEF TypeOK, Parts, TakeSound, WriteFresh, Reconnect, lease, elector, control, world
<1>4. LeaderFresh'
  BY DEF TypeOK, Parts, TakeSound, WriteFresh, LeaderFresh, Reconnect, lease, elector, control, world
<1>5. WorkSound'
  BY DEF TypeOK, Parts, WorkSound, Reconnect, lease, elector, control, world
<1> QED BY <1>1, <1>2, <1>3, <1>4, <1>5 DEF Parts

LEMMA TickStep == ASSUME TypeOK, Parts, Tick PROVE Parts'
<1> USE ReplicaAssumption, Durations
<1>1. /\ UNCHANGED <<holder, seen, request, stage, running, leading, enabled>>
      /\ quiet' = Older(quiet, LeaseDuration) /\ held' = Older(held, GiveUp + Delay)
  BY DEF Tick, control, world
<1>2. /\ quiet \in 0 .. LeaseDuration /\ quiet' \in 0 .. LeaseDuration
      /\ quiet' <= quiet + 1
      /\ quiet < LeaseDuration => quiet' = quiet + 1
      /\ quiet = LeaseDuration => quiet' = LeaseDuration
  BY <1>1, OlderIsLater DEF TypeOK
<1>3. held \in 0 .. (GiveUp + Delay) /\ held' \in 0 .. (GiveUp + Delay) /\ held' <= held + 1
  BY <1>1, OlderIsLater DEF TypeOK
<1>4. ASSUME NEW r \in Replicas
      PROVE  /\ age[r] \in 0 .. LeaseDuration /\ age'[r] \in 0 .. LeaseDuration
             /\ age'[r] <= age[r] + 1
             /\ stage[r] = "leading" => idle[r] \in Nat /\ idle'[r] = idle[r] + 1
             /\ request[r] = "done" => delay[r] \in Nat /\ delay'[r] = delay[r] + 1
  <2>1. /\ age'[r] = Older(age[r], LeaseDuration) /\ idle'[r] = Older(idle[r], GiveUp)
        /\ delay'[r] = Older(delay[r], Delay)
    BY DEF Tick
  <2>2. stage[r] = "leading" => idle[r] < GiveUp
    BY DEF Tick
  <2>3. request[r] = "done" => delay[r] < Delay
    BY DEF Tick
  <2>4. age[r] \in 0 .. LeaseDuration /\ idle[r] \in 0 .. GiveUp /\ delay[r] \in 0 .. Delay
    BY DEF TypeOK
  <2>5. age'[r] \in 0 .. LeaseDuration /\ age'[r] <= age[r] + 1
    BY <2>1, <2>4, OlderIsLater
  <2>6. stage[r] = "leading" => idle'[r] = idle[r] + 1
    BY <2>1, <2>2, <2>4, OlderIsLater
  <2>7. request[r] = "done" => delay'[r] = delay[r] + 1
    BY <2>1, <2>3, <2>4, OlderIsLater
  <2> QED BY <2>4, <2>5, <2>6, <2>7
<1>5. SightSound'
  <2> SUFFICES ASSUME NEW r \in Replicas, seen[r] PROVE age'[r] <= quiet'
    BY <1>1 DEF SightSound
  <2>1. age[r] <= quiet
    BY DEF Parts, SightSound
  <2>2. /\ age[r] \in 0 .. LeaseDuration /\ age'[r] \in 0 .. LeaseDuration
        /\ age'[r] <= age[r] + 1
    BY <1>4
  <2> QED BY <1>2, <2>1, <2>2
<1>6. TakeSound'
  BY <1>1, <1>2 DEF Parts, TakeSound
<1>7. WriteFresh'
  <2> SUFFICES ASSUME NEW r \in Replicas, request[r] = "done"
               PROVE  /\ holder # NoReplica
                      /\ holder = r => quiet' <= delay'[r]
                      /\ holder # r => delay'[r] >= LeaseDuration + held'
    BY <1>1 DEF WriteFresh
  <2>1. /\ holder # NoReplica
        /\ holder = r => quiet <= delay[r]
        /\ holder # r => delay[r] >= LeaseDuration + held
    BY DEF Parts, WriteFresh
  <2>2. delay[r] \in Nat /\ delay'[r] = delay[r] + 1
    BY <1>4
  <2> QED BY <1>2, <1>3, <2>1, <2>2
<1>8. LeaderFresh'
  <2> SUFFICES ASSUME NEW r \in Replicas, stage[r] = "leading"
               PROVE  /\ holder # NoReplica
                      /\ holder = r => idle'[r] + Delay >= quiet'
                      /\ holder # r => idle'[r] + Delay >= LeaseDuration + held'
    BY <1>1 DEF LeaderFresh
  <2>1. /\ holder # NoReplica
        /\ holder = r => idle[r] + Delay >= quiet
        /\ holder # r => idle[r] + Delay >= LeaseDuration + held
    BY DEF Parts, LeaderFresh
  <2>2. idle[r] \in Nat /\ idle'[r] = idle[r] + 1
    BY <1>4
  <2> QED BY <1>2, <1>3, <2>1, <2>2
<1>9. WorkSound'
  BY <1>1 DEF Parts, WorkSound
<1> QED BY <1>5, <1>6, <1>7, <1>8, <1>9 DEF Parts

LEMMA IInvStep == IInv /\ [Next]_vars => IInv'
<1> SUFFICES ASSUME TypeOK, Parts, [Next]_vars PROVE Parts'
  BY TypeStep DEF IInv
<1>1. CASE UNCHANGED vars
  BY <1>1, PartsSame
<1>2. CASE Tick
  BY <1>2, TickStep
<1>3. ASSUME NEW r \in Replicas, Elect(r) PROVE Parts'
  BY <1>3, TryStep, ExecuteStep, RefuseStep, ReceiveStep DEF Elect
<1>4. ASSUME NEW r \in Replicas, Process(r) PROVE Parts'
  BY <1>4, RunDirectlyStep, OnStartedLeadingStep, StopRenewingStep, OnStoppedLeadingStep,
     ExitStep, RestartStep DEF Process
<1>5. ASSUME NEW r \in Replicas,
             ManagerFails(r) \/ Signal(r) \/ Crash(r) \/ Lose(r) \/ Disconnect(r) \/ Reconnect(r)
      PROVE  Parts'
  BY <1>5, ManagerFailsStep, SignalStep, CrashStep, LoseStep, DisconnectStep, ReconnectStep
<1> QED BY <1>1, <1>2, <1>3, <1>4, <1>5 DEF Next, Act

LEMMA Invariant == Spec => []IInv
<1>1. Init => IInv
  BY BudgetAssumption, Durations DEF Init, IInv, Parts, TypeOK, Stages, SightSound, TakeSound,
     WriteFresh, LeaderFresh, WorkSound
<1> QED BY <1>1, IInvStep, PTL DEF Spec

-----------------------------------------------------------------------------
(* The theorems.                                                           *)

\* Whatever the durations, the delay, the faults and the number of replicas: who reconciles
\* without the lease lost it at most GiveUp + Delay - LeaseDuration ago (ApplyDefaults,
\* RunWithLeaderElection).
THEOREM OverlapIsBounded == Spec => []OverlapBounded
<1>1. IInv => OverlapBounded
  <2> SUFFICES ASSUME IInv, enabled, NEW r \in Replicas, Works(r), holder # r
               PROVE  held <= GiveUp + Delay - LeaseDuration
    BY DEF OverlapBounded
  <2>1. stage[r] = "leading"
    BY DEF IInv, Parts, WorkSound, TypeOK, Works
  <2>2. idle[r] + Delay >= LeaseDuration + held
    BY <2>1 DEF IInv, Parts, LeaderFresh
  <2>3. idle[r] \in 0 .. GiveUp /\ held \in Nat
    BY Durations DEF IInv, TypeOK
  <2> QED BY <2>2, <2>3, Durations
<1> QED BY <1>1, Invariant, PTL

\* With durations that leave slack there is one active leader at a time, as the documents say
\* (docs/validation/leader-election-safety.md).  The defaults of ApplyDefaults leave none.
THEOREM SlackGivesExactlyOne ==
    ASSUME GiveUp + Delay < LeaseDuration
    PROVE  Spec => []ExactlyOne
<1>1. IInv /\ OverlapBounded => ExactlyOne
  <2> SUFFICES ASSUME IInv, OverlapBounded, enabled, NEW r \in Replicas, Works(r)
               PROVE  holder = r
    BY DEF ExactlyOne
  <2>1. held \in Nat
    BY Durations DEF IInv, TypeOK
  <2> QED BY <2>1, Durations DEF OverlapBounded
<1> QED BY <1>1, Invariant, OverlapIsBounded, PTL

\* A lease that changes hands was silent for LeaseDuration, also when its requests and
\* answers get lost and processes are restarted under their old identity
\* (RunWithLeaderElection).
THEOREM OnlyTakenWhenSilent == Spec => TakenWhenSilent
<1>1. IInv /\ [Next]_vars => [holder' # holder /\ holder # NoReplica => quiet = LeaseDuration]_vars
  <2> SUFFICES ASSUME IInv, Next, holder' # holder, holder # NoReplica
               PROVE  quiet = LeaseDuration
    OBVIOUS
  <2>1. \E r \in Replicas : Execute(r)
    BY DEF Next, Act, Elect, Process, Tick, Try, Refuse, Receive, RunDirectly, OnStartedLeading,
       StopRenewing, OnStoppedLeading, Exit, Restart, ManagerFails, Signal, Crash, Lose,
       Disconnect, Reconnect, Stop, lease
  <2>2. PICK r \in Replicas : Execute(r)
    BY <2>1
  <2>3. request[r] = "sent" /\ holder' = r
    BY <2>2 DEF Execute
  <2> QED BY <2>3 DEF IInv, Parts, TakeSound
<1> QED BY <1>1, Invariant, PTL DEF Spec, TakenWhenSilent

\* Under election a replica that answers "standby" does not reconcile (LeaderzCheck).
THEOREM StandbysIdle == Spec => []StandbyIdle
<1>1. IInv => StandbyIdle
  BY DEF IInv, Parts, WorkSound, StandbyIdle, Leaderz, Works
<1> QED BY <1>1, Invariant, PTL
===============================================================================
