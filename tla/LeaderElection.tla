---------------------------- MODULE LeaderElection ----------------------------
(***************************************************************************)
(* The replicas of the controller and the lease that decides which of them *)
(* reconciles.                                                             *)
(*                                                                         *)
(* Source: internal/election/election.go, pkg/controller/leadership.go,    *)
(* cmd/gc-controller/main.go.  The elector itself is client-go, modelled   *)
(* from how election.go configures and calls it.  Time passes in ticks;    *)
(* timers are ages that stop where nothing depends on them any more.  What *)
(* the leader does is GCEvaluation and PolicyReconcile.                    *)
(***************************************************************************)
EXTENDS Integers

CONSTANTS
    Replicas,
    NoReplica,
    Config,         \* durations of election.Config in seconds, 0 if not given
    SecondsPerTick,
    Delay,          \* the longest an answer of the API server is on its way, in ticks
    MaxFaults,      \* crashes, signals, lost messages and lost connections
    MaxErrors       \* managers that fail after they were started

-----------------------------------------------------------------------------
(* The timing.                                                             *)

Defaults == [LeaseDuration |-> 15, RenewDeadline |-> 10, RetryPeriod |-> 5]

ApplyDefaults(cfg) == [k \in DOMAIN Defaults |-> IF cfg[k] = 0 THEN Defaults[k] ELSE cfg[k]]

Ticks(k) == ApplyDefaults(Config)[k] \div SecondsPerTick

LeaseDuration == Ticks("LeaseDuration")
RenewDeadline == Ticks("RenewDeadline")
RetryPeriod   == Ticks("RetryPeriod")

\* A leader that cannot renew gives up: the next loop starts RetryPeriod after the last
\* success and tries for RenewDeadline.
GiveUp == RetryPeriod + RenewDeadline

ASSUME ReplicaAssumption == NoReplica \notin Replicas
\* leaderelection.NewLeaderElector refuses other durations.
ASSUME TimingAssumption ==
    /\ {LeaseDuration, RenewDeadline, RetryPeriod} \subseteq Nat \ {0}
    /\ LeaseDuration > RenewDeadline /\ RenewDeadline > RetryPeriod
    /\ Delay \in Nat
ASSUME BudgetAssumption == MaxFaults \in Nat /\ MaxErrors \in Nat

\* A timer that stops at bound.
Older(t, bound) == IF t < bound THEN t + 1 ELSE bound

-----------------------------------------------------------------------------
VARIABLES
    enabled,    \* --leader-election
    holder,     \* of the lease
    quiet,      \* time since the lease was written
    held,       \* time since it changed hands
    stage,      \* of the process: standby, leading, alone, stopped, ending or down
    seen,       \* it has observed the lease as it is now
    age,        \* time since it observed the lease change
    idle,       \* time since its last renewal was answered
    request,    \* its write of the lease: none, sent, stale, done
    delay,      \* time since that write was done
    running,    \* runController: none, due, running, failed or over
    leading,    \* LeaderState.leading
    connected,
    faults, errors

lease   == <<holder, quiet, held>>
elector == <<seen, age, idle, request, delay>>
control == <<stage, running, leading>>
world   == <<enabled, connected, faults, errors>>
vars    == <<lease, elector, control, world>>

Stages == {"standby", "leading", "alone", "stopped", "ending", "down"}

TypeOK ==
    /\ enabled \in BOOLEAN /\ connected \in [Replicas -> BOOLEAN]
    /\ faults \in 0 .. MaxFaults /\ errors \in 0 .. MaxErrors
    /\ holder \in Replicas \cup {NoReplica}
    /\ quiet \in 0 .. LeaseDuration /\ held \in 0 .. (GiveUp + Delay)
    /\ seen \in [Replicas -> BOOLEAN]
    /\ age \in [Replicas -> 0 .. LeaseDuration] /\ idle \in [Replicas -> 0 .. GiveUp]
    /\ request \in [Replicas -> {"none", "sent", "stale", "done"}]
    /\ delay \in [Replicas -> 0 .. Delay]
    /\ stage \in [Replicas -> Stages]
    /\ running \in [Replicas -> {"none", "due", "running", "failed", "over"}]
    /\ leading \in [Replicas -> BOOLEAN]
    /\ \A r \in Replicas :
          /\ stage[r] \in {"standby", "down"} => running[r] = "none" /\ ~leading[r]
          /\ stage[r] \notin {"standby", "leading"} => request[r] = "none"
          /\ stage[r] = "alone" => ~enabled
          /\ ~enabled => request[r] = "none"

Init ==
    /\ enabled \in BOOLEAN /\ connected = [r \in Replicas |-> TRUE]
    /\ faults = 0 /\ errors = 0
    /\ holder = NoReplica /\ quiet = 0 /\ held = 0
    /\ seen = [r \in Replicas |-> FALSE]
    /\ age = [r \in Replicas |-> 0] /\ idle = [r \in Replicas |-> 0]
    /\ request = [r \in Replicas |-> "none"] /\ delay = [r \in Replicas |-> 0]
    /\ stage = [r \in Replicas |-> "standby"] /\ running = [r \in Replicas |-> "none"]
    /\ leading = [r \in Replicas |-> FALSE]

-----------------------------------------------------------------------------
(* The elector: tryAcquireOrRenew of client-go.                            *)

\* A slip: every replica runs under the same identity (getPodName).
MayTakeAlways(r) == TRUE

\* Takes a lease that nobody or it itself holds, or that it has seen unchanged for
\* LeaseDuration.
MayTake(r) == holder \in {NoReplica, r} \/ (seen[r] /\ age[r] = LeaseDuration)

\* The lease is read; the first sight of a new record starts its time anew.  A leader that
\* finds another holder tries again until it gives up.
Try(r) ==
    /\ enabled /\ connected[r] /\ request[r] = "none"
    /\ stage[r] = "standby" \/ (stage[r] = "leading" /\ idle[r] >= RetryPeriod)
    /\ seen' = [seen EXCEPT ![r] = TRUE]
    /\ age' = [age EXCEPT ![r] = IF seen[r] THEN age[r] ELSE 0]
    /\ request' = [request EXCEPT ![r] = IF MayTake(r) THEN "sent" ELSE "none"]
    /\ UNCHANGED <<idle, delay, lease, control, world>>

\* A write under optimistic concurrency: every other one on its way is refused.
Execute(r) ==
    /\ request[r] = "sent"
    /\ holder' = r /\ quiet' = 0 /\ held' = IF holder = r THEN held ELSE 0
    /\ request' = [s \in Replicas |-> IF s = r THEN "done"
                                      ELSE IF request[s] = "sent" THEN "stale" ELSE request[s]]
    /\ delay' = [delay EXCEPT ![r] = 0]
    /\ seen' = [s \in Replicas |-> s = r] /\ age' = [age EXCEPT ![r] = 0]
    /\ UNCHANGED <<idle, control, world>>

Refuse(r) ==
    /\ request[r] = "stale" /\ request' = [request EXCEPT ![r] = "none"]
    /\ UNCHANGED <<seen, age, idle, delay, lease, control, world>>

\* A renewal counts from its answer.  A new leader starts to renew at once, and runs
\* OnStartedLeading in a goroutine.
Receive(r) ==
    /\ request[r] = "done" /\ request' = [request EXCEPT ![r] = "none"]
    /\ idle' = [idle EXCEPT ![r] = IF stage[r] = "standby" THEN RetryPeriod ELSE 0]
    /\ age' = [age EXCEPT ![r] = 0]
    /\ stage' = [stage EXCEPT ![r] = "leading"]
    /\ running' = [running EXCEPT ![r] = IF stage[r] = "standby" THEN "due" ELSE @]
    /\ UNCHANGED <<seen, delay, leading, lease, world>>

-----------------------------------------------------------------------------
(* The process.                                                            *)

\* Without election, runFn is called directly and nobody calls OnLeadingChange.
RunDirectly(r) ==
    /\ ~enabled /\ stage[r] = "standby"
    /\ stage' = [stage EXCEPT ![r] = "alone"] /\ running' = [running EXCEPT ![r] = "running"]
    /\ UNCHANGED <<leading, lease, elector, world>>

\* A slip: OnLeadingChange(true) comes after runFn.
OnStartedRunningFirst(r) ==
    /\ running[r] = "due"
    /\ running' = [running EXCEPT ![r] = IF stage[r] = "leading" THEN "running" ELSE "over"]
    /\ UNCHANGED <<leading, stage, lease, elector, world>>

\* SetLeading(true), then runController, which ends at once under a canceled context.
OnStartedLeading(r) ==
    /\ running[r] = "due"
    /\ leading' = [leading EXCEPT ![r] = TRUE]
    /\ running' = [running EXCEPT ![r] = IF stage[r] = "leading" THEN "running" ELSE "over"]
    /\ UNCHANGED <<stage, lease, elector, world>>

\* mgr.Start returns an error and runController returns.  Under election it was only a
\* goroutine.
ManagerFails(r) ==
    /\ running[r] = "running" /\ errors < MaxErrors /\ errors' = errors + 1
    /\ running' = [running EXCEPT ![r] = "failed"]
    /\ stage' = [stage EXCEPT ![r] = IF @ = "alone" THEN "ending" ELSE @]
    /\ UNCHANGED <<leading, lease, elector, enabled, connected, faults>>

\* A slip: runFn is given the context of the process, not that of the elector.
StopElectorOnly(r) ==
    /\ stage' = [stage EXCEPT ![r] = IF @ = "alone" THEN "ending" ELSE "stopped"]
    /\ request' = [request EXCEPT ![r] = "none"]
    /\ seen' = [seen EXCEPT ![r] = @ /\ request[r] # "done"]
    /\ UNCHANGED <<age, idle, delay, running, leading, lease, enabled, connected, errors>>

\* The elector returns and cancels the context; the lease is not released.  Without
\* election runFn returns.
Stop(r) ==
    /\ stage' = [stage EXCEPT ![r] = IF @ = "alone" THEN "ending" ELSE "stopped"]
    /\ running' = [running EXCEPT ![r] = IF @ = "running" THEN "over" ELSE @]
    /\ request' = [request EXCEPT ![r] = "none"]
    /\ seen' = [seen EXCEPT ![r] = @ /\ request[r] # "done"]
    /\ UNCHANGED <<age, idle, delay, leading, lease, enabled, connected, errors>>

StopRenewing(r) == stage[r] = "leading" /\ idle[r] = GiveUp /\ Stop(r) /\ UNCHANGED faults

\* Also when this replica never led.
OnStoppedLeading(r) ==
    /\ stage[r] = "stopped" /\ stage' = [stage EXCEPT ![r] = "ending"]
    /\ leading' = [leading EXCEPT ![r] = FALSE]
    /\ UNCHANGED <<running, lease, elector, world>>

\* A slip: the state of the last process is kept.
EndDangling(r) ==
    /\ stage' = [stage EXCEPT ![r] = "down"] /\ running' = [running EXCEPT ![r] = "none"]
    /\ UNCHANGED leading

\* Nothing outlives the process.
End(r) ==
    /\ stage' = [stage EXCEPT ![r] = "down"] /\ running' = [running EXCEPT ![r] = "none"]
    /\ leading' = [leading EXCEPT ![r] = FALSE]

\* A slip: the process waits for its manager to have ended.
ExitAfterManager(r) ==
    /\ stage[r] = "ending" /\ running[r] # "over" /\ End(r)
    /\ UNCHANGED <<lease, elector, world>>

\* RunWithLeaderElection and runMain return, whatever their goroutines still do.
Exit(r) == stage[r] = "ending" /\ End(r) /\ UNCHANGED <<lease, elector, world>>

\* The container is restarted under the same identity.
Restart(r) ==
    /\ stage[r] = "down" /\ stage' = [stage EXCEPT ![r] = "standby"]
    /\ seen' = [seen EXCEPT ![r] = FALSE]
    /\ UNCHANGED <<age, idle, request, delay, running, leading, lease, world>>

-----------------------------------------------------------------------------
(* Faults and time.                                                        *)

Fault == faults < MaxFaults /\ faults' = faults + 1

\* SIGTERM: ShutdownContext is canceled.
Signal(r) == stage[r] \in {"standby", "leading", "alone"} /\ Fault /\ Stop(r)

\* The process dies, or runController cannot create its manager and calls os.Exit.
Crash(r) ==
    /\ stage[r] # "down" /\ Fault /\ End(r)
    /\ request' = [request EXCEPT ![r] = "none"]
    /\ UNCHANGED <<seen, age, idle, delay, lease, enabled, connected, errors>>

\* A request or its answer gets lost.
Lose(r) ==
    /\ request[r] # "none" /\ Fault
    /\ request' = [request EXCEPT ![r] = "none"]
    /\ seen' = [seen EXCEPT ![r] = @ /\ request[r] # "done"]
    /\ UNCHANGED <<age, idle, delay, lease, control, enabled, connected, errors>>

Disconnect(r) ==
    /\ connected[r] /\ Fault /\ connected' = [connected EXCEPT ![r] = FALSE]
    /\ UNCHANGED <<lease, elector, control, enabled, errors>>

Reconnect(r) ==
    /\ ~connected[r] /\ connected' = [connected EXCEPT ![r] = TRUE]
    /\ UNCHANGED <<lease, elector, control, enabled, faults, errors>>

\* A process keeps its own deadlines, a goroutine gets to run within a tick, and an answer
\* is never on its way for longer than Delay.
Tick ==
    /\ \A r \in Replicas :
          /\ stage[r] = "leading" => idle[r] < GiveUp /\ running[r] # "due"
          /\ request[r] = "done" => delay[r] < Delay
    /\ quiet' = Older(quiet, LeaseDuration) /\ held' = Older(held, GiveUp + Delay)
    /\ age' = [r \in Replicas |-> Older(age[r], LeaseDuration)]
    /\ idle' = [r \in Replicas |-> Older(idle[r], GiveUp)]
    /\ delay' = [r \in Replicas |-> Older(delay[r], Delay)]
    /\ UNCHANGED <<holder, seen, request, control, world>>

-----------------------------------------------------------------------------
Elect(r) == Try(r) \/ Execute(r) \/ Refuse(r) \/ Receive(r)

Process(r) ==
    \/ RunDirectly(r) \/ OnStartedLeading(r) \/ StopRenewing(r)
    \/ OnStoppedLeading(r) \/ Exit(r) \/ Restart(r)

Act(r) ==
    \/ Elect(r) \/ Process(r) \/ ManagerFails(r)
    \/ Signal(r) \/ Crash(r) \/ Lose(r) \/ Disconnect(r) \/ Reconnect(r)

Next == (\E r \in Replicas : Act(r)) \/ Tick

Spec == Init /\ [][Next]_vars

\* Goroutines run, requests are answered, connections and containers come back, and time
\* passes.
Fairness ==
    /\ WF_vars(Tick)
    /\ \A r \in Replicas : WF_vars(Elect(r)) /\ WF_vars(Process(r)) /\ WF_vars(Reconnect(r))

FairSpec == Spec /\ Fairness

-----------------------------------------------------------------------------
(* Safety.                                                                 *)

\* Reconciles, under a context that is not canceled.
Works(r) == running[r] = "running"

\* A leader that has lost the lease without knowing it goes on for no longer than the
\* deadlines and the delay exceed the duration of the lease (ApplyDefaults): the context of
\* runFn ends with the elector (RunWithLeaderElection).
OverlapBounded ==
    enabled => \A r \in Replicas : Works(r) /\ holder # r => held <= GiveUp + Delay - LeaseDuration

\* The lease is taken from a holder only after it has been silent for LeaseDuration: the
\* duration counts from when a replica saw the last write (RunWithLeaderElection).
TakenWhenSilent == [][holder' # holder /\ holder # NoReplica => quiet = LeaseDuration]_vars

\* LeaderzCheck
Leaderz(r) == IF leading[r] THEN "leader" ELSE "standby"

\* Under election a replica that calls itself a standby does not reconcile: the context is
\* canceled before OnStoppedLeading, whenever its goroutine got to run (OnLeadingChange).
StandbyIdle == enabled => \A r \in Replicas : Leaderz(r) = "standby" => ~Works(r)

-----------------------------------------------------------------------------
(* Liveness.                                                               *)

\* Its manager is gone, and it still renews the lease.
Idles(r) == stage[r] = "leading" /\ running[r] = "failed"

\* After every fault and every lost lease somebody reconciles again, unless a manager that
\* has failed keeps the lease (RunWithLeaderElection, runMain).
Reconciled == []<>(\E r \in Replicas : Works(r) \/ Idles(r))

-----------------------------------------------------------------------------
(* What the documents say and the code does not do.                        *)

\* docs/validation/leader-election-safety.md:30: "Exactly one active leader at a time".
\* It needs durations that leave some slack.
ExactlyOne == enabled => \A r, s \in Replicas : Works(r) /\ Works(s) => r = s

\* cmd/gc-controller/main.go:376: "Don't call os.Exit here - let the defer cancel() run for
\* cleanup".  A failed manager ends its process.
ManagerEndsProcess ==
    \A r \in Replicas : running[r] = "failed" ~> stage[r] \in {"ending", "down"}
=============================================================================
