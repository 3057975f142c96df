------------------------------- MODULE Failover -------------------------------
(***************************************************************************)
(* What a change of leader does to the deletions: the replicas of          *)
(* LeaderElection, and in each the evaluation of one policy, cut down to   *)
(* the steps that meet another replica's: it lists what is due, sends one  *)
(* DELETE after the other and reports those that were answered.            *)
(*                                                                         *)
(* Source: the context that RunWithLeaderElection hands to runController,  *)
(* and EvaluatePolicy, deleteBatchShared and deleteResource under it.  The *)
(* objects are due and nobody creates them again; GCEvaluation has their   *)
(* versions, their expiry and the cache, and a listing that lags is one    *)
(* that was taken earlier.                                                 *)
(***************************************************************************)
EXTENDS LeaderElection

CONSTANTS
    Objects,        \* UIDs of objects that are due
    NoObject,
    RequestDelay    \* the longest a DELETE is on its way, in ticks

ASSUME ObjectAssumption == NoObject \notin Objects
ASSUME RequestAssumption == RequestDelay \in Nat

VARIABLES
    stored,     \* objects the API server has
    todo,       \* per replica: objects of its listing that it is not done with
    waiting,    \* per replica: object whose DELETE it waits for
    deletes,    \* DELETE requests on their way
    reported,   \* who sent a ResourceDeleted event for which object
    overlapped  \* two replicas have reconciled at a time

collection == <<stored, todo, waiting, deletes, reported>>
allVars == <<vars, collection, overlapped>>

Delete == [by: Replicas, object: Objects, age: 0 .. RequestDelay]

CollectionTypeOK ==
    /\ stored \subseteq Objects /\ reported \subseteq Replicas \X Objects
    /\ todo \in [Replicas -> SUBSET Objects]
    /\ waiting \in [Replicas -> Objects \cup {NoObject}]
    /\ deletes \subseteq Delete /\ overlapped \in BOOLEAN
    /\ \A r \in Replicas :
          /\ waiting[r] \in todo[r] \cup {NoObject}
          /\ ~Works(r) => todo[r] = {}

FailoverInit ==
    /\ Init /\ stored = Objects /\ deletes = {} /\ reported = {} /\ overlapped = FALSE
    /\ todo = [r \in Replicas |-> {}] /\ waiting = [r \in Replicas |-> NoObject]

-----------------------------------------------------------------------------
(* The evaluation of replica r, under the context of its elector.          *)

List(r) ==
    /\ Works(r) /\ todo[r] = {} /\ stored # {}
    /\ todo' = [todo EXCEPT ![r] = stored]
    /\ UNCHANGED <<stored, waiting, deletes, reported, overlapped, vars>>

Request(r, o) ==
    /\ waiting' = [waiting EXCEPT ![r] = o]
    /\ deletes' = deletes \cup {[by |-> r, object |-> o, age |-> 0]}
    /\ UNCHANGED <<stored, todo, reported, overlapped, vars>>

\* A slip: the limiter and the batch loop do not look at the context.
SendUnchecked(r, o) == waiting[r] = NoObject /\ o \in Objects /\ Request(r, o)

Send(r, o) == Works(r) /\ waiting[r] = NoObject /\ o \in todo[r] /\ Request(r, o)

\* The object is done with: deleted or, after the last retry, left to the next evaluation.
Done(r) ==
    /\ todo' = [todo EXCEPT ![r] = @ \ {waiting[r]}]
    /\ waiting' = [waiting EXCEPT ![r] = NoObject]

\* The answer has come; that the object was not found counts as success.
Report(r) ==
    /\ Works(r) /\ waiting[r] # NoObject
    /\ \A d \in deletes : d.by = r => d.object # waiting[r]
    /\ Done(r) /\ reported' = reported \cup {<<r, waiting[r]>>}
    /\ UNCHANGED <<stored, deletes, overlapped, vars>>

\* The request or its answer is lost, or it is given up while it is still on its way.
FailDelete(r) ==
    /\ Works(r) /\ waiting[r] # NoObject /\ Done(r)
    /\ deletes' \in {deletes, {d \in deletes : d.by # r \/ d.object # waiting[r]}}
    /\ UNCHANGED <<stored, reported, overlapped, vars>>

\* The API server deletes by name, whoever asked and whether he still waits.
Land(d) ==
    /\ d \in deletes /\ deletes' = deletes \ {d}
    /\ stored' = stored \ {d.object}
    /\ UNCHANGED <<todo, waiting, reported, overlapped, vars>>

-----------------------------------------------------------------------------
(* The replicas under their leases.                                        *)

\* A slip: the evaluation runs under the context of the process.
CarryOn == UNCHANGED <<todo, waiting>>

\* With the context the evaluation ends, and nobody waits for its request any more.
Interrupt ==
    /\ todo' = [r \in Replicas |-> IF Works(r)' THEN todo[r] ELSE {}]
    /\ waiting' = [r \in Replicas |-> IF Works(r)' THEN waiting[r] ELSE NoObject]

\* Requests on their way get older with the clock of the lease.
Elapse ==
    /\ Tick /\ \A d \in deletes : d.age < RequestDelay
    /\ deletes' = {[d EXCEPT !.age = @ + 1] : d \in deletes}
    /\ UNCHANGED <<stored, todo, waiting, reported, overlapped>>

Lead ==
    /\ (\E r \in Replicas : Act(r)) /\ Interrupt /\ UNCHANGED <<stored, deletes, reported>>
    /\ overlapped' = (overlapped \/ \E r, s \in Replicas : r # s /\ Works(r)' /\ Works(s)')

SendAny(r) == \E o \in Objects : Send(r, o)

Collect(r) == List(r) \/ SendAny(r) \/ Report(r)

FailoverNext ==
    \/ Lead \/ Elapse
    \/ \E r \in Replicas : Collect(r) \/ FailDelete(r)
    \/ \E d \in deletes : Land(d)

FailoverSpec == FailoverInit /\ [][FailoverNext]_allVars

\* Not every request gets lost.  A replica that leads again and again gets to list and to
\* send: it has GiveUp ticks for that each time.
FailoverFairSpec ==
    /\ FailoverSpec /\ Fairness /\ SF_allVars(\E d \in deletes : Land(d))
    /\ \A r \in Replicas : SF_allVars(List(r)) /\ SF_allVars(SendAny(r)) /\ WF_allVars(Report(r))

-----------------------------------------------------------------------------
(* Safety.                                                                 *)

\* A replica that has lost the lease sends its last DELETE no later after the change of
\* leader than the deadlines of the election allow, and it is on its way for its own delay
\* on top (the context that RunWithLeaderElection hands down to deleteResource).
StrayDeletesBounded ==
    enabled => \A d \in deletes :
        d.by # holder => held <= GiveUp + Delay - LeaseDuration + d.age

\* Two replicas report the deletion of one object only if they have led at the same time: a
\* failover alone, with requests of the old leader on their way, reports nothing twice.
ReportedTwice == \E o \in Objects, r, s \in Replicas : r # s /\ {<<r, o>>, <<s, o>>} \subseteq reported

ReportedOnce == ReportedTwice => overlapped

-----------------------------------------------------------------------------
(* Liveness.                                                               *)

\* In the end everything due is gone, whoever led and whatever was interrupted, unless a
\* manager that has failed keeps the lease.
CollectedAcrossLeaders == <>(stored = {}) \/ <>[](\E r \in Replicas : Idles(r))
===============================================================================
