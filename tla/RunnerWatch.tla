----------------------------- MODULE RunnerWatch -----------------------------
(***************************************************************************)
(* EphemeralRunnerWatcher on one EphemeralRunner name, over time.  The     *)
(* watcher looks at a runner when an event, a requeue or a resync asks it  *)
(* to; between these it remembers only erStatus, in memory, and a timer.   *)
(* The question is whether a stuck runner is reported when it should be.   *)
(*                                                                         *)
(* Time is a bounded clock.  A reconcile takes no time on it: the clock    *)
(* waits for the queue.  A request that backs off after an error is not in *)
(* the queue until its delay has passed.                                   *)
(***************************************************************************)
EXTENDS Integers

CONSTANTS
  StuckThreshold,   \* age from which a Failed runner is reported
  RunningThreshold, \* time in Running after which a runner is reported
  MaxRunners,       \* bound: runners that bear the name, one after another
  MaxRestarts,      \* bound: restarts of the process
  MaxBackoff,       \* bound: delay of the retry after an error
  LastChange,       \* bound: last time at which runner or process change
  MaxTime           \* bound: end of the clock

ASSUME RunnerWatchAssumption ==
  /\ StuckThreshold \in Nat /\ RunningThreshold \in Nat
  /\ MaxRunners \in Nat /\ MaxRestarts \in Nat /\ MaxBackoff \in Nat
  /\ LastChange \in Nat /\ MaxTime \in Nat

VARIABLES
  now,
  er,               \* the runner in the API server, or Gone
  uids,             \* runners created so far
  cache,            \* the informer's copy of er
  queued,           \* is a request for the name in the work queue?
  due,              \* when the delayed request joins the queue, or Never
  tracker,          \* erStatus of the name
  at,               \* the next call of the reconcile that is running
  obj,              \* the runner it works on
  inv,              \* the Investigation "er-<name>", or NoInv
  invSeen,          \* does the informer's cache have it?
  refused,          \* did the counter refuse the last reconcile?
  failing,          \* did the last reconcile return an error?
  since,            \* history: when the runner took its phase
  boot, restarts    \* history: when the process started, how often again

world == <<er, uids, since>>
queue == <<queued, due>>
handler == <<at, obj, refused, failing>>
report == <<inv, invSeen>>
process == <<boot, restarts>>
vars == <<now, world, cache, queue, tracker, handler, report, process>>

Gone == [uid |-> 0, phase |-> "gone", created |-> 0]
NoInv == [uid |-> 0, trigger |-> "none", created |-> 0, time |-> 0, phase |-> ""]
Never == -1
Exists(e) == e # Gone

(* "Pending" stands for every phase the watcher does not act on.           *)
Phases == {"Pending", "Running", "Failed"}

(* A fresh erTracker; the code makes it when it first sees the name.       *)
NoTracker == [lastPhase |-> "", runningSince |-> Never]

Later(a, b) == IF a > b THEN a ELSE b

Init ==
  /\ now = 0
  /\ er = Gone /\ uids = 0 /\ since = 0 /\ cache = Gone
  /\ queued = FALSE /\ due = Never
  /\ tracker = NoTracker
  /\ at = "idle" /\ obj = Gone /\ refused = FALSE /\ failing = FALSE
  /\ inv = NoInv /\ invSeen = FALSE
  /\ boot = 0 /\ restarts = 0
------------------------------------------------------------------------------
(***************************************************************************)
(* Reconcile, up to the first write.                                       *)
(***************************************************************************)

(* Variants: a restart of the measurement at every look; a zero time.      *)
recordTransitionAlways(t, phase) ==
  [lastPhase |-> phase,
   runningSince |-> IF phase = "Running" THEN now ELSE Never]
recordTransitionZero(t, phase) ==
  IF t.lastPhase = phase THEN t
  ELSE [lastPhase |-> phase,
        runningSince |-> IF phase = "Running" THEN 0 ELSE Never]

(* The transitions themselves, copied into StatusHistory, are left out.    *)
recordTransition(t, phase) ==
  IF t.lastPhase = phase THEN t
  ELSE [lastPhase |-> phase,
        runningSince |-> IF phase = "Running" THEN now ELSE Never]

(* What is left of the threshold; nothing or less means stuck.             *)
handleFailed(e) == StuckThreshold - (now - e.created)

handleRunning(t) ==
  IF t.runningSince = Never THEN RunningThreshold
  ELSE RunningThreshold - (now - t.runningSince)

Left(e, t) ==
  IF e.phase = "Failed" THEN handleFailed(e) ELSE handleRunning(t)

(* Variant: no requeue.                                                    *)
RequeueAfterNothing(d) == due' = due

(* AddAfter: a name that is waiting already keeps the earlier time.        *)
RequeueAfter(d) ==
  due' = IF due = Never \/ now + d < due THEN now + d ELSE due

Begin == at = "idle" /\ queued /\ queued' = FALSE /\ failing' = FALSE

(* The runner is gone.                                                     *)
ReconcileNotFound ==
  /\ Begin /\ ~Exists(cache)
  /\ tracker' = NoTracker
  /\ refused' = FALSE
  /\ UNCHANGED <<now, world, cache, due, at, obj, report, process>>

(* No phase yet, a phase of no interest, or not stuck long enough.         *)
ReconcileNotStuck ==
  /\ Begin /\ Exists(cache)
  /\ refused' = FALSE
  /\ LET t == recordTransition(tracker, cache.phase)
     IN  \/ cache.phase = "" /\ UNCHANGED <<tracker, due>>
         \/ cache.phase = "Pending" /\ tracker' = t /\ UNCHANGED due
         \/ /\ cache.phase \in {"Running", "Failed"}
            /\ Left(cache, t) > 0
            /\ tracker' = t
            /\ RequeueAfter(Left(cache, t))
  /\ UNCHANGED <<now, world, cache, at, obj, report, process>>

BeginStuck ==
  /\ Begin /\ Exists(cache) /\ cache.phase \in {"Running", "Failed"}
  /\ tracker' = recordTransition(tracker, cache.phase)
  /\ Left(cache, tracker') <= 0

(* createInvestigation finds the name taken ...                            *)
ReconcileExists ==
  /\ BeginStuck /\ invSeen
  /\ refused' = FALSE
  /\ UNCHANGED <<now, world, cache, due, at, obj, report, process>>

(* ... or the counter refuses, and nothing asks for another look ...       *)
ReconcileRefused ==
  /\ BeginStuck /\ ~invSeen
  /\ refused' = TRUE
  /\ UNCHANGED <<now, world, cache, due, at, obj, report, process>>

(* ... or a slot is reserved.                                              *)
ReconcileReserve ==
  /\ BeginStuck /\ ~invSeen
  /\ refused' = FALSE
  /\ at' = "create" /\ obj' = cache
  /\ UNCHANGED <<now, world, cache, due, report, process>>
------------------------------------------------------------------------------
(***************************************************************************)
(* The writes.  After an error the request comes back (AddRateLimited).    *)
(***************************************************************************)
Return == at' = "idle" /\ obj' = Gone /\ UNCHANGED <<refused, queued>>

Succeed == Return /\ UNCHANGED <<due, failing>>
Fail == Return /\ failing' = TRUE /\ \E d \in 0..MaxBackoff : RequeueAfter(d)

Created ==
  /\ at = "create" /\ inv = NoInv
  /\ inv' = [uid |-> obj.uid, trigger |-> obj.phase, created |-> obj.created,
             time |-> now, phase |-> ""]

CreateOK ==
  /\ Created
  /\ at' = "status"
  /\ UNCHANGED <<now, world, cache, queue, tracker, obj, refused, failing,
                 invSeen, process>>

(* Variant: the error of Create is not looked at.                          *)
CreateFailsUnseen ==
  /\ at = "create"
  /\ at' = "status"
  /\ UNCHANGED <<now, world, cache, queue, tracker, obj, refused, failing,
                 report, process>>

(* An error of the server, or AlreadyExists.                               *)
CreateFails ==
  /\ at = "create"
  /\ Fail
  /\ UNCHANGED <<now, world, cache, tracker, report, process>>

(* Create takes effect and reports an error.                               *)
CreateReplyLost ==
  /\ Created
  /\ Fail
  /\ UNCHANGED <<now, world, cache, tracker, invSeen, process>>

StatusOK ==
  /\ at = "status"
  /\ inv' = [inv EXCEPT !.phase = "Collecting"]
  /\ Succeed
  /\ UNCHANGED <<now, world, cache, tracker, invSeen, process>>

StatusFails ==
  /\ at = "status"
  /\ Fail
  /\ UNCHANGED <<now, world, cache, tracker, report, process>>
------------------------------------------------------------------------------
(***************************************************************************)
(* Runner, informers, timer, process and clock.                            *)
(***************************************************************************)
RunnerCreated ==
  /\ er = Gone /\ uids < MaxRunners /\ now <= LastChange
  /\ uids' = uids + 1
  /\ er' = [uid |-> uids', phase |-> "", created |-> now]
  /\ since' = now
  /\ UNCHANGED <<now, cache, queue, tracker, handler, report, process>>

PhaseChange ==
  /\ Exists(er) /\ now <= LastChange
  /\ \E p \in Phases \ {er.phase} :
       er' = [er EXCEPT !.phase = p]
  /\ since' = now
  /\ UNCHANGED <<now, uids, cache, queue, tracker, handler, report, process>>

RunnerDeleted ==
  /\ Exists(er) /\ now <= LastChange
  /\ er' = Gone /\ since' = now
  /\ UNCHANGED <<now, uids, cache, queue, tracker, handler, report, process>>

(* The informer may skip states; the queue merges requests anyway.         *)
RunnerEvent ==
  /\ cache # er
  /\ cache' = er /\ queued' = TRUE
  /\ UNCHANGED <<now, world, due, tracker, handler, report, process>>

InvEvent ==
  /\ inv # NoInv /\ ~invSeen
  /\ invSeen' = TRUE
  /\ UNCHANGED <<now, world, cache, queue, tracker, handler, inv, process>>

Elapsed == due # Never /\ due <= now

TimerFires ==
  /\ Elapsed
  /\ due' = Never /\ queued' = TRUE
  /\ UNCHANGED <<now, world, cache, tracker, handler, report, process>>

Resync ==
  /\ Exists(cache) /\ ~queued
  /\ queued' = TRUE
  /\ UNCHANGED <<now, world, cache, due, tracker, handler, report, process>>

(* A new process has empty erStatus, no timers, and full caches.           *)
Restart ==
  /\ restarts < MaxRestarts /\ now <= LastChange
  /\ restarts' = restarts + 1 /\ boot' = now
  /\ cache' = er /\ queued' = Exists(er) /\ due' = Never
  /\ tracker' = NoTracker
  /\ at' = "idle" /\ obj' = Gone /\ refused' = FALSE /\ failing' = FALSE
  /\ invSeen' = (inv # NoInv)
  /\ UNCHANGED <<now, world, inv>>

(* The clock stops at its bound.                                           *)
Tick ==
  /\ cache = er /\ at = "idle" /\ ~queued /\ ~Elapsed
  /\ now' = IF now < MaxTime THEN now + 1 ELSE now
  /\ UNCHANGED <<world, cache, queue, tracker, handler, report, process>>

Reconcile == \/ ReconcileNotFound \/ ReconcileNotStuck \/ ReconcileExists
             \/ ReconcileRefused \/ ReconcileReserve
             \/ CreateOK \/ CreateFails \/ CreateReplyLost
             \/ StatusOK \/ StatusFails

Environment == \/ RunnerCreated \/ PhaseChange \/ RunnerDeleted
               \/ RunnerEvent \/ InvEvent \/ TimerFires \/ Resync
               \/ Restart \/ Tick

Next == Reconcile \/ Environment

Spec == Init /\ [][Next]_vars

(* The worker, the informers, the timer and the clock do not stop;         *)
(* informers resync; capacity comes back and is found, and Create succeeds,*)
(* when they are tried again and again.                                    *)
Fairness ==
  /\ WF_vars(Reconcile) /\ SF_vars(ReconcileReserve) /\ SF_vars(CreateOK)
  /\ WF_vars(RunnerEvent) /\ WF_vars(InvEvent) /\ WF_vars(TimerFires)
  /\ WF_vars(Resync) /\ SF_vars(Tick)

FairSpec == Spec /\ Fairness
------------------------------------------------------------------------------
(***************************************************************************)
(* Properties.                                                             *)
(***************************************************************************)
Times == 0..MaxTime
LastDue == MaxTime + Later(MaxBackoff, Later(StuckThreshold, RunningThreshold))

ERObjects ==
  [uid : 1..MaxRunners, phase : Phases \cup {""}, created : Times]
  \cup {Gone}

Trackers == [lastPhase : Phases \cup {""}, runningSince : Times \cup {Never}]

Investigations ==
  [uid : 1..MaxRunners, trigger : {"Running", "Failed"},
   created : Times, time : Times, phase : {"", "Collecting"}]

(* The shape of the state; a reconcile that writes the status has an       *)
(* Investigation, and one that writes at all has a stuck runner.           *)
TypeOK ==
  /\ now \in Times
  /\ er \in ERObjects /\ cache \in ERObjects /\ obj \in ERObjects
  /\ uids \in 0..MaxRunners /\ since \in Times
  /\ queued \in BOOLEAN /\ refused \in BOOLEAN /\ failing \in BOOLEAN
  /\ due \in {Never} \cup 0..LastDue
  /\ tracker \in Trackers
  /\ at \in {"idle", "create", "status"}
  /\ inv \in Investigations \cup {NoInv}
  /\ invSeen \in BOOLEAN
  /\ boot \in Times /\ restarts \in 0..MaxRestarts
  /\ at # "idle" => Exists(obj) /\ obj.phase \in {"Running", "Failed"}
  /\ at = "status" \/ invSeen => inv # NoInv

(* Past the time by which the watcher has to have reported the runner: the *)
(* threshold for Running counts from the phase change or, when the process *)
(* is younger, from its start; a Failed runner goes by its age.            *)
Overdue ==
  \/ /\ er.phase = "Running"
     /\ now > Later(since, boot) + RunningThreshold
  \/ /\ er.phase = "Failed"
     /\ now > Later(Later(er.created + StuckThreshold, since), boot)

(* The Investigation "er-<name>" is about this runner.                     *)
Reported == inv.uid = er.uid

(* It is about an earlier runner of the name.  As long as it exists,       *)
(* createInvestigation returns without a report ("already exists").        *)
NameTaken == inv # NoInv /\ inv.uid < er.uid

(* No request is forgotten: neither a lost event nor a merged or early     *)
(* timer keeps a stuck runner from being reported in time, and the report  *)
(* is about that runner.  What can keep it from being reported: the name   *)
(* is taken by the Investigation of an earlier runner, the counter refused *)
(* or the API server fails (handleFailed, handleRunning and their          *)
(* RequeueAfter, createInvestigation).                                     *)
OnTime ==
  Overdue => \/ Reported
             \/ at = "create" /\ obj.uid = er.uid
             \/ NameTaken \/ refused \/ failing

(* "how long a Failed ER must exist before triggering", "how long a        *)
(* Running ER must exist before triggering" (ephemeralrunner_watcher.go):  *)
(* no report is early, whatever was missed or restarted, except that a     *)
(* runner which reuses the name of another may inherit its runningSince.   *)
NotEarly ==
  /\ inv.trigger = "Failed" => inv.time - inv.created >= StuckThreshold
  /\ inv.trigger = "Running" /\ inv.uid = 1 =>
       inv.time - inv.created >= RunningThreshold

(* A runner that stays stuck is reported in the end, itself and not one    *)
(* that had its name before, also after refusals, which ask for no other   *)
(* look: the resync does (createInvestigation).  Only the Investigation of *)
(* an earlier runner, which holds the name, prevents that for ever.        *)
StuckReported ==
  \A u \in 1..MaxRunners, p \in {"Running", "Failed"} :
    <>[](er.uid = u /\ er.phase = p) => <>[](Reported \/ NameTaken)
==============================================================================
