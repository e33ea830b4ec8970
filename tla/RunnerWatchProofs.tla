-------------------------- MODULE RunnerWatchProofs --------------------------
(***************************************************************************)
(* Theorems about RunnerWatch for every pair of thresholds, every back-off,*)
(* any number of runners and restarts and every bound of the clock.        *)
(***************************************************************************)
EXTENDS RunnerWatch, TLAPS

(***************************************************************************)
(* Type correctness.                                                       *)
(***************************************************************************)

Dues == {Never} \cup 0..LastDue

(* No timer is set for later than LastDue.                                 *)
LEMMA LastDueBound ==
  /\ LastDue \in Nat
  /\ \A d \in {MaxBackoff, StuckThreshold, RunningThreshold} :
       MaxTime + d <= LastDue
BY RunnerWatchAssumption DEF LastDue, Later

(* An Investigation is never mistaken for none.                            *)
LEMMA NoInvApart == NoInv \notin Investigations
<1>1. NoInv.uid = 0
  BY DEF NoInv
<1>2. \A i \in Investigations : i.uid # 0
  <2> SUFFICES ASSUME NEW i \in Investigations PROVE i.uid # 0
    OBVIOUS
  <2>1. i.uid \in 1..MaxRunners
    BY DEF Investigations
  <2> QED
    BY <2>1, RunnerWatchAssumption
<1> QED
  BY <1>1, <1>2

(* What recordTransition makes of a tracker is a tracker.                  *)
LEMMA TransitionType ==
  ASSUME now \in Times, NEW t \in Trackers, NEW p \in Phases \cup {""}
  PROVE  recordTransition(t, p) \in Trackers
BY DEF recordTransition, Trackers, Times, Never

(* A requeue within the reach of the timers leaves one in their range.     *)
LEMMA RequeueType ==
  ASSUME TypeOK, NEW d \in Int, RequeueAfter(d), now + d \in Dues
  PROVE  due' \in Dues
BY DEF TypeOK, RequeueAfter, Dues

(* So does the requeue of a runner that is not stuck yet.                  *)
LEMMA LeftType ==
  ASSUME TypeOK, NEW t \in Trackers, Exists(cache), Left(cache, t) > 0
  PROVE  Left(cache, t) \in Int /\ now + Left(cache, t) \in Dues
<1> USE RunnerWatchAssumption, LastDueBound
<1>1. cache.created \in Times /\ now \in Times
  BY DEF TypeOK, ERObjects, Exists
<1>2. t.runningSince \in Times \cup {Never}
  BY DEF Trackers
<1>3. CASE cache.phase = "Failed"
  <2>1. Left(cache, t) = StuckThreshold - (now - cache.created)
    BY <1>3 DEF Left, handleFailed
  <2> QED
    BY <1>1, <2>1 DEF Dues, Times
<1>4. CASE cache.phase # "Failed" /\ t.runningSince = Never
  <2>1. Left(cache, t) = RunningThreshold
    BY <1>4 DEF Left, handleRunning
  <2> QED
    BY <1>1, <2>1 DEF Dues, Times
<1>5. CASE cache.phase # "Failed" /\ t.runningSince # Never
  <2>1. Left(cache, t) = RunningThreshold - (now - t.runningSince)
    BY <1>5 DEF Left, handleRunning
  <2> QED
    BY <1>1, <1>2, <1>5, <2>1 DEF Dues, Times, Never
<1> QED
  BY <1>3, <1>4, <1>5

(* A delay after an error ends in the range of the timers.                 *)
LEMMA FailType ==
  ASSUME TypeOK, Fail
  PROVE  due' \in Dues
<1> USE RunnerWatchAssumption, LastDueBound
<1>1. PICK d \in 0..MaxBackoff : RequeueAfter(d)
  BY DEF Fail
<1>2. now + d \in Dues
  BY DEF TypeOK, Times, Dues
<1> QED
  BY <1>1, <1>2, RequeueType

(* Every reconcile, event, timer and restart keeps the state in shape; in  *)
(* particular the status of an Investigation is only written by a handler  *)
(* that created it (createInvestigation).                                  *)
THEOREM TypeCorrect == Spec => []TypeOK
<1> USE RunnerWatchAssumption, LastDueBound
<1>1. Init => TypeOK
  <2> SUFFICES ASSUME Init PROVE TypeOK
    OBVIOUS
  <2>1. Gone \in ERObjects /\ NoTracker \in Trackers /\ 0 \in Times
    BY DEF ERObjects, NoTracker, Trackers, Times
  <2>2. uids \in 0..MaxRunners /\ restarts \in 0..MaxRestarts
    BY DEF Init
  <2>3. /\ ~invSeen /\ invSeen \in BOOLEAN
        /\ queued \in BOOLEAN /\ refused \in BOOLEAN /\ failing \in BOOLEAN
    BY DEF Init
  <2> QED
    BY <2>1, <2>2, <2>3 DEF Init, TypeOK
<1>2. TypeOK /\ [Next]_vars => TypeOK'
  <2> SUFFICES ASSUME TypeOK, [Next]_vars PROVE TypeOK'
    OBVIOUS
  <2> USE DEF world, queue, handler, report, process, Exists
  <2>0. tracker \in Trackers /\ due \in Dues
    BY DEF TypeOK, Trackers, Dues
  <2>a. Gone \in ERObjects /\ NoTracker \in Trackers /\ Never \in Dues
    BY DEF ERObjects, NoTracker, Trackers, Dues
  <2>b. Exists(cache) => recordTransition(tracker, cache.phase) \in Trackers
    BY <2>0, TransitionType DEF TypeOK, Exists, ERObjects
  <2>1. CASE ReconcileNotFound
    BY <2>1, <2>a DEF ReconcileNotFound, Begin, TypeOK, Trackers
  <2>2. CASE ReconcileNotStuck
    <3>1. tracker' \in Trackers
      BY <2>0, <2>2, <2>b DEF ReconcileNotStuck
    <3>2. due' \in Dues
      BY <2>0, <2>2, <2>b, LeftType, RequeueType DEF ReconcileNotStuck
    <3> QED
      BY <2>2, <3>1, <3>2 DEF ReconcileNotStuck, Begin, TypeOK, Trackers, Dues
  <2>3. CASE ReconcileExists
    BY <2>3, <2>b DEF ReconcileExists, BeginStuck, Begin, TypeOK
  <2>17. CASE ReconcileRefused
    BY <2>17, <2>b DEF ReconcileRefused, BeginStuck, Begin, TypeOK
  <2>4. CASE ReconcileReserve
    BY <2>4, <2>b DEF ReconcileReserve, BeginStuck, Begin, TypeOK, Trackers
  <2>5. CASE CreateOK
    <3>1. inv' \in Investigations
      BY <2>5 DEF CreateOK, Created, TypeOK, Exists, ERObjects, Investigations
    <3>2. inv' # NoInv
      BY <3>1, NoInvApart
    <3> QED
      BY <2>5, <3>1, <3>2 DEF CreateOK, Created, TypeOK
  <2>6. CASE CreateReplyLost
    <3>1. inv' \in Investigations
      BY <2>6 DEF CreateReplyLost, Created, TypeOK, Exists, ERObjects, Investigations
    <3>2. inv' # NoInv
      BY <3>1, NoInvApart
    <3>3. due' \in Dues
      BY <2>6, FailType DEF CreateReplyLost
    <3> QED
      BY <2>6, <2>a, <3>1, <3>2, <3>3
         DEF CreateReplyLost, Fail, Return, TypeOK, Dues
  <2>7. CASE CreateFails
    <3>1. due' \in Dues
      BY <2>7, FailType DEF CreateFails
    <3> QED
      BY <2>7, <2>a, <3>1 DEF CreateFails, Fail, Return, TypeOK, Dues
  <2>20. CASE StatusFails
    <3>1. due' \in Dues
      BY <2>20, FailType DEF StatusFails
    <3> QED
      BY <2>20, <2>a, <3>1 DEF StatusFails, Fail, Return, TypeOK, Dues
  <2>8. CASE StatusOK
    <3>1. inv # NoInv
      BY <2>8 DEF StatusOK, TypeOK
    <3>2. inv' \in Investigations
      BY <2>8, <3>1 DEF StatusOK, TypeOK, Investigations
    <3>3. inv' # NoInv
      BY <3>2, NoInvApart
    <3> QED
      BY <2>8, <2>a, <3>2, <3>3 DEF StatusOK, Succeed, Return, TypeOK
  <2>9. CASE RunnerCreated
    <3>0. uids \in 0..MaxRunners /\ uids < MaxRunners /\ uids' = uids + 1
      BY <2>9 DEF RunnerCreated, TypeOK
    <3>1. uids' \in 1..MaxRunners
      BY <3>0
    <3>2. er' \in ERObjects
      <4>1. er' = [uid |-> uids', phase |-> "", created |-> now] /\ now \in Times
        BY <2>9 DEF RunnerCreated, TypeOK
      <4> QED
        BY <3>1, <4>1 DEF ERObjects
    <3>3. uids' \in 0..MaxRunners
      BY <3>1
    <3> QED
      BY <2>9, <3>2, <3>3 DEF RunnerCreated, TypeOK
  <2>10. CASE PhaseChange
    <3>1. er' \in ERObjects
      BY <2>10 DEF PhaseChange, TypeOK, ERObjects, Exists
    <3> QED
      BY <2>10, <3>1 DEF PhaseChange, TypeOK
  <2>11. CASE RunnerDeleted
    BY <2>11, <2>a DEF RunnerDeleted, TypeOK
  <2>12. CASE RunnerEvent
    BY <2>12 DEF RunnerEvent, TypeOK
  <2>19. CASE Resync
    BY <2>19 DEF Resync, TypeOK
  <2>18. CASE InvEvent
    BY <2>18 DEF InvEvent, TypeOK
  <2>13. CASE TimerFires
    BY <2>13 DEF TimerFires, TypeOK
  <2>14. CASE Restart
    <3>1. restarts' \in 0..MaxRestarts /\ queued' \in BOOLEAN /\ invSeen' \in BOOLEAN
      BY <2>14 DEF Restart, TypeOK, Exists
    <3> QED
      BY <2>14, <2>a, <3>1 DEF Restart, TypeOK, Trackers
  <2>15. CASE Tick
    <3>1. now' \in Times
      BY <2>15 DEF Tick, TypeOK, Times
    <3> QED
      BY <2>15, <3>1 DEF Tick, TypeOK
  <2>16. CASE UNCHANGED vars
    BY <2>16 DEF vars, TypeOK
  <2> QED
    BY <2>1, <2>2, <2>3, <2>4, <2>5, <2>6, <2>7, <2>8, <2>9, <2>10, <2>11,
       <2>12, <2>13, <2>14, <2>15, <2>16, <2>17, <2>18,
       <2>19, <2>20 DEF Next, Reconcile, Environment
<1> QED
  BY <1>1, <1>2, PTL DEF Spec
------------------------------------------------------------------------------
(***************************************************************************)
(* No report is early.                                                     *)
(***************************************************************************)

(* The numbers of a runner.                                                *)
LEMMA RunnerNumbers ==
  \A e \in ERObjects :
    /\ e.created \in Nat /\ e.uid \in Nat
    /\ Exists(e) => e.phase # "gone" /\ e.uid # 0
<1> SUFFICES ASSUME NEW e \in ERObjects
             PROVE  /\ e.created \in Nat /\ e.uid \in Nat
                    /\ Exists(e) => e.phase # "gone" /\ e.uid # 0
  OBVIOUS
<1>1. CASE e = Gone
  BY <1>1 DEF Gone, Exists
<1>2. CASE e # Gone
  <2>1. e.uid \in 1..MaxRunners /\ e.created \in Times
    BY <1>2 DEF ERObjects
  <2>2. e.phase # "gone"
    BY <1>2 DEF ERObjects, Phases
  <2>3. e.uid \in Nat /\ e.uid # 0 /\ e.created \in Nat
    BY <2>1, RunnerWatchAssumption DEF Times
  <2> QED
    BY <2>2, <2>3
<1> QED
  BY <1>1, <1>2

(* The numbers of a state.                                                 *)
LEMMA Numbers ==
  ASSUME TypeOK
  PROVE  /\ now \in Nat /\ since \in Nat /\ boot \in Nat /\ uids \in Nat
         /\ now <= MaxTime
         /\ due = Never \/ due \in Nat
         /\ tracker.runningSince = Never \/ tracker.runningSince \in Nat
         /\ \A e \in {er, cache, obj} :
              /\ e.created \in Nat /\ e.uid \in Nat
              /\ Exists(e) => e.phase # "gone" /\ e.uid # 0
<1>2. tracker.runningSince = Never \/ tracker.runningSince \in Nat
  <2>1. tracker.runningSince \in Times \cup {Never}
    BY DEF TypeOK, Trackers
  <2> QED
    BY <2>1, RunnerWatchAssumption DEF Times
<1>3. due = Never \/ due \in Nat
  BY LastDueBound DEF TypeOK
<1> QED
  BY <1>2, <1>3, RunnerNumbers, RunnerWatchAssumption DEF TypeOK, Times

(* runningSince is a time of the past, and set while Running.              *)
Measured ==
  /\ tracker.runningSince <= now
  /\ tracker.lastPhase = "Running" <=> tracker.runningSince # Never

(* No runner is younger than its creation says, and the time measured for  *)
(* the first of the name began in its life.                                *)
Ages ==
  /\ \A e \in {er, cache} :
       /\ Exists(e) => e.created <= now
       /\ e.uid = 1 /\ tracker.runningSince # Never =>
            e.created <= tracker.runningSince
  /\ uids = 0 => er = Gone /\ cache = Gone /\ tracker.runningSince = Never

(* The runner that a handler is about to report has been stuck enough.     *)
HandlerSure ==
  at # "idle" =>
    /\ obj.phase = "Failed" => now - obj.created >= StuckThreshold
    /\ obj.phase = "Running" /\ obj.uid = 1 =>
         now - obj.created >= RunningThreshold

EarlyInv == Measured /\ Ages /\ HandlerSure /\ NotEarly

(* What recordTransition measures.                                         *)
LEMMA TransitionMeasures ==
  ASSUME TypeOK, NEW p, Measured
  PROVE  LET t == recordTransition(tracker, p)
         IN  /\ t.lastPhase = p
             /\ t.runningSince \in {tracker.runningSince, now, Never}
             /\ t.runningSince = Never \/ t.runningSince \in Nat
             /\ t.runningSince <= now
             /\ p = "Running" <=> t.runningSince # Never
             /\ tracker.lastPhase = p => t = tracker
<1> DEFINE t == recordTransition(tracker, p)
<1> USE Numbers
<1>1. CASE tracker.lastPhase = p
  BY <1>1 DEF recordTransition, Measured
<1>2. CASE tracker.lastPhase # p /\ p = "Running"
  <2>1. t.lastPhase = p /\ t.runningSince = now
    BY <1>2 DEF recordTransition
  <2> QED
    BY <1>2, <2>1 DEF Never
<1>3. CASE tracker.lastPhase # p /\ p # "Running"
  <2>1. t.lastPhase = p /\ t.runningSince = Never
    BY <1>3 DEF recordTransition
  <2> QED
    BY <1>3, <2>1 DEF Never
<1> QED
  BY <1>1, <1>2, <1>3

(* A handler begins to report only a runner that has been stuck enough.    *)
LEMMA StuckEnough ==
  ASSUME TypeOK, Measured, Ages, BeginStuck
  PROVE  /\ cache.phase = "Failed" => now - cache.created >= StuckThreshold
         /\ cache.phase = "Running" /\ cache.uid = 1 =>
              now - cache.created >= RunningThreshold
<1> DEFINE t == recordTransition(tracker, cache.phase)
<1> USE Numbers, RunnerWatchAssumption
<1>1. Exists(cache) /\ Left(cache, t) <= 0
  BY DEF BeginStuck
<1>2. CASE cache.phase = "Failed"
  <2>1. StuckThreshold - (now - cache.created) <= 0
    BY <1>1, <1>2 DEF Left, handleFailed
  <2> QED
    BY <1>2, <2>1
<1>3. CASE cache.phase = "Running" /\ cache.uid = 1
  <2>1. t.runningSince # Never /\ t.runningSince \in Nat
    BY <1>3, TransitionMeasures
  <2>2. RunningThreshold - (now - t.runningSince) <= 0
    BY <1>1, <1>3, <2>1 DEF Left, handleRunning
  <2>3. t.runningSince = now \/ t.runningSince = tracker.runningSince
    BY <2>1, TransitionMeasures
  <2>4. cache.created <= t.runningSince
    BY <1>1, <1>3, <2>1, <2>3 DEF Ages
  <2> HIDE DEF t
  <2> QED
    BY <1>3, <2>1, <2>2, <2>4
<1> QED
  BY <1>2, <1>3

(* A look at the cached runner keeps what is measured in order.            *)
LEMMA LookMeasures ==
  ASSUME TypeOK, Measured, Ages, Exists(cache),
         tracker' = recordTransition(tracker, cache.phase) \/ tracker' = tracker,
         UNCHANGED <<now, er, uids, cache>>
  PROVE  Measured' /\ Ages'
<1> USE Numbers
<1>1. /\ tracker'.runningSince \in {tracker.runningSince, now, Never}
      /\ tracker'.runningSince <= now
      /\ tracker'.lastPhase = "Running" <=> tracker'.runningSince # Never
  BY TransitionMeasures DEF Measured
<1>2. Measured'
  BY <1>1 DEF Measured
<1>3. uids # 0
  BY DEF Ages, Exists
<1>4. ASSUME NEW e \in {er, cache}, e.uid = 1, tracker'.runningSince # Never
      PROVE  e.created <= tracker'.runningSince
  <2>1. Exists(e)
    BY <1>4 DEF Exists, Gone
  <2>2. e.created <= now
    BY <2>1 DEF Ages
  <2> QED
    BY <1>1, <1>4, <2>2 DEF Ages
<1> QED
  BY <1>2, <1>3, <1>4 DEF Ages, Exists

(* A tracker made anew measures nothing.                                   *)
LEMMA NothingMeasured ==
  ASSUME TypeOK
  PROVE  /\ NoTracker.lastPhase = "" /\ NoTracker.runningSince = Never
         /\ Never <= now
BY Numbers DEF NoTracker, Never

(* At the start nothing is tracked and nothing reported.                   *)
LEMMA EarlyInvInit == TypeOK /\ Init => EarlyInv
<1> SUFFICES ASSUME TypeOK, Init PROVE EarlyInv
  OBVIOUS
<1>1. Measured /\ tracker.runningSince = Never
  BY NothingMeasured DEF Init, Measured
<1>2. Ages
  BY <1>1 DEF Init, Ages, Exists
<1>3. NotEarly
  BY DEF Init, NotEarly, NoInv
<1> QED
  BY <1>1, <1>2, <1>3 DEF Init, EarlyInv, HandlerSure

(* One step: the handler reports what BeginStuck found, and the clock      *)
(* stands still until it has.                                              *)
LEMMA EarlyInvNext ==
  ASSUME TypeOK, EarlyInv, [Next]_vars
  PROVE  EarlyInv'
<1> USE DEF world, queue, handler, report, process
<1>0. Measured /\ Ages /\ HandlerSure /\ NotEarly
  BY DEF EarlyInv
<1>1. CASE ReconcileNotFound
  <2>1. Measured' /\ tracker'.runningSince = Never
    BY <1>1, NothingMeasured DEF ReconcileNotFound, Measured
  <2>2. Ages'
    BY <1>0, <1>1, <2>1 DEF ReconcileNotFound, Ages
  <2> QED
    BY <1>0, <1>1, <2>1, <2>2
       DEF ReconcileNotFound, EarlyInv, HandlerSure, NotEarly
<1>2. CASE ReconcileNotStuck
  <2>1. Measured' /\ Ages'
    BY <1>0, <1>2, LookMeasures DEF ReconcileNotStuck
  <2> QED
    BY <1>0, <1>2, <2>1
       DEF ReconcileNotStuck, EarlyInv, HandlerSure, NotEarly
<1>3. CASE ReconcileExists
  <2>1. Measured' /\ Ages'
    BY <1>0, <1>3, LookMeasures DEF ReconcileExists, BeginStuck
  <2> QED
    BY <1>0, <1>3, <2>1 DEF ReconcileExists, EarlyInv, HandlerSure, NotEarly
<1>4. CASE ReconcileRefused
  <2>1. Measured' /\ Ages'
    BY <1>0, <1>4, LookMeasures DEF ReconcileRefused, BeginStuck
  <2> QED
    BY <1>0, <1>4, <2>1 DEF ReconcileRefused, EarlyInv, HandlerSure, NotEarly
<1>5. CASE ReconcileReserve
  <2>1. Measured' /\ Ages'
    BY <1>0, <1>5, LookMeasures DEF ReconcileReserve, BeginStuck
  <2>2. HandlerSure'
    BY <1>0, <1>5, StuckEnough DEF ReconcileReserve, HandlerSure
  <2> QED
    BY <1>0, <1>5, <2>1, <2>2 DEF ReconcileReserve, EarlyInv, NotEarly
<1>6. ASSUME UNCHANGED <<now, er, uids, cache, tracker>>
      PROVE  Measured' /\ Ages'
  BY <1>0, <1>6 DEF Measured, Ages
<1>8. ASSUME Created PROVE NotEarly'
  <2>1. /\ inv'.trigger = obj.phase /\ inv'.uid = obj.uid
        /\ inv'.created = obj.created /\ inv'.time = now
    BY <1>8 DEF Created
  <2> QED
    BY <1>0, <1>8, <2>1 DEF Created, HandlerSure, NotEarly
<1>9. CASE CreateOK
  BY <1>0, <1>6, <1>8, <1>9 DEF CreateOK, Created, EarlyInv, HandlerSure
<1>10. CASE CreateFails
  BY <1>0, <1>6, <1>10
     DEF CreateFails, Fail, Return, EarlyInv, HandlerSure, NotEarly
<1>11. CASE CreateReplyLost
  BY <1>0, <1>6, <1>8, <1>11
     DEF CreateReplyLost, Fail, Return, EarlyInv, HandlerSure
<1>12. CASE StatusOK
  <2>1. inv \in Investigations
    BY <1>12 DEF StatusOK, TypeOK
  <2>2. inv'.trigger = inv.trigger /\ inv'.uid = inv.uid
        /\ inv'.created = inv.created /\ inv'.time = inv.time
    BY <1>12, <2>1 DEF StatusOK, Investigations
  <2>3. NotEarly'
    BY <1>0, <2>2 DEF NotEarly
  <2> QED
    BY <1>0, <1>6, <1>12, <2>3
       DEF StatusOK, Succeed, Return, EarlyInv, HandlerSure
<1>13. CASE StatusFails
  BY <1>0, <1>6, <1>13
     DEF StatusFails, Fail, Return, EarlyInv, HandlerSure, NotEarly
<1>14. CASE RunnerCreated
  <2>1. er'.created = now /\ er'.uid = uids + 1 /\ uids' = uids + 1
    BY <1>14 DEF RunnerCreated
  <2>2. ASSUME er'.uid = 1 PROVE tracker.runningSince = Never
    <3>1. uids = 0
      BY <2>1, <2>2, Numbers
    <3> QED
      BY <1>0, <3>1 DEF Ages
  <2>3. uids' # 0 /\ er'.created <= now
    BY <2>1, Numbers
  <2>4. Ages'
    BY <1>0, <1>14, <2>2, <2>3 DEF RunnerCreated, Ages
  <2> QED
    BY <1>0, <1>14, <2>4
       DEF RunnerCreated, EarlyInv, Measured, HandlerSure, NotEarly
<1>15. CASE PhaseChange
  <2>1. er \in ERObjects /\ er # Gone
    BY <1>15 DEF PhaseChange, TypeOK, Exists
  <2>2. er'.created = er.created /\ er'.uid = er.uid
    BY <1>15, <2>1 DEF PhaseChange, ERObjects
  <2>3. Ages'
    BY <1>0, <1>15, <2>1, <2>2 DEF PhaseChange, Ages, Exists
  <2> QED
    BY <1>0, <1>15, <2>3
       DEF PhaseChange, EarlyInv, Measured, HandlerSure, NotEarly
<1>16. CASE RunnerDeleted
  <2>1. Ages'
    BY <1>0, <1>16 DEF RunnerDeleted, Ages, Exists, Gone
  <2> QED
    BY <1>0, <1>16, <2>1
       DEF RunnerDeleted, EarlyInv, Measured, HandlerSure, NotEarly
<1>17. CASE RunnerEvent
  <2>1. Ages'
    BY <1>0, <1>17 DEF RunnerEvent, Ages
  <2> QED
    BY <1>0, <1>17, <2>1
       DEF RunnerEvent, EarlyInv, Measured, HandlerSure, NotEarly
<1>18. CASE InvEvent
  BY <1>0, <1>6, <1>18 DEF InvEvent, EarlyInv, HandlerSure, NotEarly
<1>19. CASE TimerFires
  BY <1>0, <1>6, <1>19 DEF TimerFires, EarlyInv, HandlerSure, NotEarly
<1>20. CASE Resync
  BY <1>0, <1>6, <1>20 DEF Resync, EarlyInv, HandlerSure, NotEarly
<1>21. CASE Restart
  <2>1. Measured' /\ tracker'.runningSince = Never
    BY <1>21, NothingMeasured DEF Restart, Measured
  <2>2. Ages'
    BY <1>0, <1>21, <2>1 DEF Restart, Ages
  <2> QED
    BY <1>0, <1>21, <2>1, <2>2 DEF Restart, EarlyInv, HandlerSure, NotEarly
<1>22. CASE Tick
  <2>1. now <= now' /\ now' \in Nat
    BY <1>22, Numbers DEF Tick
  <2>2. Measured'
    BY <1>0, <1>22, <2>1, Numbers DEF Tick, Measured, Never
  <2>3. Ages'
    BY <1>0, <1>22, <2>1, Numbers DEF Tick, Ages
  <2> QED
    BY <1>0, <1>22, <2>2, <2>3 DEF Tick, EarlyInv, HandlerSure, NotEarly
<1>23. CASE UNCHANGED vars
  BY <1>0, <1>6, <1>23 DEF vars, EarlyInv, HandlerSure, NotEarly
<1> QED
  BY <1>1, <1>2, <1>3, <1>4, <1>5, <1>9, <1>10, <1>11, <1>12, <1>13, <1>14,
     <1>15, <1>16, <1>17, <1>18, <1>19, <1>20, <1>21, <1>22, <1>23
     DEF Next, Reconcile, Environment

(* No report is early, whatever thresholds, restarts and lost events       *)
(* (handleFailed, handleRunning, recordTransition).                        *)
THEOREM NoEarlyReport == Spec => []NotEarly
<1>1. EarlyInv => NotEarly
  BY DEF EarlyInv
<1> QED
  BY <1>1, EarlyInvInit, EarlyInvNext, TypeCorrect, PTL DEF Spec
------------------------------------------------------------------------------
(***************************************************************************)
(* No stuck runner is forgotten.                                           *)
(***************************************************************************)

(* Has the watcher recorded the phase?  A runner without one is passed by. *)
Looked(e) == Exists(e) /\ e.phase # "" => tracker.lastPhase = e.phase

(* What nobody asks to be looked at has been looked at; when time has      *)
(* passed since the last change or start, all of it has been seen; and the *)
(* phase Running is measured from when it began or the process did.        *)
Settled ==
  /\ since <= now /\ boot <= now
  /\ ~queued => Looked(cache)
  /\ now > Later(since, boot) => cache = er /\ Looked(er)
  /\ er.phase = "Running" /\ tracker.lastPhase = "Running" =>
       tracker.runningSince <= Later(since, boot)

(* A runner that may get stuck has a timer, no later than its deadline.    *)
ArmedFor(deadline) == due # Never /\ due <= deadline

Unreported == inv = NoInv /\ at = "idle" /\ ~refused /\ ~failing

Armed ==
  ~queued /\ Unreported =>
    /\ cache.phase = "Running" =>
         ArmedFor(tracker.runningSince + RunningThreshold)
    /\ cache.phase = "Failed" => ArmedFor(cache.created + StuckThreshold)

(* At its deadline there is an Investigation of the name, or one under way *)
(* or prevented; whose it is, Succession below tells.                      *)
InTime == Overdue => inv # NoInv \/ at = "create" \/ refused \/ failing

TimeInv == Measured /\ Settled /\ Armed /\ InTime

(* Later is the maximum.                                                   *)
LEMMA LaterBounds ==
  ASSUME NEW a \in Nat, NEW b \in Nat
  PROVE  /\ Later(a, b) \in Nat /\ Later(a, b) >= a /\ Later(a, b) >= b
         /\ \A c \in Nat : a <= c /\ b <= c => Later(a, b) <= c
BY DEF Later

(* When a runner is overdue, everything about it has been seen.            *)
LEMMA OverdueSettled ==
  ASSUME TypeOK, Measured, Settled, Overdue
  PROVE  /\ now > Later(since, boot) /\ cache = er /\ Exists(cache)
         /\ cache.phase \in {"Running", "Failed"}
         /\ tracker.lastPhase = cache.phase
         /\ Left(cache, tracker) < 0
<1> DEFINE start == Later(since, boot)
<1> USE Numbers, RunnerWatchAssumption
<1>0. since \in Nat /\ boot \in Nat /\ now \in Nat /\ er.created \in Nat
  OBVIOUS
<1>1. start \in Nat
  BY <1>0, LaterBounds
<1>2. er.phase \in {"Running", "Failed"} /\ Exists(er)
  BY DEF Overdue, Exists, Gone
<1>3. CASE er.phase = "Running"
  <2>1. now > start + RunningThreshold
    BY <1>3 DEF Overdue
  <2>2. now > start
    BY <1>0, <1>1, <2>1
  <2>3. cache = er /\ tracker.lastPhase = "Running"
    BY <1>2, <1>3, <2>2 DEF Settled, Looked
  <2>4. tracker.runningSince <= start /\ tracker.runningSince # Never
    BY <1>3, <2>3 DEF Settled, Measured
  <2>5. Left(cache, tracker) = RunningThreshold - (now - tracker.runningSince)
    BY <1>3, <2>3, <2>4 DEF Left, handleRunning
  <2>6. Left(cache, tracker) < 0
    BY <1>0, <1>1, <2>1, <2>4, <2>5
  <2> QED
    BY <1>2, <1>3, <2>2, <2>3, <2>6
<1>4. CASE er.phase = "Failed"
  <2>1. now > Later(Later(er.created + StuckThreshold, since), boot)
    BY <1>4 DEF Overdue
  <2>2. now > er.created + StuckThreshold /\ now > since /\ now > boot
    BY <1>0, <2>1 DEF Later
  <2>3. now > start
    BY <1>0, <2>2 DEF Later
  <2>4. cache = er /\ tracker.lastPhase = "Failed"
    BY <1>2, <1>4, <2>3 DEF Settled, Looked
  <2>5. Left(cache, tracker) = StuckThreshold - (now - er.created)
    BY <1>4, <2>4 DEF Left, handleFailed
  <2>6. Left(cache, tracker) < 0
    BY <1>0, <2>2, <2>5
  <2> QED
    BY <1>2, <1>4, <2>3, <2>4, <2>6
<1> QED
  BY <1>2, <1>3, <1>4

(* The times a handler compares are integers.                              *)
LEMMA Integral ==
  ASSUME TypeOK
  PROVE  tracker.runningSince \in Int /\ now \in Int /\ Never \in Int
<1>1. now \in Nat /\ (tracker.runningSince = Never \/ tracker.runningSince \in Nat)
  BY Numbers
<1>2. Never \in Int
  BY DEF Never
<1> QED
  BY <1>1, <1>2

(* What is not after b is not after c, if b is not.                        *)
LEMMA NotLater ==
  \A a, b \in Int, c \in Nat : a <= b /\ ~(b > c) => a <= c
OBVIOUS

(* A look at the cached runner settles it.                                 *)
LEMMA LookSettles ==
  ASSUME TypeOK, Measured, Settled, Exists(cache),
         \/ tracker' = recordTransition(tracker, cache.phase)
         \/ cache.phase = "" /\ tracker' = tracker,
         UNCHANGED <<now, er, since, boot, cache>>
  PROVE  Measured' /\ Settled' /\ Looked(cache)'
<1>1. /\ tracker'.runningSince \in {tracker.runningSince, now, Never}
      /\ tracker'.runningSince <= now
      /\ tracker'.lastPhase = "Running" <=> tracker'.runningSince # Never
      /\ tracker'.lastPhase = tracker.lastPhase => tracker' = tracker
      /\ cache.phase # "" => tracker'.lastPhase = cache.phase
  BY TransitionMeasures, Integral DEF Measured
<1>2. Measured'
  BY <1>1 DEF Measured
<1>3. Looked(cache)'
  BY <1>1 DEF Looked
<1>4. now > Later(since, boot) => cache = er /\ Looked(er)'
  BY <1>3 DEF Settled, Looked
<1>5. ASSUME er.phase = "Running", tracker'.lastPhase = "Running"
      PROVE  tracker'.runningSince <= Later(since, boot)
  <2>1. CASE now > Later(since, boot)
    <3>1. tracker.lastPhase = "Running"
      BY <1>5, <2>1 DEF Settled, Looked, Exists
    <3> QED
      BY <1>1, <1>5, <3>1 DEF Settled
  <2>2. CASE ~(now > Later(since, boot))
    <3>1. Later(since, boot) \in Nat
      BY LaterBounds, Numbers
    <3>2. tracker'.runningSince \in {tracker.runningSince, now, Never}
          /\ tracker'.runningSince <= now
      BY <1>1
    <3>3. tracker.runningSince \in Int /\ now \in Int /\ Never \in Int
      BY Integral
    <3>4. tracker'.runningSince \in Int
      BY <3>2, <3>3
    <3> QED
      BY <2>2, <3>1, <3>2, <3>3, <3>4, NotLater
  <2> QED
    BY <2>1, <2>2
<1> QED
  BY <1>2, <1>3, <1>4, <1>5 DEF Settled

(* At the start nothing is due, and nothing has been for long.             *)
LEMMA TimeInvInit == TypeOK /\ Init => TimeInv
<1> SUFFICES ASSUME TypeOK, Init PROVE TimeInv
  OBVIOUS
<1>1. Measured
  BY NothingMeasured DEF Init, Measured
<1>2. er.phase = "gone" /\ cache.phase = "gone"
  BY DEF Init, Gone
<1>3. Settled
  BY <1>2 DEF Init, Settled, Looked, Exists, Later
<1> QED
  BY <1>1, <1>2, <1>3 DEF Init, TimeInv, Armed, InTime, Overdue

(* A handler that finds the runner stuck leaves no one waiting for it.     *)
LEMMA StuckSettles ==
  ASSUME TypeOK, Measured, Settled, BeginStuck,
         UNCHANGED <<now, er, since, boot, cache, inv>>,
         inv # NoInv \/ refused' \/ at' = "create"
  PROVE  TimeInv'
<1>1. Measured' /\ Settled'
  BY LookSettles DEF BeginStuck
<1> QED
  BY <1>1 DEF TimeInv, Armed, Unreported, InTime

(* AddAfter sets a timer for the time asked for, or keeps an earlier one.  *)
LEMMA EarlierTimer ==
  \A a \in Nat \cup {Never}, b \in Nat :
    LET m == IF a = Never \/ b < a THEN b ELSE a
    IN  m # Never /\ m <= b /\ m \in Int
BY DEF Never

(* The requeue of a runner that is not stuck yet is its deadline.          *)
LEMMA RequeueArms ==
  ASSUME TypeOK, Exists(cache), Measured,
         tracker' = recordTransition(tracker, cache.phase),
         Left(cache, tracker') > 0, RequeueAfter(Left(cache, tracker'))
  PROVE  /\ cache.phase = "Running" =>
              due' # Never /\ due' <= tracker'.runningSince + RunningThreshold
         /\ cache.phase = "Failed" =>
              due' # Never /\ due' <= cache.created + StuckThreshold
<1> DEFINE t == recordTransition(tracker, cache.phase)
           d == Left(cache, t)
<1>1. t \in Trackers
  BY TransitionType DEF TypeOK, ERObjects, Exists
<1>2. d \in Int /\ now + d \in Dues /\ d > 0
  BY <1>1, LeftType
<1>3. now \in Nat /\ cache.created \in Nat
  BY Numbers
<1>4. due' = IF due = Never \/ now + d < due THEN now + d ELSE due
  BY DEF RequeueAfter
<1>5. due = Never \/ due \in Nat
  BY Numbers
<1>6. due' # Never /\ due' <= now + d /\ due' \in Int
  <2> HIDE DEF d
  <2>1. now + d \in Nat
    BY <1>2, <1>3
  <2> QED
    BY <1>4, <1>5, <2>1, EarlierTimer
<1>7. CASE cache.phase = "Running"
  <2>1. t.runningSince # Never /\ t.runningSince \in Nat
    BY <1>7, TransitionMeasures
  <2>2. d = RunningThreshold - (now - t.runningSince)
    BY <1>7, <2>1 DEF Left, handleRunning
  <2>3. now + d = t.runningSince + RunningThreshold
    BY <1>3, <2>1, <2>2, RunnerWatchAssumption
  <2> QED
    BY <1>6, <1>7, <2>3
<1>8. CASE cache.phase = "Failed"
  <2>1. d = StuckThreshold - (now - cache.created)
    BY <1>8 DEF Left, handleFailed
  <2>2. now + d = cache.created + StuckThreshold
    BY <1>3, <2>1, RunnerWatchAssumption
  <2> QED
    BY <1>6, <1>8, <2>2
<1> QED
  BY <1>7, <1>8

(* A change of the runner or a start of the process begins the time anew.  *)
LEMMA Anew ==
  ASSUME TypeOK, NEW s \in Nat, NEW b \in Nat, s <= now, b <= now,
         s = now \/ b = now
  PROVE  Later(s, b) = now
BY Numbers DEF Later

(* The clock only moves while the timer of an unreported runner waits, and *)
(* so makes none overdue.                                                  *)
LEMMA TickInTime ==
  ASSUME TypeOK, TypeOK', Measured, Settled, Armed, Unreported, Tick
  PROVE  ~Overdue'
<1> SUFFICES ASSUME Overdue' PROVE FALSE
  OBVIOUS
<1> USE DEF world, queue, handler, report, process
<1>1. cache = er /\ ~queued /\ ~Elapsed
  BY DEF Tick
<1>2. /\ now' = IF now < MaxTime THEN now + 1 ELSE now
      /\ er' = er /\ since' = since /\ boot' = boot
  BY DEF Tick
<1>3. /\ now \in Nat /\ since \in Nat /\ boot \in Nat /\ er.created \in Nat
      /\ due = Never \/ due \in Nat
      /\ tracker.runningSince = Never \/ tracker.runningSince \in Nat
  BY Numbers
<1>4. now' <= now + 1 /\ now' \in Nat
  BY <1>2, <1>3
<1>5. Later(since, boot) \in Nat
  BY <1>3, LaterBounds
<1>6. ASSUME due # Never PROVE now' <= due
  <2>1. ~(due <= now)
    BY <1>1, <1>6 DEF Elapsed
  <2> QED
    BY <1>3, <1>4, <1>6, <2>1
<1>7. CASE er.phase = "Running"
  <2>1. now' > Later(since, boot) + RunningThreshold
    BY <1>2, <1>7 DEF Overdue
  <2>2. tracker.lastPhase = "Running"
    BY <1>1, <1>7 DEF Settled, Looked, Exists, Gone
  <2>3. tracker.runningSince <= Later(since, boot) /\ tracker.runningSince # Never
    BY <1>7, <2>2 DEF Settled, Measured
  <2>4. due # Never /\ due <= tracker.runningSince + RunningThreshold
    BY <1>1, <1>7 DEF Armed, ArmedFor
  <2>5. now' <= due
    BY <1>6, <2>4
  <2> QED
    BY <1>3, <1>4, <1>5, <2>1, <2>3, <2>4, <2>5, RunnerWatchAssumption
<1>8. CASE er.phase = "Failed"
  <2>1. now' > Later(Later(er.created + StuckThreshold, since), boot)
    BY <1>2, <1>8 DEF Overdue
  <2>2. now' > er.created + StuckThreshold
    BY <1>3, <1>4, <2>1, RunnerWatchAssumption DEF Later
  <2>3. due # Never /\ due <= er.created + StuckThreshold
    BY <1>1, <1>8 DEF Armed, ArmedFor
  <2>4. now' <= due
    BY <1>6, <2>3
  <2> QED
    BY <1>3, <1>4, <2>2, <2>3, <2>4, RunnerWatchAssumption
<1> QED
  BY <1>2, <1>7, <1>8 DEF Overdue

(* One step: only the clock makes a runner overdue, and the look at an     *)
(* overdue runner reports it or is refused.                                *)
LEMMA TimeInvNext ==
  ASSUME TypeOK, TypeOK', TimeInv, [Next]_vars
  PROVE  TimeInv'
<1> USE DEF world, queue, handler, report, process
<1>0. Measured /\ Settled /\ Armed /\ InTime
  BY DEF TimeInv
<1>1. CASE ReconcileNotFound
  <2>1. Measured' /\ tracker'.lastPhase = ""
    BY <1>1, NothingMeasured DEF ReconcileNotFound, Measured
  <2>2. ~Exists(cache) /\ cache.phase = "gone"
    BY <1>1 DEF ReconcileNotFound, Exists, Gone
  <2>3. Settled'
    BY <1>0, <1>1, <2>1, <2>2
       DEF ReconcileNotFound, Settled, Looked, Exists
  <2>4. ~Overdue
    BY <1>0, <2>2, OverdueSettled
  <2> QED
    BY <1>1, <2>1, <2>2, <2>3, <2>4
       DEF ReconcileNotFound, TimeInv, Armed, InTime, Overdue
<1>2. CASE ReconcileNotStuck
  <2>1. Measured' /\ Settled'
    BY <1>0, <1>2, LookSettles DEF ReconcileNotStuck
  <2>2. ~Overdue
    <3> SUFFICES ASSUME Overdue PROVE FALSE
      OBVIOUS
    <3>1. /\ cache.phase \in {"Running", "Failed"}
          /\ tracker.lastPhase = cache.phase /\ Left(cache, tracker) < 0
      BY <1>0, OverdueSettled
    <3>2. recordTransition(tracker, cache.phase) = tracker
      BY <3>1 DEF recordTransition
    <3>3. Left(cache, tracker) > 0 /\ Exists(cache)
      BY <1>2, <3>1, <3>2 DEF ReconcileNotStuck
    <3>4. Left(cache, tracker) \in Int
      BY <3>3, LeftType DEF TypeOK
    <3> QED
      BY <3>1, <3>3, <3>4
  <2>3. ASSUME cache.phase \in {"Running", "Failed"}
        PROVE  /\ tracker' = recordTransition(tracker, cache.phase)
               /\ Left(cache, tracker') > 0
               /\ RequeueAfter(Left(cache, tracker'))
    BY <1>2, <2>3 DEF ReconcileNotStuck
  <2>4. Armed'
    BY <1>0, <1>2, <2>3, RequeueArms DEF ReconcileNotStuck, Armed, ArmedFor
  <2> QED
    BY <1>2, <2>1, <2>2, <2>4 DEF ReconcileNotStuck, TimeInv, InTime, Overdue
<1>3. CASE ReconcileExists
  BY <1>0, <1>3, StuckSettles DEF ReconcileExists, TypeOK
<1>4. CASE ReconcileRefused
  BY <1>0, <1>4, StuckSettles DEF ReconcileRefused
<1>5. CASE ReconcileReserve
  BY <1>0, <1>5, StuckSettles DEF ReconcileReserve
<1>6. ASSUME UNCHANGED <<now, er, since, boot, cache, tracker>>,
             queued => queued',
             \/ inv' # NoInv \/ failing' \/ queued'
             \/ Unreported' => ~queued /\ Unreported /\ UNCHANGED due,
             \/ inv' # NoInv \/ failing'
             \/ UNCHANGED <<inv, at, refused, failing>>
      PROVE  TimeInv'
  <2>0. ~queued' => Looked(cache)'
    BY <1>0, <1>6 DEF Settled, Looked
  <2>1. Measured' /\ Settled'
    BY <1>0, <1>6, <2>0 DEF Measured, Settled, Looked
  <2>2. Armed'
    BY <1>0, <1>6 DEF Armed, ArmedFor, Unreported
  <2>3. InTime'
    BY <1>0, <1>6 DEF InTime, Overdue
  <2> QED
    BY <2>1, <2>2, <2>3 DEF TimeInv
<1>7. ASSUME Created PROVE inv' # NoInv
  <2>1. inv'.trigger \in {"Running", "Failed"}
    BY <1>7 DEF Created, TypeOK
  <2>2. NoInv.trigger \notin {"Running", "Failed"}
    BY DEF NoInv
  <2> QED
    BY <2>1, <2>2
<1>8. CASE CreateOK
  BY <1>6, <1>7, <1>8 DEF CreateOK
<1>9. CASE CreateFails
  BY <1>6, <1>9 DEF CreateFails, Fail, Return
<1>10. CASE CreateReplyLost
  BY <1>6, <1>7, <1>10 DEF CreateReplyLost, Fail, Return
<1>11. CASE StatusOK
  <2>1. inv # NoInv
    BY <1>11 DEF StatusOK, TypeOK
  <2>2. inv' # NoInv
    BY <1>11, <2>1, NoInvApart DEF StatusOK, TypeOK, Investigations
  <2> QED
    BY <1>6, <1>11, <2>2 DEF StatusOK, Succeed, Return
<1>12. CASE StatusFails
  BY <1>6, <1>12 DEF StatusFails, Fail, Return
<1>13. CASE InvEvent
  BY <1>6, <1>13 DEF InvEvent
<1>14. CASE TimerFires
  BY <1>6, <1>14 DEF TimerFires
<1>15. CASE Resync
  BY <1>6, <1>15 DEF Resync
<1>16. CASE UNCHANGED vars
  <2>1. Measured' /\ Settled' /\ Armed' /\ InTime'
    BY <1>0, <1>16 DEF vars, Measured, Settled, Looked, Armed, ArmedFor,
                       Unreported, InTime, Overdue
  <2> QED
    BY <2>1 DEF TimeInv
<1>17. ASSUME UNCHANGED <<now, boot, cache, queue, tracker, handler, report>>,
              since' = now
       PROVE  TimeInv'
  <2>1. since' \in Nat /\ boot \in Nat /\ now \in Nat
    BY <1>17, Numbers
  <2>2. since' <= now /\ boot' <= now /\ Later(since', boot') = now
    BY <1>0, <1>17, <2>1, Anew DEF Settled
  <2>3. ~Overdue'
    <3>1. ~(now > now + RunningThreshold)
      BY <2>1, RunnerWatchAssumption
    <3>2. er'.created \in Nat
      BY RunnerNumbers DEF TypeOK
    <3>3. ~(now > Later(Later(er'.created + StuckThreshold, now), boot))
      BY <2>1, <3>2, RunnerWatchAssumption DEF Later
    <3> QED
      BY <1>17, <2>2, <3>1, <3>3 DEF Overdue
  <2>4. ~(now > now)
    BY <2>1
  <2>5. Settled'
    BY <1>0, <1>17, <2>2, <2>4 DEF Settled, Looked, Measured
  <2> QED
    BY <1>0, <1>17, <2>3, <2>5
       DEF TimeInv, Measured, Armed, ArmedFor, Unreported, InTime
<1>18. CASE RunnerCreated \/ PhaseChange \/ RunnerDeleted
  BY <1>17, <1>18 DEF RunnerCreated, PhaseChange, RunnerDeleted
<1>19. CASE RunnerEvent
  <2>1. ~(now > Later(since, boot)) /\ ~Overdue
    BY <1>0, <1>19, OverdueSettled DEF RunnerEvent, Settled
  <2>2. queued'
    BY <1>19 DEF RunnerEvent
  <2>3. Settled'
    BY <1>0, <1>19, <2>1, <2>2 DEF RunnerEvent, Settled
  <2> QED
    BY <1>0, <1>19, <2>1, <2>2, <2>3
       DEF RunnerEvent, TimeInv, Measured, Armed, InTime, Overdue
<1>20. CASE Restart
  <2>1. boot' \in Nat /\ since \in Nat /\ now \in Nat
    BY <1>20, Numbers DEF Restart
  <2>2. boot' <= now /\ since' <= now /\ Later(since', boot') = now
    BY <1>0, <1>20, <2>1, Anew DEF Settled, Restart
  <2>3. ~Overdue'
    <3>1. ~(now > now + RunningThreshold)
      BY <2>1, RunnerWatchAssumption
    <3>2. er.created \in Nat
      BY Numbers
    <3>3. ~(now > Later(Later(er.created + StuckThreshold, since), now))
      BY <2>1, <3>2, RunnerWatchAssumption DEF Later
    <3> QED
      BY <1>20, <2>2, <3>1, <3>3 DEF Restart, Overdue
  <2>4. Measured' /\ tracker'.lastPhase = ""
    BY <1>20, NothingMeasured DEF Restart, Measured
  <2>a. ~(now > now)
    BY <2>1
  <2>5. ~queued' => ~Exists(cache')
    BY <1>20 DEF Restart
  <2>6. Settled'
    BY <1>20, <2>2, <2>4, <2>a, <2>5 DEF Restart, Settled, Looked
  <2>7. Armed'
    BY <2>5 DEF Armed, Exists, Gone
  <2> QED
    BY <2>3, <2>4, <2>6, <2>7 DEF TimeInv, InTime
<1>21. CASE Tick
  <2>1. now <= now' /\ now' \in Nat
    BY <1>21, Numbers DEF Tick
  <2>2. Measured'
    BY <1>0, <1>21, <2>1, Integral DEF Tick, Measured
  <2>3. since' <= now' /\ boot' <= now'
    BY <1>0, <1>21, <2>1, Numbers DEF Tick, Settled
  <2>4. Settled'
    BY <1>0, <1>21, <2>3 DEF Tick, Settled, Looked
  <2>5. Armed'
    BY <1>0, <1>21 DEF Tick, Armed, ArmedFor, Unreported
  <2>6. InTime'
    <3>1. CASE Unreported
      BY <1>0, <1>21, <3>1, TickInTime DEF InTime
    <3>2. CASE ~Unreported
      BY <1>21, <3>2 DEF Tick, Unreported, InTime
    <3> QED
      BY <3>1, <3>2
  <2> QED
    BY <2>2, <2>4, <2>5, <2>6 DEF TimeInv
<1> QED
  BY <1>1, <1>2, <1>3, <1>4, <1>5, <1>8, <1>9, <1>10, <1>11, <1>12, <1>13,
     <1>14, <1>15, <1>16, <1>18, <1>19, <1>20, <1>21
     DEF Next, Reconcile, Environment

------------------------------------------------------------------------------
(***************************************************************************)
(* Whom a report is about.                                                 *)
(***************************************************************************)

(* The runner that exists is the latest of the name, nothing known of is   *)
(* later, and a handler that has been overtaken by another runner is so    *)
(* since the last change only: the clock waits for it.                     *)
Succession ==
  /\ Exists(er) => er.uid = uids
  /\ cache.uid <= uids /\ obj.uid <= uids /\ inv.uid <= uids
  /\ at # "idle" /\ now > Later(since, boot) => obj.uid = er.uid

(* Only a handler that starts, a runner that appears and Create move it.   *)
LEMMA SuccessionNext ==
  ASSUME TypeOK, TypeOK', TimeInv, Succession, [Next]_vars
  PROVE  Succession'
<1> USE Numbers, RunnerWatchAssumption DEF world, queue, handler, report, process
<1>1. CASE \/ ReconcileNotFound \/ ReconcileNotStuck \/ ReconcileExists
           \/ ReconcileRefused \/ InvEvent \/ TimerFires \/ Resync
           \/ UNCHANGED vars
  <2>1. UNCHANGED <<now, er, uids, since, cache, at, obj, inv, boot>>
    BY <1>1 DEF ReconcileNotFound, ReconcileNotStuck, ReconcileExists,
         ReconcileRefused, InvEvent, TimerFires, Resync, vars
  <2> QED
    BY <2>1 DEF Succession
<1>2. CASE ReconcileReserve
  <2>1. /\ UNCHANGED <<now, er, uids, since, cache, inv, boot>>
        /\ obj' = cache
    BY <1>2 DEF ReconcileReserve
  <2>2. now > Later(since, boot) => cache = er
    BY DEF TimeInv, Settled
  <2> QED
    BY <2>1, <2>2 DEF Succession
<1>3. CASE CreateOK
  <2>1. /\ UNCHANGED <<now, er, uids, since, cache, obj, boot>>
        /\ at # "idle" /\ inv'.uid = obj.uid
    BY <1>3 DEF CreateOK, Created
  <2> QED
    BY <2>1 DEF Succession
<1>4. CASE CreateFails \/ StatusFails
  <2>1. /\ UNCHANGED <<now, er, uids, since, cache, inv, boot>>
        /\ at' = "idle" /\ obj'.uid = 0
    BY <1>4 DEF CreateFails, StatusFails, Fail, Return, Gone
  <2> QED
    BY <2>1 DEF Succession
<1>5. CASE CreateReplyLost
  <2>1. /\ UNCHANGED <<now, er, uids, since, cache, boot>>
        /\ inv'.uid = obj.uid /\ at' = "idle" /\ obj'.uid = 0
    BY <1>5 DEF CreateReplyLost, Created, Fail, Return, Gone
  <2> QED
    BY <2>1 DEF Succession
<1>6. CASE StatusOK
  <2>1. inv \in Investigations
    BY <1>6 DEF StatusOK, TypeOK
  <2>2. /\ UNCHANGED <<now, er, uids, since, cache, boot>>
        /\ inv'.uid = inv.uid /\ at' = "idle" /\ obj'.uid = 0
    BY <1>6, <2>1 DEF StatusOK, Succeed, Return, Gone, Investigations
  <2> QED
    BY <2>2 DEF Succession
<1>7. since \in Nat /\ boot \in Nat /\ now \in Nat /\ since <= now /\ boot <= now
  BY DEF TimeInv, Settled
<1>8. CASE RunnerCreated
  <2>1. /\ UNCHANGED <<now, cache, obj, inv, at, boot>>
        /\ er'.uid = uids' /\ uids' = uids + 1 /\ since' = now
    BY <1>8 DEF RunnerCreated
  <2>2. /\ cache.uid \in Nat /\ obj.uid \in Nat /\ uids \in Nat
        /\ cache.uid <= uids /\ obj.uid <= uids /\ inv.uid <= uids
    BY DEF Succession
  <2>3. inv.uid \in Nat
    <3>1. NoInv.uid \in Nat
      BY DEF NoInv
    <3>2. inv \in Investigations => inv.uid \in 1..MaxRunners
      BY DEF Investigations
    <3> QED
      BY <3>1, <3>2 DEF TypeOK
  <2>4. ~(now > Later(now, boot))
    BY <1>7 DEF Later
  <2>5. cache.uid <= uids' /\ obj.uid <= uids' /\ inv.uid <= uids'
    BY <2>1, <2>2, <2>3
  <2> QED
    BY <2>1, <2>4, <2>5 DEF Succession
<1>9. CASE PhaseChange \/ RunnerDeleted
  <2>1. /\ UNCHANGED <<now, uids, cache, obj, inv, at, boot>> /\ since' = now
    BY <1>9 DEF PhaseChange, RunnerDeleted
  <2>2. Exists(er') => er'.uid = er.uid /\ Exists(er)
    <3>1. CASE PhaseChange
      <4>1. er \in ERObjects /\ er # Gone
        BY <3>1 DEF PhaseChange, TypeOK, Exists
      <4> QED
        BY <3>1, <4>1 DEF PhaseChange, ERObjects, Exists
    <3>2. CASE RunnerDeleted
      BY <3>2 DEF RunnerDeleted, Exists
    <3> QED
      BY <1>9, <3>1, <3>2
  <2>3. ~(now > Later(now, boot))
    BY <1>7 DEF Later
  <2> QED
    BY <2>1, <2>2, <2>3 DEF Succession, Exists
<1>10. CASE RunnerEvent
  <2>1. /\ UNCHANGED <<now, er, uids, since, obj, inv, at, boot>> /\ cache' = er
    BY <1>10 DEF RunnerEvent
  <2>2. er.uid <= uids
    BY DEF Succession, Exists, Gone
  <2> QED
    BY <2>1, <2>2 DEF Succession
<1>11. CASE Restart
  <2>1. /\ UNCHANGED <<now, er, uids, since, inv>> /\ cache' = er
        /\ at' = "idle" /\ obj'.uid = 0
    BY <1>11 DEF Restart, Gone
  <2>2. er.uid <= uids
    BY DEF Succession, Exists, Gone
  <2> QED
    BY <2>1, <2>2 DEF Succession
<1>12. CASE Tick
  <2>1. UNCHANGED <<er, uids, cache, obj, inv, at>> /\ at = "idle"
    BY <1>12 DEF Tick
  <2> QED
    BY <2>1 DEF Succession
<1> QED
  BY <1>1, <1>2, <1>3, <1>4, <1>5, <1>6, <1>8, <1>9, <1>10, <1>11, <1>12
     DEF Next, Reconcile, Environment

(* A stuck runner is reported when its threshold has passed, itself and    *)
(* not one that had its name before, unless the Investigation of such a    *)
(* runner holds the name, the counter refuses or the API server fails: no  *)
(* event, timer or restart can make the watcher forget it (handleFailed,   *)
(* handleRunning, Reconcile).                                              *)
THEOREM ReportedInTime == Spec => []OnTime
<1>1. TypeOK /\ Init => Succession
  <2>1. Gone.uid = 0 /\ NoInv.uid = 0
    BY DEF Gone, NoInv
  <2> QED
    BY <2>1 DEF Init, Succession, Exists
<1>2. TypeOK /\ TimeInv /\ Succession => OnTime
  <2> SUFFICES ASSUME TypeOK, TimeInv, Succession, Overdue
               PROVE  \/ Reported \/ (at = "create" /\ obj.uid = er.uid)
                      \/ NameTaken \/ refused \/ failing
    BY DEF OnTime
  <2>1. now > Later(since, boot) /\ Exists(er)
    BY OverdueSettled DEF TimeInv
  <2>2. inv # NoInv \/ at = "create" \/ refused \/ failing
    BY DEF TimeInv, InTime
  <2>3. at = "create" => obj.uid = er.uid
    BY <2>1 DEF Succession
  <2>4. ASSUME inv # NoInv PROVE inv.uid = er.uid \/ inv.uid < er.uid
    <3>1. inv.uid \in Nat /\ er.uid \in Nat
      <4>1. inv.uid \in 1..MaxRunners
        BY <2>4 DEF TypeOK, Investigations
      <4> QED
        BY <4>1, Numbers, RunnerWatchAssumption
    <3>2. inv.uid <= er.uid
      BY <2>1 DEF Succession
    <3> QED
      BY <3>1, <3>2
  <2> QED
    BY <2>2, <2>3, <2>4 DEF Reported, NameTaken
<1> QED
  BY <1>1, <1>2, TimeInvInit, TimeInvNext, SuccessionNext, TypeCorrect, PTL
     DEF Spec
==============================================================================
