---------------------------- MODULE PollingProofs ----------------------------
(***************************************************************************)
(* Proofs about GitHubPoller and the rate limit tracker it shares with the *)
(* Correlator.                                                             *)
(***************************************************************************)
EXTENDS Polling, TLAPS

USE QuotaAssumption, PollingAssumption

(* A request takes at most one from what is left.                          *)
LEMMA SpentInWindow == left \in 0..Quota => Spent \in 0..Quota
BY DEF Spent

(* Requests, with or without a response, keep quota and tracker in range.  *)
LEMMA RequestKeepsRange ==
  ASSUME left \in 0..Quota, remaining \in {Unknown} \cup 0..Quota,
         doGetOK \/ doGetFails
  PROVE  left' \in 0..Quota /\ remaining' \in {Unknown} \cup 0..Quota
BY SpentInWindow DEF doGetOK, doGetFails, doGetRejected, doGetLost, Update

(* The next query is a query, or the poll is over.                         *)
LEMMA NextQueryType ==
  ASSUME query \in Queries, NextQuery
  PROVE  query' \in Queries /\ at' \in {"list", "idle"}
BY DEF NextQuery, Queries

(* The first state has the type.                                           *)
LEMMA TypeInit == Init => TypeOK
BY DEF Init, TypeOK, ClientInit, Queries, None

(* Every step keeps the type.  That inv[job] exists once Create succeeded  *)
(* rests on no one else writing the Investigation, that a job is there to  *)
(* be created on Restart going back to "idle".                             *)
LEMMA TypeStep == TypeOK /\ [Next]_vars => TypeOK'
<1> SUFFICES ASSUME TypeOK, [Next]_vars PROVE TypeOK'
  OBVIOUS
<1> USE DEF TypeOK, client, github, poll, reports
<1>1. CASE PollStart
  BY <1>1 DEF PollStart, Queries
<1>2. CASE ListRuns
  <2>1. Page(query) \subseteq Runs
    BY DEF Page, Matching
  <2>2. left' \in 0..Quota /\ remaining' \in {Unknown} \cup 0..Quota
    BY <1>2, RequestKeepsRange DEF ListRuns
  <2> QED BY <1>2, <2>1, <2>2 DEF ListRuns
<1>3. CASE ListRunsFails
  <2>1. left' \in 0..Quota /\ remaining' \in {Unknown} \cup 0..Quota
    BY <1>3, RequestKeepsRange DEF ListRunsFails
  <2> QED BY <1>3, <2>1, NextQueryType DEF ListRunsFails
<1>4. CASE RunsDone
  BY <1>4, NextQueryType DEF RunsDone
<1>5. CASE ListJobs
  <2>1. left' \in 0..Quota /\ remaining' \in {Unknown} \cup 0..Quota
    BY <1>5, RequestKeepsRange DEF ListJobs
  <2> QED BY <1>5, <2>1 DEF ListJobs, JobPage, JobsOf
<1>6. CASE ListJobsFails
  <2>1. left' \in 0..Quota /\ remaining' \in {Unknown} \cup 0..Quota
    BY <1>6, RequestKeepsRange DEF ListJobsFails
  <2> QED BY <1>6, <2>1 DEF ListJobsFails
<1>7. CASE JobsDone
  BY <1>7 DEF JobsDone
<1>8. CASE CheckNothing
  BY <1>8 DEF CheckNothing
<1>9. ASSUME NEW j \in Jobs, CheckReserve(j) PROVE TypeOK'
  BY <1>9 DEF CheckReserve, StuckQueued, None
<1>10. CASE CreateOK
  BY <1>10 DEF CreateOK
<1>11. CASE CreateFails
  BY <1>11 DEF CreateFails, Return
<1>12. CASE StatusUpdate
  BY <1>12 DEF StatusUpdate, Return
<1>13. CASE JobMoves
  BY <1>13 DEF JobMoves
<1>14. CASE JobAges
  BY <1>14 DEF JobAges
<1>15. CASE QuotaReset
  BY <1>15 DEF QuotaReset, WindowResets
<1>16. CASE CorrelatorAsks
  BY <1>16, SpentInWindow DEF CorrelatorAsks
<1>17. CASE CorrelatorHears
  BY <1>17 DEF CorrelatorHears, Update
<1>18. CASE InvEvent
  BY <1>18 DEF InvEvent
<1>19. CASE Restart
  BY <1>19 DEF Restart, Queries
<1>20. CASE UNCHANGED vars
  BY <1>20 DEF vars
<1> QED
  BY <1>1, <1>2, <1>3, <1>4, <1>5, <1>6, <1>7, <1>8, <1>9, <1>10, <1>11,
     <1>12, <1>13, <1>14, <1>15, <1>16, <1>17, <1>18, <1>19, <1>20
     DEF Next, Poll, Environment

(* The state keeps its shape under every interleaving of the poll, of the  *)
(* Correlator's requests on the same client and of restarts: the tracker   *)
(* never shows more than the quota, a job being reported has a started_at, *)
(* and a status is written only to an Investigation that exists            *)
(* (createJobInvestigation).                                               *)
THEOREM TypeCorrect == Spec => []TypeOK
BY TypeInit, TypeStep, PTL DEF Spec
-----------------------------------------------------------------------------
(***************************************************************************)
(* Backing off.                                                            *)
(***************************************************************************)
Resting == at = "idle" /\ ShouldBackoff

(* Nobody else tells the tracker anything: the Correlator hears nothing    *)
(* from GitHub, and the process lives on.                                  *)
Silence == [][~CorrelatorHears /\ ~Restart]_vars

(* The poll that would update the tracker waits for the tracker.           *)
LEMMA RestingStep ==
  ASSUME Resting, [Next]_vars, [~CorrelatorHears /\ ~Restart]_vars
  PROVE  Resting'
<1>1. CASE UNCHANGED vars
  BY <1>1 DEF Resting, ShouldBackoff, vars, client, poll
<1>2. CASE Poll
  BY <1>2 DEF Resting, Poll, PollStart, ListRuns, ListRunsFails, RunsDone,
              ListJobs, ListJobsFails, JobsDone, CheckNothing, CheckReserve,
              CreateOK, CreateFails, StatusUpdate
<1>3. CASE JobMoves \/ JobAges \/ InvEvent
  BY <1>3 DEF JobMoves, JobAges, InvEvent, Resting, ShouldBackoff, client, poll
<1>4. CASE QuotaReset \/ CorrelatorAsks
  BY <1>4 DEF QuotaReset, WindowResets, CorrelatorAsks, Resting,
              ShouldBackoff, poll
<1>5. CASE CorrelatorHears \/ Restart
  BY <1>1, <1>5
<1> QED
  BY <1>1, <1>2, <1>3, <1>4, <1>5 DEF Next, Environment

(* Once ShouldBackoff holds between two polls it holds for ever, whatever  *)
(* the quota, the threshold and the resets of the quota, as long as the    *)
(* Correlator hears nothing and the process is not restarted: poll asks    *)
(* IsRateLimited first, and only the response to a request changes         *)
(* remaining.  What the run backoff shows for one instance is thus no      *)
(* effect of its bounds.                                                   *)
THEOREM BackoffIsForever ==
  Spec /\ Silence => [](Resting => []ShouldBackoff)
<1>1. Resting => ShouldBackoff
  BY DEF Resting
<1> QED
  BY <1>1, RestingStep, PTL DEF Spec, Silence
=============================================================================
