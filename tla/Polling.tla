------------------------------- MODULE Polling -------------------------------
(***************************************************************************)
(* GitHubPoller: every interval it asks GitHub for the runs in progress    *)
(* and the queued runs of each repository, then for the jobs of each run,  *)
(* and reports the jobs that have been queued for too long.  It keeps no   *)
(* state between polls; an error ends no more than the part of the poll it *)
(* happens in.  The Correlator uses the same client at the same time.      *)
(***************************************************************************)
EXTENDS GitHubClient, Sequences, FiniteSetsExt

CONSTANTS
  Repos,          \* the repositories of the DetectiveConfigs, in order
  Runs,           \* workflow runs, by number: the newest has the largest
  RepoOf,         \* the repository of a run
  Jobs, RunOf,    \* jobs and their runs
  Position,       \* of a job in GitHub's list of the jobs of its run
  Dated,          \* the jobs for which GitHub sends started_at
  PageSize,       \* runs in one response of ListWorkflowRuns
  JobPageSize,    \* jobs in one response of ListJobsForRun
  DeadRepos, DeadRuns, \* those for which requests always fail
  MaxRestarts     \* bound: restarts of the process

(* Without a repository a poll ends at once; that case is left out.        *)
ASSUME PollingAssumption ==
  /\ Len(Repos) \in Nat \ {0}
  /\ Runs \subseteq Nat
  /\ RunOf \in [Jobs -> Runs] /\ DOMAIN RepoOf = Runs
  /\ Position \in [Jobs -> Nat]
  /\ Dated \subseteq Jobs /\ "none" \notin Jobs
  /\ DeadRuns \subseteq Runs
  /\ PageSize \in Nat /\ JobPageSize \in Nat /\ MaxRestarts \in Nat

VARIABLES
  status,         \* of every job, at GitHub
  old,            \* the jobs whose started_at is past queuedThresh
  at,             \* the next call of the poll
  query,          \* the request for runs it is at
  runs,           \* runs of the response that are still to be looked at
  queuedJobs,     \* jobs of the response that are still to be checked
  job,            \* the job that is being reported
  inv,            \* the Investigation "gh-<id>" of every job
  invSeen,        \* those the informer's cache has
  reply,          \* a response to the Correlator that is on its way
  restarts        \* history: restarts of the process

client == <<left, remaining, reply>>
github == <<status, old>>
poll == <<at, query, runs, queuedJobs, job>>
reports == <<inv, invSeen>>
vars == <<client, github, poll, reports, restarts>>

None == "none"

Init ==
  /\ ClientInit /\ reply = Unknown
  /\ status = [j \in Jobs |-> "queued"] /\ old = {}
  /\ at = "idle" /\ query = 1 /\ runs = {} /\ queuedJobs = {} /\ job = None
  /\ inv = [j \in Jobs |-> "none"] /\ invSeen = {}
  /\ restarts = 0
------------------------------------------------------------------------------
(***************************************************************************)
(* What GitHub answers.                                                    *)
(***************************************************************************)
JobsOf(r) == {j \in Jobs : RunOf[j] = r}

(* A run is queued until its first job starts and is completed with the    *)
(* last one.                                                               *)
RunStatus(r) ==
  CASE \A j \in JobsOf(r) : status[j] = "queued" -> "queued"
    [] \A j \in JobsOf(r) : status[j] = "completed" -> "completed"
    [] OTHER -> "in_progress"

Statuses == <<"in_progress", "queued">>
Queries == 1..(2 * Len(Repos))
QueryRepo(q) == Repos[(q + 1) \div 2]
QueryStatus(q) == Statuses[2 - (q % 2)]

Matching(q) ==
  {r \in Runs : RepoOf[r] = QueryRepo(q) /\ RunStatus(r) = QueryStatus(q)}

(* ListWorkflowRuns asks for the first page only, newest first.            *)
Page(q) ==
  {r \in Matching(q) : Cardinality({s \in Matching(q) : s > r}) < PageSize}

(* ListJobsForRun asks for the first page only, of the jobs in any status. *)
JobPage(r) ==
  {j \in JobsOf(r) :
     Cardinality({k \in JobsOf(r) : Position[k] < Position[j]}) < JobPageSize}
------------------------------------------------------------------------------
(***************************************************************************)
(* poll and pollRepo.                                                      *)
(***************************************************************************)

(* A poll that finds the limit, or fails to list the configs, does nothing.*)
PollStart ==
  /\ at = "idle" /\ ~ShouldBackoff
  /\ at' = "list" /\ query' = 1
  /\ UNCHANGED <<client, github, runs, queuedJobs, job, reports, restarts>>

NextQuery ==
  IF query + 1 \in Queries THEN at' = "list" /\ query' = query + 1
                           ELSE at' = "idle" /\ query' = 1

ListRuns ==
  /\ at = "list" /\ QueryRepo(query) \notin DeadRepos
  /\ doGetOK
  /\ runs' = Page(query) /\ at' = "jobs"
  /\ UNCHANGED <<reply, github, query, queuedJobs, job, reports, restarts>>

(* Variant: an error ends the poll.                                        *)
ListRunsFailsForAll ==
  /\ at = "list"
  /\ doGetFails
  /\ at' = "idle" /\ query' = 1
  /\ UNCHANGED <<reply, github, runs, queuedJobs, job, reports, restarts>>

ListRunsFails ==
  /\ at = "list"
  /\ doGetFails
  /\ NextQuery
  /\ UNCHANGED <<reply, github, runs, queuedJobs, job, reports, restarts>>

RunsDone ==
  /\ at = "jobs" /\ runs = {}
  /\ NextQuery
  /\ UNCHANGED <<client, github, runs, queuedJobs, job, reports, restarts>>

(* checkJob passes over the jobs that are not queued in this response.     *)
ListJobs ==
  /\ at = "jobs" /\ runs # {} /\ Max(runs) \notin DeadRuns
  /\ doGetOK
  /\ runs' = runs \ {Max(runs)}
  /\ queuedJobs' = {j \in JobPage(Max(runs)) : status[j] = "queued"}
  /\ at' = "check"
  /\ UNCHANGED <<reply, github, query, job, reports, restarts>>

ListJobsFails ==
  /\ at = "jobs" /\ runs # {}
  /\ doGetFails
  /\ runs' = runs \ {Max(runs)}
  /\ UNCHANGED <<reply, github, at, query, queuedJobs, job, reports, restarts>>
------------------------------------------------------------------------------
(***************************************************************************)
(* checkJob and createJobInvestigation.  Their errors are dropped.         *)
(***************************************************************************)
JobsDone ==
  /\ at = "check" /\ queuedJobs = {}
  /\ at' = "jobs"
  /\ UNCHANGED <<client, github, query, runs, queuedJobs, job, reports, restarts>>

(* Not queued for long enough, reported already, or refused by the counter;*)
(* or the lookup fails.                                                    *)
CheckNothing ==
  /\ at = "check"
  /\ \E j \in queuedJobs : queuedJobs' = queuedJobs \ {j}
  /\ UNCHANGED <<client, github, at, query, runs, job, reports, restarts>>

StuckQueued(j) == j \in Dated /\ j \in old

CheckReserve(j) ==
  /\ at = "check" /\ j \in queuedJobs
  /\ StuckQueued(j) /\ j \notin invSeen
  /\ queuedJobs' = queuedJobs \ {j}
  /\ at' = "create" /\ job' = j
  /\ UNCHANGED <<client, github, query, runs, reports, restarts>>

Return == at' = "check" /\ job' = None /\ UNCHANGED <<query, runs, queuedJobs>>

(* Variant: the status is written although Create failed.                  *)
CreateOKAlways ==
  /\ at = "create"
  /\ at' = "status"
  /\ UNCHANGED <<client, github, query, runs, queuedJobs, job, reports, restarts>>

CreateOK ==
  /\ at = "create" /\ inv[job] = "none"
  /\ inv' = [inv EXCEPT ![job] = "open"]
  /\ at' = "status"
  /\ UNCHANGED <<client, github, query, runs, queuedJobs, job, invSeen, restarts>>

(* An error of the server, AlreadyExists, or a lost reply.                 *)
CreateFails ==
  /\ at = "create"
  /\ \/ UNCHANGED inv
     \/ inv[job] = "none" /\ inv' = [inv EXCEPT ![job] = "open"]
  /\ Return
  /\ UNCHANGED <<client, github, invSeen, restarts>>

StatusUpdate ==
  /\ at = "status"
  /\ \/ inv' = [inv EXCEPT ![job] = "Collecting"]
     \/ UNCHANGED inv
  /\ Return
  /\ UNCHANGED <<client, github, invSeen, restarts>>
------------------------------------------------------------------------------
(***************************************************************************)
(* GitHub, the Correlator, the informer, the process.                      *)
(***************************************************************************)
JobMoves ==
  /\ \E j \in Jobs :
       \/ /\ status[j] = "queued"
          /\ status' = [status EXCEPT ![j] = "in_progress"]
       \/ /\ status[j] = "in_progress"
          /\ status' = [status EXCEPT ![j] = "completed"]
  /\ UNCHANGED <<client, old, poll, reports, restarts>>

(* Time passes, also for a job that has been fetched and has started since.*)
JobAges ==
  /\ \E j \in Dated \ old : old' = old \cup {j}
  /\ UNCHANGED <<client, status, poll, reports, restarts>>

QuotaReset == WindowResets /\ UNCHANGED <<reply, github, poll, reports, restarts>>

(* The Correlator does not ask IsRateLimited.  Its responses and the       *)
(* poller's are processed in any order.                                    *)
CorrelatorAsks ==
  /\ reply = Unknown
  /\ left' = Spent /\ reply' = Spent
  /\ UNCHANGED <<remaining, github, poll, reports, restarts>>

CorrelatorHears ==
  /\ reply # Unknown
  /\ Update(reply) /\ reply' = Unknown
  /\ UNCHANGED <<left, github, poll, reports, restarts>>

InvEvent ==
  /\ \E j \in Jobs \ invSeen : inv[j] # "none" /\ invSeen' = invSeen \cup {j}
  /\ UNCHANGED <<client, github, poll, inv, restarts>>

Restart ==
  /\ restarts < MaxRestarts /\ restarts' = restarts + 1
  /\ remaining' = Unknown /\ reply' = Unknown
  /\ at' = "idle" /\ query' = 1 /\ runs' = {} /\ queuedJobs' = {} /\ job' = None
  /\ invSeen' = {j \in Jobs : inv[j] # "none"}
  /\ UNCHANGED <<left, github, inv>>

Poll == \/ PollStart \/ ListRuns \/ ListRunsFails \/ RunsDone
        \/ ListJobs \/ ListJobsFails \/ JobsDone
        \/ CheckNothing \/ (\E j \in Jobs : CheckReserve(j))
        \/ CreateOK \/ CreateFails \/ StatusUpdate

Environment == \/ JobMoves \/ JobAges \/ QuotaReset
               \/ CorrelatorAsks \/ CorrelatorHears
               \/ InvEvent \/ Restart

Next == Poll \/ Environment

Spec == Init /\ [][Next]_vars

(* The jobs that checkJob may ever see and report.                         *)
Listed == {j \in Dated : j \in JobPage(RunOf[j])}

LiveQueries == {q \in Queries : QueryRepo(q) \notin DeadRepos}

AsksRuns(q) == at = "list" /\ query = q
AsksJobs(r) == at = "jobs" /\ runs # {} /\ Max(runs) = r

(* The ticker and the informer do not stop, windows end.  A request that   *)
(* is made again and again is answered again and again, except for dead    *)
(* repositories and runs: GitHub is up, and quota is left, at some of the  *)
(* times.  So do capacity and the API server return.  Nothing is assumed   *)
(* of the Correlator.                                                      *)
Fairness ==
  /\ WF_vars(Poll) /\ WF_vars(InvEvent) /\ WF_vars(QuotaReset)
  /\ \A q \in LiveQueries :
       <>[]~AsksRuns(q) \/ []<><<ListRuns /\ query = q>>_vars
  /\ \A r \in Runs \ DeadRuns :
       <>[]~AsksJobs(r) \/ []<><<ListJobs /\ Max(runs) = r>>_vars
  /\ \A j \in Listed : SF_vars(CheckReserve(j)) /\ SF_vars(CreateOK /\ job = j)

FairSpec == Spec /\ Fairness
------------------------------------------------------------------------------
(***************************************************************************)
(* Properties.                                                             *)
(***************************************************************************)

(* The shape of the state; the tracker never shows more than the quota,    *)
(* and a job that is being reported has a started_at.                      *)
TypeOK ==
  /\ left \in 0..Quota
  /\ remaining \in {Unknown} \cup 0..Quota /\ reply \in {Unknown} \cup 0..Quota
  /\ status \in [Jobs -> {"queued", "in_progress", "completed"}]
  /\ old \subseteq Dated
  /\ at \in {"idle", "list", "jobs", "check", "create", "status"}
  /\ query \in Queries /\ runs \subseteq Runs /\ queuedJobs \subseteq Jobs
  /\ job \in Dated \cup {None}
  /\ inv \in [Jobs -> {"none", "open", "Collecting"}]
  /\ invSeen \subseteq {j \in Jobs : inv[j] # "none"}
  /\ restarts \in 0..MaxRestarts
  /\ at = "status" => inv[job] # "none"
  /\ at \in {"create", "status"} => job # None

(* A job that waits longer than the threshold, in a repository and a run   *)
(* that the poller can read; run and job are on the pages it asks for.     *)
Findable(j) ==
  /\ status[j] = "queued" /\ j \in old
  /\ RepoOf[RunOf[j]] \notin DeadRepos /\ RunOf[j] \notin DeadRuns
  /\ \E q \in Queries : RunOf[j] \in Page(q)
  /\ j \in JobPage(RunOf[j])

(* A job that stays stuck on these pages is reported, whatever else fails: *)
(* neither errors on the way, nor other repositories, runs and jobs, nor   *)
(* the counter, nor a run that changes lists between two requests hides it *)
(* for ever (the continues of pollRepo).  The exception is a tracker that  *)
(* backs off again and again.                                              *)
StuckJobReported ==
  \/ []<>ShouldBackoff
  \/ \A j \in Dated : Findable(j) ~> (inv[j] # "none" \/ ~Findable(j))

(* "How often to poll the GitHub Actions API ... Default is 30s"           *)
(* (README.md): when GitHub grants a new window, polling goes on.          *)
PollingResumes == ShouldBackoff ~> ~ShouldBackoff
==============================================================================
