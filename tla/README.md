# arc-detective: specifications

TLA+ specifications of [arc-detective](../src/README.md), a Kubernetes operator
that watches GitHub Actions runners, records their failures in `Investigation`
custom resources (CRs) and diagnoses them. TLC checks the specifications on
small instances; TLAPS proves the main theorems for every value of the
constants.

## The system

| Part | State | Operations | Talks to |
|---|---|---|---|
| `InvestigationCounter` | `count`, `max`, one mutex | `Init`, `TryIncrement`, `Decrement` | called by all creators, by Cleanup and by `main` |
| `PodWatcher` | `podHistory` (memory) | `Reconcile`: finalizer, log collection, `ensureInvestigation`, `createAnomalyInvestigation` | API server, informer cache, log collector, counter |
| `EphemeralRunnerWatcher` | `erStatus` (memory) | `Reconcile`, `handleFailed`, `handleRunning`, `createInvestigation` | API server, cache, counter |
| `GitHubPoller` | none | `poll`, `pollRepo`, `checkJob`, `createJobInvestigation` on a ticker | GitHub, API server, counter |
| `Correlator` | none | `Reconcile`: enrich, classify, `Update`, `Get`, `Status().Update` | API server, cache, GitHub |
| `diagnosis` | none | `Classify` over `KnownPatterns` | called by the Correlator |
| `Cleanup` | none | `runCleanup` on a ticker: retention, storage limit | API server, cache, log storage, counter |
| log collector, `DiskStorage` | files | `CollectLogs`, `Write`, `Delete`, `OldestFiles` | kubelet, disk |
| GitHub client, `RateLimitTracker` | `remaining`, `resetAt` | `doGet`, `Update`, `ShouldBackoff` | GitHub |
| `main` | none | list the CRs, initialise the counter, start the manager after leader election | all |

The controllers never call each other. They meet in the shared counter, in the
CRs of the API server (written through optimistic concurrency: a write that
carries an old resourceVersion fails) and in the informer caches, which lag
behind the API server. Each controller runs one `Reconcile` at a time.

What is hard: the calls of five goroutines interleave; every read comes from a
cache that may be stale; a creation is two writes (`Create`, `Status().Update`)
and a completion is two writes and a read; requests fail, or take effect and
report an error; the process crashes between any two calls; users and Cleanup
delete what a handler works on; pods and CRs come back under the name of an
earlier one. `PROJECT.json` lists these hazards at their lines.

What makes each part correct:

* counter and admission: no creation exceeds the cap; the counter follows the
  CRs; capacity comes back;
* PodWatcher and Correlator: an Investigation that was handed over is completed
  with one diagnosis, nothing listed is taken back, no pod is blocked by the
  finalizer;
* diagnosis: whatever a watcher reports can be named, from evidence that was
  completed later and partly from other sources;
* EphemeralRunnerWatcher: a runner stuck for longer than the threshold is
  reported then, none earlier, whatever events, timers and memory were lost;
* GitHubPoller and client: a job that stays stuck is reported although other
  requests fail; polling goes on when GitHub grants new requests;
* Cleanup and storage: the disk stays under the limit, and no log is deleted
  without need.

## Modules

| Module | Models |
|---|---|
| `InvestigationCounter` | `investigation_counter.go`; each method holds the mutex and is one action on `count` |
| `InvestigationRegistry` | abstract: a set of CRs whose creation never exceeds `max` |
| `Admission` | the protocol around the counter in the four creating functions, `Cleanup`'s pruning, `main`'s initialisation, the caches, users |
| `AdmissionFailover` | `Admission` with a second replica that waits for the lease |
| `Diagnosis` | pure: `detectAnomaly`, `buildPodInfo`, the seven patterns, `Classify` |
| `Correlation` | one Investigation from detection to diagnosis while cluster and GitHub move |
| `InvestigationReport` | abstract: the life of one Investigation as its reader sees it |
| `PodForensics` | `PodWatcher.Reconcile` and `Correlator.Reconcile` call by call on the Investigation of one pod name |
| `RunnerWatch` | `EphemeralRunnerWatcher` on one name, with a clock, the delaying queue, restarts |
| `GitHubClient` | `doGet` and `RateLimitTracker`, with the quota at GitHub |
| `Polling` | extends `GitHubClient`: `GitHubPoller`'s loop, with the Correlator as the other user of the client |
| `LogStorage` | the log collector, `DiskStorage` and `Cleanup` at the same files |
| `*Proofs` | theorems about the module they are named after; `DiagnosisProofs` has lemmas only, for the two modules that use `Diagnosis` |
| `MC*` | instances for TLC |

`map` in `PROJECT.json` gives the source lines of every definition. Operators
that a comment calls a variant are mistakes the code could have made; they are
part of no specification. Each is put in the place of the definition it varies
to see that the properties notice.

### Admission

`stage[n]` is the place of the handler that creates CR `n`: after
`TryIncrement` ("reserved"), after a `Create` that reported success ("created")
or an error ("failed", before the `Decrement`). One controller has at most one
creation in flight (`Owner`). `cache[n]` is what a cached `Get` or `List` sees:
nothing, the CR that exists, or one that is gone from the API server. `todo`
and `pruned` are the loop of `runCleanup`. `Restart` is a crash anywhere,
followed by `main`. `lost` counts the `Create` calls that took effect and
reported an error since the process started; `MaxLost` bounds them.
`OutsideDeletes` lets CRs disappear without the counter's knowledge: a user's
`kubectl delete`, or a `Delete` of Cleanup whose reply was lost.

The CR names are disjoint for the creators ("pod-", "er-", "gh-"), so two names
of one controller and one of another cover sharing a controller and racing with
another.

`Init` allows any set of CRs, also more than `max`: the cap may have been
lowered. This is why the cap is stated about creations.

### Correlation and Diagnosis

A nil pointer of `InvestigationSpec` is `NoPod`, `NoER` or `NoJob`. `Jobs` are
pairs of a status and whether the job names this runner. The world moves
arbitrarily between any two steps (`PodMoves`, `RunnerMoves`, `JobMoves`), and
every lookup may also find nothing. Two facts about the world are assumed
(`WorldAssumption`): a container of a runner pod that waits for its image has
never run (runner pods have `restartPolicy: Never`, as `pod_watcher.go:157`
notes), so the pod is Pending or failed as a whole; a queued job has no runner.
Because of the second, `FindRunner` finds something only for an Investigation
written by hand. Detection thresholds are abstracted to "at any time".

The Investigation changes under the Correlator: `PodDeletion` is the whole
deletion branch of `PodWatcher.Reconcile`, whose `ensureInvestigation` creates an
Investigation or, at any stage of the one there is, puts the pod's present
snapshot in the place of the recorded one (`ReplacePod`). `spec` is the
Correlator's copy from its first `Get`, and `fresh` says whether its
resourceVersion is still the stored one: `Diagnose`, the `Update`, succeeds only
then. After it (stage "written") come the second `Get` and the status update
(`Complete`). `Conflict` is the failure of either; Reconcile starts again from
what is stored by then, with the diagnosis that is there. `replaced` is a history
variable: what the evidence shows of a trigger of the pod can only be said until
the first replacement.

### PodForensics

`pw` and `co` name the next call of the two reconcilers; `pwPod`, `pwInv` and
`coInv` are the objects they hold. A write succeeds when the copy equals the
object on the server. This is the resourceVersion check, since no write restores
an earlier state of an object (uids are never reused, phases advance, logs and
finalizers are not restored under the same uid). An informer event delivers the
latest state: informers may skip intermediate ones, and delivering all of them
only adds reconciles that end without a write. `events` says whether the pod's
events are recorded. An Investigation of a pod has no runner and no job, so
enrichment adds nothing else here (`Correlation` has the rest). `AtCap` is the
counter's refusal. The retry of a handler that returned an error is its request
back in the queue.

### RunnerWatch

One name of an EphemeralRunner; `MaxRunners` runners bear it one after the
other. `tracker` is `erStatus[name]`, `due` the entry of the name in the
delaying work queue: `AddAfter` keeps the earlier of two times, so that a
requeue merges with a timer that was set in an earlier phase, or with the
back-off of an error. The back-off may be any delay up to `MaxBackoff`.
`now` is a bounded clock. A reconcile takes no time on it: `Tick` waits until
the queue is empty, so "late" never means a slow worker. Runner and process
change only until `LastChange`; from there to `MaxTime` the longer threshold
passes. `boot` is the start of the process. `refused` and `failing` remember how
the last reconcile ended, since a refusal of the counter asks for no other look
and an error for a delayed one. A report counts only if it is about the runner
that bears the name now (`Reported`). An Investigation of an earlier one makes
`createInvestigation` return at `ephemeralrunner_watcher.go:152` (`NameTaken`).
These are the excuses `OnTime` accepts. Deletion of the Investigation is left
out of this module, so here a taken name stays taken; in the program it does until
Cleanup or a user deletes the Investigation.

### GitHubClient and Polling

`left` is the quota at GitHub, `remaining` what the tracker believes. A request
succeeds, is rejected with its headers (which update the tracker), or gets no
response. `Update` leaves `remaining` as it is when the header is missing or is
not a number. `resetAt` is written by `Update` and read by nothing, so it is not a
variable. The code makes its requests in a fixed order; `query` counts the
requests for runs (two for each repository), `runs` and `queuedJobs` are what is
left of the responses. `Page` is the first page of a list of runs, newest first,
and `JobPage` the first page of the jobs of a run, whatever their status, in
GitHub's order (`Position`): the client asks for no other. The code leaves the
size of a page to GitHub, whose default is 30; here both sizes are constants.
`DeadRepos` and `DeadRuns` are those whose requests
always fail. The Correlator's use of the client is two steps, request and
response, so that a response may be processed after newer ones. A run's status
follows from its jobs and changes between any two requests.

### LogStorage

A path is pod, container and second: two collections of one pod in one second
write the same file. A file is created, then filled in any number of parts
(`WriteStart`, `WriteSome`, `WriteDone`), and can be measured or deleted in
between; a write does not notice that its file is gone. A write that fails, or a
crash, leaves what was copied until then. Cleanup's list of Investigations comes from a cache, but since the
list is used any time later, a lagging cache adds nothing. `ensureInvestigation`
is one step here. The files of one Investigation are deleted in one step; when a
deletion fails (`Undeletable`) the others go on. `Restart` is a crash anywhere; the
volume is kept, as with a PersistentVolumeClaim (with an emptyDir a new pod finds
it empty).

## Runs

Passing runs; between them they take every action of every specification:

| Run | Checks | Bounds |
|---|---|---|
| `faulty` | `TypeOK`, `Accounted`, `OvershootBounded` | 3 names, 2 controllers, cap 2, one lost reply per process, outside deletions |
| `capacity` | `CounterExact`, `RegistrySpec` (refinement of `InvestigationRegistry`), `CapacityReturns` | as above without lost replies and outside deletions, with fairness |
| `missed` | `OvershootByMissed` | 2 names, cap 1, any number of failovers |
| `diagnosis` | `TypeOK`, `EnrichmentOnlyAdds`, `FailuresAreNamed`, `PodEvidenceDecides`, `GitHubOptional` | 7 pod statuses with one or two containers, 3 runner phases, 4 job states |
| `report` | `DiagnosisMatchesEvidence`, `ReportSpec` (refinement of `InvestigationReport`) | 2 pods of one name, each of which recovers from one anomaly and meets another, errors, crashes |
| `progress` | `TypeOK`, `NothingTakenBack`, `DeletionNotBlocked`, `CollectingEnds` | 1 pod, 2 Investigations of one name, errors, deletions, fairness |
| `runner` | `TypeOK`, `OnTime`, `NotEarly`, `StuckReported` | 2 runners of one name, 1 restart, thresholds 1 and 2, back-off up to 1, changes until 2, clock until 5 |
| `polling` | `TypeOK`, `StuckJobReported` | an unreadable repository before a readable one, 2 runs (1 unreadable) with 3 jobs, pages of 1 run and 1 job, quota 2, threshold 0, 1 restart |
| `storage` | `TypeOK`, `LossJustified`, `LimitEnforced` | 2 pods with logs of size 1 and 2, limit 1, 2 seconds, 1 Investigation, 1 undeletable file, any restarts |

The cap must be smaller than the number of names, so that a creation can
exceed it, and one controller must own two of them, so that its creations
follow each other. Two pods and two Investigations of a name are what it takes
to confuse one with another. The 7 statuses contain each branch of
`detectAnomaly` and of the patterns, and the pairs in which an earlier container
or an earlier pattern hides a later one; the theorems are about all statuses. The two thresholds differ, so
that a timer of one phase is wrong for the other; the clock leaves the longer one
time to pass after the last change. A page of one with two runs on the list, or two jobs in a run, is the smallest
list that is longer than a page; a quota of 2 runs out within one poll. Four files
are possible, of size 1 and 2, one of them undeletable and just as large as the
limit of 1: up to three deletions are needed, with writes in between.

Runs that end in a counterexample; each is a disagreement between the code and
what the repository says of it, quoted under `findings` in `PROJECT.json`:

| Run | Shows |
|---|---|
| `terminating` | `pod-stuck-terminating` can never be diagnosed |
| `phase` | a crash between `Create` and `Status().Update` leaves an Investigation nobody handles |
| `backoff` | once few requests are left, the poller never polls again, though the quota is reset |

More follows from the same models, as the reason for a bound or a hypothesis of
a property:

* A CR deleted by a user (`kubectl delete`, which `src/README.md:262` recommends)
  is never counted down: `CounterExact` needs `OutsideDeletes = FALSE`, and
  `Accounted` counts what is lost (`cleanup.go:78`).
* `missed` gives the bound by which a standby that takes over with the count of
  its start exceeds the cap (`cmd/main.go:160`).
* Cleanup can delete an Investigation younger than the retention period that
  took the name of an expired one between `List` and `Delete`
  (`cleanup.go:56-78`).
* The Correlator's second `Get` goes by name: with deletions it may complete an
  Investigation that was made anew and has no diagnosis (`correlator.go:85`).
  `ReportSpec` is therefore checked without deletions.
* A conflict with the Correlator in the update that lists the logs is only
  logged: the logs stay unlisted (`pod_watcher.go:105`), and so do the logs whose
  Investigation was refused or whose deletion failed. Only the storage limit
  removes them, which is why `LimitEnforced` is about all files.
* The update on deletion replaces evidence and events (`pod_watcher.go:260`).
  Under a diagnosis that is kept, `DiagnosisMatchesEvidence` therefore holds until
  the pod is deleted. Before the diagnosis, it takes away what the trigger was
  about: a pod recorded for `ErrImagePull` gets its image at the next try and is
  deleted while its Investigation is Collecting; the Correlator finds the snapshot
  of a healthy pod and diagnoses `unknown` under the trigger `pod-init-timeout`.
  Hence `replaced` in `EnrichmentOnlyAdds` and `FailuresAreNamed`; the latter is
  violated without it. What remains is `PodEvidenceDecides`: the
  resourceVersion keeps the Correlator from classifying a snapshot that is no
  longer stored.
* A restart starts the threshold of a Running runner anew, hence `boot` in
  `OnTime`. A runner that takes the name of another whose deletion was never
  reconciled inherits its `runningSince` and may be reported early
  (`ephemeralrunner_watcher.go:130`), hence `uid = 1` in `NotEarly`. It is not
  reported at all while the Investigation of the other exists
  (`ephemeralrunner_watcher.go:152`), hence `NameTaken`.
* Only the first page of runs (`client.go:80`) and of the jobs of a run
  (`client.go:87`) is read, hence the two pages in `Findable`. Jobs that have
  finished stay on the page, so that a job that is stuck beyond the first page of
  its run is never reported, though every request succeeds.
* While logs are written without end, they can take the place of those that
  Cleanup deletes, between any two of its deletions, and the usage need not come
  down: `LimitEnforced` supposes that writing ends.
* Cleanup deletes by what it measured, while files still grow. `LossJustified`
  therefore compares the limit with what the files take once they are complete,
  which may be more than they take at the moment of the deletion.
* Two log collections of a pod in one second write one file (`collector.go:36`).
* `pollInterval` of a DetectiveConfig is never read (`cmd/main.go` takes a flag).

### Fairness

`Admission`: weak fairness of every step of a handler that has started, of the
informer, of time (`Expire`) and of Cleanup's ticker, since goroutines are not
starved; strong fairness of a `Delete` that is tried every five minutes.
Nothing forces a creation to start or a process to survive; restarts initialise
the counter from the CRs.

`PodForensics`: weak fairness of the handlers' steps and of the informers;
strong fairness of the writes that are retried (`AddFinalizer`,
`RemoveFinalizer`, `Update`, `Status().Update` of the Correlator), since
controller-runtime retries with back-off and a request that is made again and
again does not fail for ever. Nothing is assumed of the writes whose errors are
only logged. `Resync` has no fairness: progress does not depend on it.

`Correlation` (`terminating` only): the watcher and the reconciler are not
starved.

`RunnerWatch`: weak fairness of the worker, the informers, the timer and the
resync (ten hours by default, but for ever); strong fairness of a reservation
and of `Create`, which are tried again and again (`capacity` shows that refusals
end); strong fairness of the clock, which can tick only between reconciles.

`Polling`: weak fairness of the poller's steps, the informer and the reset of
the quota. A request that is made infinitely often is answered infinitely often,
for each live repository and each run that the poller asks about; this is stated for the request and not as
strong fairness of its success, because success also needs quota that is left.
Strong fairness of reservation and `Create` as before. The Correlator need not
do anything.

`LogStorage`: weak fairness of Cleanup, which runs every five minutes, and
finitely many restarts: a process that always dies before Cleanup gets through
prunes nothing. The collector has no fairness: it may stop anywhere, also in the
middle of a file. `LimitEnforced` itself supposes that it does not write for ever.

## Proofs

Every safety property, action property and refinement that a passing run checks
is also a theorem, for every value of the constants that satisfies the
assumptions of its module. These are shapes (a bound is a number, a set of pods
is finite, `"none"` is no name), `WorldAssumption` (see Correlation above), and a
nonempty list of repositories in `Polling`: without one a poll ends at once.

Each invariant was checked by TLC on the instance of its run before it was
proved.

### AdmissionProofs and AdmissionFailoverProofs

* `TypeCorrect`: `Spec => []TypeOK`.
* `CounterCovers`: `Spec => []Accounted`. `Accounted` is inductive together with
  `TypeOK`: `|crs| + |Held| + Pending <= count + lost`, and a reservation exists
  only while `count <= max`. A CR alone would not do: between `TryIncrement` and
  `Create`, and between `Delete` and `Decrement`, the counter is ahead by a slot
  that only `Held` and `Pending` account for. The floor in `Decrement` is
  harmless because a decrement always returns a slot that is accounted for.
* `CapHolds`: `Spec => OvershootBounded`, from the same invariant: a creation
  turns a reservation into a CR.
* `ImplementsRegistry`: `Spec => RegistrySpec`, the refinement of the registry
  with cap `max + MaxLost`; where no reply is lost, that is the documented cap.
* `CounterIsExact`: without lost replies and outside deletions the inequality
  is an equality.
* `FailoverBounded`: `FailoverSpec => OvershootByMissed`. The lemmas about the
  steps of one process are stated for `AccountedBut(k)`, the account with `k` CRs
  that the counter does not know of. Every step of a leader keeps it for any
  `k`; `k = 0` gives `Accounted`, and `k = missed` the invariant here. Only
  `Takeover` changes `k`, to what was created since the standby counted.

### CorrelationProofs

For every set of pod statuses with any number of containers, under
`WorldAssumption`:

* `TypeCorrect`: `Spec => []TypeOK`.
* `EvidenceStands`: `Spec => []EnrichmentOnlyAdds`. This is the inductive
  invariant: for each trigger, what the evidence keeps showing (`BearsOut`), in
  the API server and in the Correlator's copy, and what the two have in common
  while the copy is fresh.
* `LatestEvidenceDecides`: `Spec => PodEvidenceDecides`: a diagnosis is written
  from a fresh copy, whose snapshot of the pod is the stored one.
* `EveryFailureNamed`, `GitHubNotNeeded`: the diagnosis properties, from
  `BearsOut` and from lemmas about the operators:
  `FirstMatch` (Classify names the first match), `AnomalyIsFailure` (what
  `detectAnomaly` acts on is a pattern on what `buildPodInfo` records),
  `PodFailedNamed`, `NeverTerminating`.
* `StuckTerminatingNeverNamed`: no state has the diagnosis
  `pod-stuck-terminating`. The counterexample of `terminating` is thus no effect
  of its instance.

### PodForensicsProofs

* `TypeCorrect`: `Spec => []TypeOK`, with `HandlersHold`: in each of its calls a
  handler has the copy that the call needs.
* `ReportOnlyGrows`: `Spec => NothingTakenBack`. `OnlyWrites` lists the
  steps that write an Investigation; each but a creation goes through the
  resourceVersion, so that the copy it extends is the object itself.
* `ImplementsReport`: `~Deletes /\ Spec => ReportSpec`. The invariant
  `Diagnosing` says that between its two writes the Correlator's Investigation
  exists with a diagnosis: the cached copy of its second `Get` may be older, but a
  write from an older copy conflicts. The hypothesis is necessary: with
  deletions the second `Get` may find another Investigation of the name (see
  Runs). The run `report` has it too.
* `DiagnosisOfEvidence`: `Spec => []DiagnosisMatchesEvidence`. That a diagnosis
  fits its evidence is kept only because nothing replaces the evidence; this
  holds until the first deletion of the pod, so the invariant says that until
  then (`Undisturbed`) no copy of the pod, in the cache or in a handler, shows a
  deletion and the PodWatcher is in none of the calls that follow one.

### RunnerWatchProofs

For all thresholds, back-offs, restarts and bounds of the clock:

* `TypeCorrect`: `Spec => []TypeOK`.
* `NoEarlyReport`: `Spec => []NotEarly`. The report is made several steps after
  the comparison, from the memory of earlier reconciles. The invariant relates
  the three: the measured time is of the past and set exactly while Running
  (`Measured`), it began within the life of the first runner of the name
  (`Ages`), and a handler on its way to `Create` holds a runner that was past the
  threshold (`HandlerSure`).
* `ReportedInTime`: `Spec => []OnTime`. The deadline of a runner is only kept
  if, whenever nothing is queued, the cached runner was looked at in its phase
  (`Settled`) and a timer is set no later than its deadline (`Armed`), although
  timers of other phases and back-offs share one entry of the queue. That the
  report is about this runner needs the order in which runners bear the name
  (`Succession`): an Investigation, or the copy a handler creates one from, is of
  this runner or of an earlier one. `Later` and
  `Left` are kept folded and enter through lemmas about their bounds.

### PollingProofs

* `TypeCorrect`: `Spec => []TypeOK`: the quota and what the tracker and a late
  response believe of it stay in range, and the Investigation whose status is
  written exists.
* `BackoffIsForever`: `Spec /\ Silence => [](Resting => []ShouldBackoff)`. Once
  limited between two polls the tracker stays limited, as long as the Correlator
  hears nothing and the process lives. This is what the run `backoff` shows, for
  every quota and threshold.

### LogStorageProofs

For any number of pods, containers and files of any size:

* `TypeCorrect`: `Spec => []TypeOK`, with `IdsInOrder`.
* `NoLogLostWithoutReason`: `Spec => LossJustified`. Cleanup measures, lists and
  deletes in different steps, while files are created and filled. The invariant:
  a file is at most as long as the complete log (`SizesFit`), and a usage beyond
  the limit on which the next deletion rests is still exceeded by what the files
  may take up (`StillFull`), since until that deletion files only come and grow.

The sums need induction over the set of files. The provers cannot instantiate
the induction theorems of the library, whose claim is an operator, nor its
theorem on recursive functions. `SubsetInduction` and `NatInductionOnSet`
therefore state induction with the set of things the claim holds of, from the
existence of minimal elements (`WFMin`). From them: the function by which
`SumFunctionOnSet` is defined exists (`IterExists`) and does not depend on the
set it was built for (`IterOfSubset`), the order of summation does not matter
(`SumPick`), and sums are monotone in the set and in the sizes (`SumMonotone`).

### Only model-checked

Liveness, which is out of the prover's reach: `CapacityReturns`,
`DeletionNotBlocked`, `CollectingEnds`, `StuckReported`, `StuckJobReported`,
`LimitEnforced`.

## Not modelled

* HTTP, authentication, TLS, flags, health checks, manifests: I/O and
  configuration.
* API types and generated code: declarations.
* Wording: summaries, remediations, messages, log lines, timestamps.
* The phase history of pods and the status history of runners, and the order of
  the timeline: they are shown to the reader, and nothing decides by them.
* The start of `cmd/main.go` before the counter: configuration, and exits on
  errors.
* A `Get` or `List` through the cache that fails for another reason than
  NotFound: the cache is local.

## Plan

1. The safety part of the liveness properties, as theorems: what a step towards
   the goal may not undo. For `LimitEnforced`, that a deletion lowers what the
   files take up by what the file took up (with `SumPick`); for
   `DeletionNotBlocked`, that a deletion event is never lost while the finalizer
   is there; for `CapacityReturns`, that every counted slot belongs to a CR or to
   a step that is under way.
2. The reader's side of `DiagnosisMatchesEvidence` after a deletion: what the
   evidence beside a kept diagnosis may be.
