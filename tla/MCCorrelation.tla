---------------------------- MODULE MCCorrelation ----------------------------
(* Pods of one or two containers whose statuses cover every branch of      *)
(* detectAnomaly and of the patterns, alone and against each other.        *)
EXTENDS Correlation

Cs(state, reason, code) ==
  [state |-> state, reason |-> reason, exitCode |-> code]

PullError == Cs("waiting", "ErrImagePull", 0)
PullBackOff == Cs("waiting", "ImagePullBackOff", 0)
Up == Cs("running", "", 0)
Completed == Cs("terminated", "Completed", 0)
Crashed == Cs("terminated", "Error", 1)
Killed == Cs("terminated", "Error", 137)
OutOfMemory == Cs("terminated", "OOMKilled", 137)
OutOfMemoryExit0 == Cs("terminated", "OOMKilled", 0)

MCPodStatuses ==
  {[phase |-> "Pending", containers |-> <<PullError>>],
   [phase |-> "Pending", containers |-> <<Crashed, PullError>>],
   [phase |-> "Failed", containers |-> <<PullBackOff>>],
   [phase |-> "Running", containers |-> <<Up, Completed>>],
   [phase |-> "Running", containers |-> <<Crashed, OutOfMemory>>],
   [phase |-> "Failed", containers |-> <<Killed>>],
   [phase |-> "Failed", containers |-> <<OutOfMemoryExit0>>]}

MCRunning == {[phase |-> "Running", containers |-> <<Up>>]}

MCJobs == {[status |-> "queued", runner |-> FALSE],
           [status |-> "in_progress", runner |-> TRUE],
           [status |-> "completed", runner |-> TRUE],
           [status |-> "completed", runner |-> FALSE]}
==============================================================================
