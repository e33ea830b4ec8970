------------------------------ MODULE MCPolling ------------------------------
(* A repository that cannot be read before one that can; in this one a     *)
(* run with two jobs, one more than a page of jobs, and a newer run whose  *)
(* jobs cannot be read; a page shows one of the two.  The first job of the *)
(* older run may get stuck.                                                *)
EXTENDS Polling

MCRepos == <<"forbidden", "repo">>
MCDeadRepos == {"forbidden"}
MCDeadRuns == {2}
MCRuns == 1..2
MCRepoOf == [r \in MCRuns |-> "repo"]
MCJobs == {"a", "b", "c"}
MCRunOf == [j \in MCJobs |-> IF j = "c" THEN 2 ELSE 1]
MCPosition == [j \in MCJobs |-> IF j = "b" THEN 2 ELSE 1]
MCDated == {"a"}
==============================================================================
