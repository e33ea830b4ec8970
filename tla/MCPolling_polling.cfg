SPECIFICATION FairSpec
CONSTANTS
  Quota = 2
  threshold = 0
  Repos <- MCRepos
  Runs <- MCRuns
  RepoOf <- MCRepoOf
  Jobs <- MCJobs
  RunOf <- MCRunOf
  Position <- MCPosition
  Dated <- MCDated
  PageSize = 1
  JobPageSize = 1
  DeadRepos <- MCDeadRepos
  DeadRuns <- MCDeadRuns
  MaxRestarts = 1
INVARIANT TypeOK
PROPERTY StuckJobReported
