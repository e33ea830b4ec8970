SPECIFICATION Spec
CONSTANTS
  PodStatuses <- MCPodStatuses
  ERPhases = {"Pending", "Running", "Failed"}
  Jobs <- MCJobs
INVARIANTS TypeOK EnrichmentOnlyAdds FailuresAreNamed GitHubOptional
PROPERTY PodEvidenceDecides
