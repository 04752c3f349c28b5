\* Two rosters and a broken file, two executions.
SPECIFICATION FairRegistrySpec
CONSTANTS
  Rosters = {"a", "b"}
  Keyed = {}
  Executions = {"t", "u"}
  None = "none"
  Broken = "broken"
INVARIANTS RegistryTypeOK OneGeneration RejectedIsRolledBack
PROPERTIES RegistryConverges
