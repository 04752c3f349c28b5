\* An abort after a failover.
SPECIFICATION Spec
CONSTANTS
  Order <- ThreeProviders
  Home = "b"
  Bull = {"a", "b", "c"}
  Shrinks = {}
  Team <- Executors
  Generic = TRUE
  Deadline = FALSE
  MaxRetries = 1
INVARIANTS AbortReachesTheRunner
CHECK_DEADLOCK FALSE
