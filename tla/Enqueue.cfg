\* A task of a provider behind its semaphore alone, and two providers with BullMQ.
SPECIFICATION FairSpec
CONSTANTS
  Order <- ThreeProviders
  Home = "b"
  Bull = {"a", "c"}
  Shrinks = {}
  Team <- Executors
  Generic = TRUE
  Deadline = TRUE
  MaxRetries = 2
INVARIANTS  RunsAreBounded
PROPERTIES EnqueueSettles
CHECK_DEADLOCK FALSE
