\* Two stages, two candidates each, two iterations, one resume.
SPECIFICATION FairSpec
CONSTANTS
  N = 2
  Gate = 1
  Modes = {"pipeline", "parallel", "dry"}
  MaxAttempts = 2
  MaxIterations = 2
  MaxResumes = 1
  MaxRestarts = 2
INVARIANTS CompletedIsEarned WorkIsBounded
PROPERTIES OneWorker CancelIsKept RunSettles
CHECK_DEADLOCK FALSE
