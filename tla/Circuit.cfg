\* An execution and the probe of one provider.
SPECIFICATION FairSpec
CONSTANTS
  Tasks = {"t1"}
  Prober = "probe"
  FailureThreshold = 2
  LearnedThreshold = 1
  HalfOpenMax = 1
  MaxRestores = 1
  MaxLost = 1
INVARIANTS SlotsAreHeld
PROPERTIES CircuitRecovers
