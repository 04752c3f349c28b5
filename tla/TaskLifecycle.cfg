\* One team task through crashes, shutdowns and audits.
SPECIFICATION FairSpec
CONSTANTS
  Tasks = {"t1"}
  TeamTasks = {"t1"}
  MaxRequeue = 2
  Redis = TRUE
  Busy = TRUE
  MaxBoots = 4
  MaxTouches = 1
  MaxAudits = 2
INVARIANTS PoisonIsBounded
PROPERTIES TerminalIsFinal NoLaunchOnClosedRow EveryTaskSettles KeepsContract
CHECK_DEADLOCK FALSE
