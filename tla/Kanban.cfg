\* A card and its dependent, two calls at once, and somebody who moves, ticks or purges once.
SPECIFICATION FairSpec
CONSTANTS
  Cards = {"first", "second"}
  DependsOn <- Chain
  Runs = {r1, r2}
  MaxRetries = 1
  MaxTasks = 2
  MaxTouches = 1
INVARIANTS PrerequisitesHold WorkedOnOnce BoardShowsRows
PROPERTIES DoneStaysDone CallsReturn
CHECK_DEADLOCK FALSE
