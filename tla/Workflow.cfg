\* Two participants, a spare one, three tasks, one crash.
SPECIFICATION FairSpec
CONSTANTS
  p1 = p1
  p2 = p2
  s1 = s1
  Participants <- Invited
  Spares <- Kept
  Posts = {"implementation"}
  MaxTasks = 3
  MaxCrashes = 1
INVARIANTS  StageShowsItsTask
PROPERTIES DiscussionEnds
