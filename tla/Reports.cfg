\* Three tasks, two attempts, one failure.
SPECIFICATION FairReportSpec
CONSTANTS
  MaxTasks = 3
  MaxRedispatches = 2
  MaxFailures = 1
INVARIANTS ReportTypeOK DispatchesAreBounded
PROPERTIES SubmittedIsKept LinkedResultArrives ReportSettles
