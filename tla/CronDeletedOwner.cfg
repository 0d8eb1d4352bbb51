SPECIFICATION Spec
CONSTANTS
  MaxId = 1
  MaxRuns = 2
  Schedules <- LeapSchedules
  NextAfter <- MCLeap
  Day = 2
  Kinds = {"ordinary"}
  NoJob = NoJob
  NoRun = NoRun
  MaxTime = 2
  MaxJobs = 2
  MaxIncidents = 3
CHECK_DEADLOCK FALSE
INVARIANT DeletedOwnerRunsNothing
