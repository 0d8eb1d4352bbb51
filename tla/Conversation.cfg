SPECIFICATION Spec
CONSTANTS
  Slots = {"s1", "s2"}
  Users = {"u1", "u2"}
  Sessions = {"web", "cron-1"}
  CronSessions = {"cron-1"}
  AgentNames = {"funes", "editor", "doctor"}
  Shipped = {"funes", "editor", "doctor"}
  CanCompress = {"funes", "editor"}
  CanDelegate = {"funes", "doctor"}
  MayUse <- MCMayUse
  MemoryTurns = 4
  KMinKeep = 2
  ManualMinKeep = 2
  MaxDelegationDepth = 2
  Workloads <- MCWorkloads
  None = None
  MaxRuns = 4
  MaxResults = 2
  MaxCalls = 3
CHECK_DEADLOCK FALSE
INVARIANTS
  TypeOK
  ContextWall
  TurnsKeptOrFolded
  GrantsHold
  
