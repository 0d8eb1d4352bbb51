SPECIFICATION FilesSpec
CONSTANTS
  Names = {"1", "2", "a", "b", "d", ".."}
  Admin = "1"
  Members = {"2"}
  Slots = {s1, s2}
  Legacy <- MCLegacy
  Given <- MCGiven
  Batches <- MCBatches
  Workloads <- MCWorkloads
  Nothing = Nothing
  MaxWrites = 2
  MaxRestarts = 1
SYMMETRY SlotsAlike
CHECK_DEADLOCK FALSE
INVARIANTS
  TreeOK
  SeenIsOwn
PROPERTIES
  KeptUntilAsked
