SPECIFICATION Spec
CONSTANTS
  Calls <- MCCalls
  Libraries <- MCLibraries
  Forever = Forever
  None = None
  PipeSize = 2
  MaxOutput = 2
CHECK_DEADLOCK FALSE
INVARIANTS
  OutputComplete
  ContractKept

  
