SPECIFICATION FairSpec
CONSTANTS
  Tools <- MCTools
  ScriptKeys <- MCScriptKeys
  NoKey = NoKey
  Calls <- MCCalls
  ToolOf <- MCToolOf
  ScriptKeyOf <- MCScriptKeyOf
  Configs <- MCConfigs
  SameToolFloor = 2
  MaxParallel = 2
CHECK_DEADLOCK FALSE
INVARIANTS
  AnswerMeetsContract
  AnswerFitsSchema
  BudgetRespected
  RepeatsRunTwice
  IInv
PROPERTIES
  Termination
