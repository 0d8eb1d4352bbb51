SPECIFICATION FairSpec
CONSTANTS
  MaxId = 3
  Users = {ana}
  Facts = {tea, mate}
  Texts <- MCTexts
  FactsOf <- MCFactsOf
  Alike <- MCAlike
  NoRow = NoRow
  NoUser = NoUser
  MaxRetries = 1
  MaxRemembered = 2
  MaxRestarts = 1
CHECK_DEADLOCK FALSE
PROPERTIES
  BackfillServes
  ConsolidationEnds
