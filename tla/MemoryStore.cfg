SPECIFICATION Spec
CONSTANTS
  MaxId = 3
  Users = {ana, bo}
  Facts = {tea, mate}
  Texts <- MCTexts
  FactsOf <- MCFactsOf
  Alike <- MCAlike
  NoRow = NoRow
  NoUser = NoUser
  MaxRetries = 1
  MaxRemembered = 2
  MaxRestarts = 1
SYMMETRY MCSymmetry
CHECK_DEADLOCK FALSE
INVARIANTS
  TypeOK
  VectorIsOwn
  FactsKept
