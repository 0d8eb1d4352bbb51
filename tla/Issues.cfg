SPECIFICATION Spec
CONSTANTS
  Agents = {a1, a2}
  Publications = {"en", "es"}
  DefaultPublication = "en"
  MinItems <- MCMinItems
  Page <- MCPage
  Draft <- MCDraft
  Searches <- MCSearches
  Calls <- MCCalls
  Subscribers = {s1, s2}
  Mortal = {"bill"}
  MinOverlap = 2
  MinShared = 1
  MaxAge = 1
  MaxPerSource = 2
  MaxPerStory = 2
  MaxCandidates = 3
  DedupIssues = 1
  None = None
  MaxDay = 2
  MaxSlot = 2
  MaxHarvests = 2
  MaxCalls = 2
  MaxFaults = 1
INVARIANTS LinksComeFromPools TrimOnlyAfterWarning
PROPERTY PromiseKept
CHECK_DEADLOCK FALSE
