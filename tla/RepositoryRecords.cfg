SPECIFICATION Spec
CONSTANTS
  Texts <- MCTexts
  Blank = ""
  Cost <- MCCost
  Relevance <- MCRelevance
  Lower <- MCLower
  Policy <- MCPolicy
  Nfc <- MCNfc
  Numeric = {"1"}
  Special = {}
  RolePrefix <- MCRolePrefix
  Duties = {"follow", "recall", "screen", "read", "seal", "rehearse"}
  MaxHead = 2
  MaxChanges = 5
  MaxValues = 3
  Queries = {"q"}
  Budgets = {4, 6}
  Findings <- MCFindings
  GateRuntimes <- MCRuntimes
  Rates <- MCRates
  SourceLines <- MCLines
  MaxLines = 4
  Places <- MCPlaces
  Documents <- MCDocuments
  Values <- MCValues
  Refs <- MCRefs
  None = None
CHECK_DEADLOCK FALSE
INVARIANTS OutcomeIsFactual NothingThatFitsIsLeftOut DuplicatesAreFound SealsTellTheTruth ShadowRunsNameWhatTheKernelReads
PROPERTIES GateNeverSoftens
