SPECIFICATION DemoSpec
CONSTANTS
  Items <- MCItems
  Candidates <- MCCandidates
  Bases <- MCBases
  Branches = {}
  CommandSets <- MCCommandSets
  Outputs <- MCOutputs
  None = None
  MaxPlans = 2
  MaxOutputs = 2
  DemoInputs <- MCDemoInputs
CHECK_DEADLOCK FALSE
INVARIANTS ElevatedRunsAreApproved GovernanceIsNeverComposed ComposedIsInScope ReadyDemosAreCleared
