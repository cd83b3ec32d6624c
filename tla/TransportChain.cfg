SPECIFICATION FairSpec
CONSTANTS
  low = low
  code = code
  own = own
  manual = manual
  Changes = {low, own}
  Class <- MCClass
  Risk <- MCRisk
  Sound = {low, code, own, manual}
  Governed = {}
  Traceable = {low, code, own, manual}
  ReviewKept = {code, own, manual}
  People = {"ann", "owner"}
  SelfApprovers = {"bot"}
  Offered <- MCOffered
  OperatorModes = {"evolve"}
  Dates = {}
  NoDate = NoDate
  KeepDate = KeepDate
  None = None
  FreshAtCheckpoint = {low}
  FreshAtGovernor = {own}
  MaxRecords = 2
  MaxQueued = 1
INVARIANTS WritesAreApproved
PROPERTIES StopsReachTheQueue ReadyChangesAreQueued
