SPECIFICATION FairSpec
CONSTANTS
  MaxRequests = 2
  CheckIds = {"ci", "lint"}
  Reports = {"optional", "all", "missing", "twice"}
  Given <- MCGiven
  Wanted <- MCWanted
  AllGiven = AllGiven
  GateReports <- MCGates
  Names = {"ann", "@ann", "bob", "eve"}
  Logins = {"ann", "bob", "eve"}
  Login <- MCLogin
  Offered <- MCOffered
  Policy <- MCPolicy
  MaxReceipts = 2
  None = None
  Blocked = Blocked
INVARIANTS OnItsWayWasApproved
PROPERTIES GoodChecksAreReady
