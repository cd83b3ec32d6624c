SPECIFICATION ReviewSpec
CONSTANTS
  Species = {"planner.alpha", "planner.beta", "auditor.gamma"}
  Sids = {"sp_0", "sp_1", "sp_2", "sp_3"}
  Fields = {"summary", "title"}
  Texts = {"old", "new"}
  Routes = {"repo.read", "repo.list", "pr.open"}
  Absent = Absent
  NoValue = NoValue
  MutationRequests <- MCMutationRequests
  FirstAgents <- MCFirstAgents
  Reviewers = {1, 2, 3, 4}
  Key <- MCKey
  Focus <- MCFocus
  Conflicts <- MCConflicts
  Pools = {{1, 2, 3, 4}}
  AuditPolicies <- MCAuditPolicies
  Rejected = Rejected
  Repositories = {"o/r"}
  CodexBranches = {"codex/own", "codex/other"}
  DefaultBranches = {"main", "master", "trunk"}
  OwnBranch = "codex/own"
  Heads = {"main", "codex/other"}
  Bases = {"codex/other"}
  None = None
  Blocked = Blocked
  MaxReviews = 2
  MaxMerged = 2
CHECK_DEADLOCK FALSE
INVARIANTS RequestsAreUnanimous ExpansionsAreFlagged
PROPERTIES ApprovalsNeverWeaken
