SPECIFICATION FairSpec
CONSTANTS
  a1 = a1
  a2 = a2
  a3 = a3
  Auths = {a1, a2, a3}
  Nobody = Nobody
  NoObs = NoObs
  None = None
  Base = 1
  Jitter <- MCJitter
  LaneTtl = 2
  Budgets = {"content_minute", "pull_requests"}
  Cap <- MCCap
  Cost <- MCCost
  Period <- MCPeriod
  Backoff <- MCBackoff
  RetryAfters = {0, 3}
  Resets = {2}
  Resubmitting = FALSE
INVARIANTS OneEntryHoldsTheLane
PROPERTIES WritesAreSpaced RetryAfterIsHonoured EveryAuthorizationIsWritten
