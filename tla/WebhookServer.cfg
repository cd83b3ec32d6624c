SPECIFICATION FairServerSpec
CONSTANTS
  Requests = {r1, r2}
  Inbound <- MCInbound
  None = None
  KillRoute = TRUE
  MaxBody = 2
  MaxQueued = 1
INVARIANTS HandedOnWereAccepted AnswersFollowTheReport
PROPERTIES KillSwitchAnswersAreTrue AcceptedAreHandedOn
