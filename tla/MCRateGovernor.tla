--------------------------- MODULE MCRateGovernor ---------------------------
(* Constants of the RateGovernor runs: a minute of content and an hour of PRs  *)
(* shrunk to windows of two and three ticks, a two-step backoff.               *)
EXTENDS RateGovernor

CONSTANTS a1, a2, a3

MCJitter == [a \in Auths |-> IF a = a1 THEN 0 ELSE 1]
MCCap == [b \in Budgets |-> IF b = "pull_requests" THEN 2 ELSE 1]
MCCost == [b \in Budgets |-> 1]
MCPeriod == [b \in Budgets |-> IF b = "pull_requests" THEN 3 ELSE 2]
MCBackoff == <<1, 2>>
=============================================================================
