-------------------------- MODULE MCMutationReview --------------------------
(* One agent with two tool routes, a patch of each kind and the renames that   *)
(* could smuggle a weaker approval in; splits and merges that reuse the ids of *)
(* parents and of their parents; four reviewers, two of them of one team and   *)
(* one in conflict with a child; a policy whose quorum nobody can reach.        *)
EXTENDS MutationReview

RouteValue(name, mode, calls, approval) ==
  [name |-> name, mode |-> mode, max_calls |-> calls, timeout |-> 1, approval |-> approval]
FirstTools == [r \in {"repo.read", "pr.open"} |->
  IF r = "repo.read" THEN RouteValue(r, Read, 2, NoApproval) ELSE RouteValue(r, WriteManifest, 1, Human)]
MCFirstAgents == [a \in Species |->
  IF a = "planner.alpha"
  THEN [sid |-> "sp_0", ancestry |-> {}, prompt |-> [f \in {"summary"} |-> "old"], tools |-> FirstTools]
  ELSE Absent]

PromptOp(op, field, value) == [op |-> op, field |-> field, value |-> value]
PromptRequest(ops) == [class |-> "prompt_patch", target |-> "planner.alpha", ops |-> ops]
RouteOp(op, route, value) == [op |-> op, route |-> route, value |-> value]
RouteRequest(ops) == [class |-> "tool_routing", target |-> "planner.alpha", ops |-> ops]
Child(species, sid) == [species |-> species, sid |-> sid]
Split(parent, children) ==
  [class |-> "speciation", mode |-> "split", parents |-> {parent}, children |-> children]
Join(parents, child) ==
  [class |-> "speciation", mode |-> "merge", parents |-> parents, children |-> <<child>>]

MCMutationRequests ==
  { PromptRequest(<<PromptOp("replace", "summary", "new"), PromptOp("add", "title", "new")>>),
    RouteRequest(<<RouteOp("replace", "pr.open", RouteValue("pr.open", Read, 1, NoApproval))>>),
    RouteRequest(<<RouteOp("replace", "repo.read", RouteValue("repo.list", Read, 2, CodeOwner))>>),
    RouteRequest(<<RouteOp("remove", "pr.open", NoValue),
                   RouteOp("replace", "repo.read", RouteValue("pr.open", WriteManifest, 1, NoApproval))>>),
    Split("planner.alpha", <<Child("planner.beta", "sp_1"), Child("auditor.gamma", "sp_2")>>),
    Split("planner.beta", <<Child("planner.alpha", "sp_0"), Child("auditor.gamma", "sp_2")>>),
    Join({"planner.alpha", "planner.beta"}, Child("auditor.gamma", "sp_3")) }

MCKey == [r \in Reviewers |-> CASE r \in {1, 2} -> "core" [] r = 3 -> "security" [] r = 4 -> "lineage"]
MCFocus == [r \in Reviewers |-> CASE r = 1 -> {"state"} [] r = 2 -> {"lineage"} [] r = 3 -> {"security"} [] r = 4 -> {"lineage"}]
MCConflicts == [r \in Reviewers |-> IF r = 1 THEN {"auditor.gamma"} ELSE {}]
Policy(minimum, quorum, focuses) ==
  [min_reviewers |-> minimum, required_quorum |-> quorum, required_focuses |-> focuses]
(* Of the three, one is valid. *)
MCAuditPolicies == { Policy(2, 2, {"security"}), Policy(2, 3, {"security"}), Policy(2, 2, {}) }
=============================================================================
