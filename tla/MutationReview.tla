--------------------------- MODULE MutationReview ---------------------------
(* From a proposed mutation to the request that would open its pull request:   *)
(*   createNVersionAuditRouting  routing: who must review the proposal         *)
(*   runEvolutionGuard           guard: what the reviews amount to             *)
(*   runMutationPrGenerator      plan: the pull request of an accepted one     *)
(*   runMutationPrTransport      transport: the request that would open it     *)
(* A caller keeps each manifest for the next call; people send reviews at any  *)
(* time, the pool of reviewers changes, and the proposal is replaced while     *)
(* reviews of an earlier one are still held.  Digests cover a manifest but for *)
(* its creation time, so a reference to a manifest is that manifest.  Invalid  *)
(* results are thrown away.                                                    *)
EXTENDS AgentMutations, MutationManifests

CONSTANTS
  MutationRequests,        \* what callers may ask the mutators for
  FirstAgents,     \* the agent documents at the start
  Reviewers,       \* reviewers by their place in the order of reviewer ids
  Key, Focus,      \* Key[r], Focus[r]: independence key and audit focuses
  Conflicts,       \* Conflicts[r]: species whose documents r has a conflict with
  Pools, AuditPolicies, \* candidates and policies a caller may route with
  Repositories,    \* repositories a caller may name
  CodexBranches, DefaultBranches,   \* codex/* branches; main, master and trunk
  OwnBranch,       \* the head branch named after the mutation
  Heads, Bases,    \* branches a caller may name
  MaxReviews,      \* bound on the reviews a caller holds
  MaxMerged        \* bound on the proposals merged one after the other

MaxReviewers == 5
PolicyType == [min_reviewers : 2..MaxReviewers, required_quorum : 2..MaxReviewers,
               required_focuses : SUBSET UNION {Focus[r] : r \in Reviewers}]
PolicyIsValid(p) ==
  p \in PolicyType /\ p.required_quorum <= p.min_reviewers /\ p.required_focuses # {}

ASSUME RequestsAreOfAClass ==
  \A r \in MutationRequests :
    /\ r.class \in MutationClasses
    /\ r.class # "speciation" => r.ops \in Seq({r.ops[i] : i \in DOMAIN r.ops})
ASSUME FirstAgentsAreAgents ==
  /\ DOMAIN FirstAgents = Species
  /\ \A a \in Species : FirstAgents[a] = Absent \/ IsAgent(FirstAgents[a])
ASSUME ReviewersAreOrdered == Reviewers \subseteq Nat
ASSUME PoolsAreReviewers == \A pool \in Pools : pool \subseteq Reviewers /\ IsFiniteSet(pool)
ASSUME OwnBranchIsCodex == OwnBranch \in CodexBranches /\ CodexBranches \cap DefaultBranches = {}
ASSUME ReviewBoundsAreNatural == MaxReviews \in Nat /\ MaxMerged \in Nat

VARIABLES
  agents,    \* the agent documents of the repository
  proposal,  \* the proposal in force
  routing,   \* the routing last computed, perhaps for an earlier proposal
  reviews,   \* the reviews a caller holds
  guard,     \* the guard's decision last computed
  plan,      \* the pull request plan
  transport, \* the transport request
  merged     \* number of proposals merged

reviewVars == <<agents, proposal, routing, reviews, guard, plan, transport, merged>>
manifests == <<guard, plan, transport>>

ReviewInit ==
  /\ agents = FirstAgents
  /\ proposal = None /\ routing = None /\ reviews = {}
  /\ guard = None /\ plan = None /\ transport = None
  /\ merged = 0

(* A manifest computed again is the one the caller already has; another one     *)
(* makes those computed from it worthless to the caller.                       *)
StartOver == guard' = None /\ plan' = None /\ transport' = None

Propose(r) ==
  /\ merged < MaxMerged
  /\ DryRun(agents, r) \notin {Rejected, proposal}
  /\ proposal' = DryRun(agents, r)
  /\ StartOver
  /\ UNCHANGED <<agents, routing, reviews, merged>>

(***************************************************************************)
(* Routing (T049)                                                          *)
(***************************************************************************)
(* Mutant: conflicts are not looked at. *)
Anybody(p, pool) == pool
Eligible(p, pool) == {r \in pool : Conflicts[r] \cap TargetPaths(p.request) = {}}

Covered(rs) == UNION {Focus[r] : r \in rs}
IsEnough(policy, rs) ==
  Cardinality(rs) >= policy.min_reviewers /\ policy.required_focuses \subseteq Covered(rs)

(* In the order of their ids, the first eligible reviewer of each key, until   *)
(* those taken are enough.                                                     *)
SelectReviewers(p, pool, policy) ==
  LET first == {r \in Eligible(p, pool) : \A q \in Eligible(p, pool) : q < r => Key[q] # Key[r]}
  IN {r \in first : ~IsEnough(policy, {q \in first : q < r})}

CoversPolicy(policy, routes) ==
  IsEnough(policy, routes) /\ policy.required_quorum <= Cardinality(routes)

(* validateNVersionAuditRouting: what a routing given to the guard must be.    *)
RoutesReadBack(policy, routes) ==
  IsEnough(policy, routes) /\ \A r, q \in routes : Key[r] = Key[q] => r = q
RoutingReadsBack(rt) == PolicyIsValid(rt.policy) /\ RoutesReadBack(rt.policy, rt.routes)

Route(pool, policy) ==
  /\ proposal # None
  /\ pool # {} /\ PolicyIsValid(policy)
  /\ LET routes == SelectReviewers(proposal, pool, policy) IN
     /\ CoversPolicy(policy, routes)
     /\ routing' = [proposal |-> proposal, policy |-> policy, routes |-> routes]
  /\ routing' # routing
  /\ StartOver
  /\ UNCHANGED <<agents, proposal, reviews, merged>>

(***************************************************************************)

Review(r, decision, blocking) ==
  /\ routing # None
  /\ r \in routing.routes
  /\ Cardinality(reviews) < MaxReviews
  /\ reviews' = reviews \cup {[reviewer |-> r, routing |-> routing, decision |-> decision, blocking |-> blocking]}
  /\ UNCHANGED <<agents, proposal, routing, manifests, merged>>

(* validateRouting: the ids and the target paths must be the proposal's.       *)
RoutingMatches(p, rt) ==
  /\ ProposalId(rt.proposal) = ProposalId(p)
  /\ TargetPaths(rt.proposal.request) = TargetPaths(p.request)

EvidenceIsValid(rt, given) ==
  /\ \A v \in given : v.routing = rt /\ v.reviewer \in rt.routes
  /\ \A v, w \in given : v.reviewer = w.reviewer => v = w

Deciding(given, decision) == {v \in given : v.decision = decision}
BlockingIn(given) == {v \in given : v.blocking}
Missing(rt, given) == rt.routes \ {v.reviewer : v \in given}

EvaluateReviews(rt, given) ==
  IF Missing(rt, given) # {} THEN "hold"
  ELSE IF BlockingIn(given) \cup Deciding(given, "reject") # {} THEN "reject"
  ELSE IF Deciding(given, "hold") = {}
          /\ Cardinality(Deciding(given, "approve")) >= rt.policy.required_quorum THEN "accept"
  ELSE "hold"

(* validateQuorumSummary: a decision and the counts kept beside it.            *)
DecisionFits(rt, given, decision) ==
  LET approvals == Cardinality(Deciding(given, "approve")) IN
  /\ decision = "accept" =>
       /\ Missing(rt, given) = {} /\ approvals >= rt.policy.required_quorum
       /\ Deciding(given, "reject") \cup Deciding(given, "hold") \cup BlockingIn(given) = {}
  /\ decision = "reject" => Deciding(given, "reject") \cup BlockingIn(given) # {}
  /\ decision = "hold" =>
       Missing(rt, given) # {} \/ Deciding(given, "hold") # {} \/ approvals < rt.policy.required_quorum

GuardReadsBack(g) ==
  /\ EvidenceIsValid(g.routing, g.reviews)
  /\ TargetPaths(g.routing.proposal.request) = TargetPaths(g.proposal.request)
  /\ DecisionFits(g.routing, g.reviews, g.decision)

RunGuard(given) ==
  /\ proposal # None /\ routing # None
  /\ guard # None => guard.decision # "accept"
  /\ RoutingReadsBack(routing) /\ RoutingMatches(proposal, routing)
  /\ EvidenceIsValid(routing, given)
  /\ guard' = [proposal |-> proposal, routing |-> routing, reviews |-> given,
               decision |-> EvaluateReviews(routing, given)]
  /\ plan' = None /\ transport' = None
  /\ UNCHANGED <<agents, proposal, routing, reviews, merged>>

(***************************************************************************)
(* The plan (T051) and the request (T052)                                  *)
(***************************************************************************)
HeadOf(head) == IF head = None THEN OwnBranch ELSE head
BaseOf(base) == IF base = None THEN "main" ELSE base
IsDefaultBranchTarget(head, base) == head = base \/ head \in DefaultBranches

PlanReadsBack(pl) ==
  pl # Blocked =>
     /\ pl.guard.decision = "accept"
     /\ pl.head \in CodexBranches /\ ~IsDefaultBranchTarget(pl.head, pl.base)

(* A plan that would not read back is invalid, and thrown away.                *)
Generate(repository, head, base) ==
  /\ guard # None /\ plan = None
  /\ GuardReadsBack(guard)
  /\ plan' = IF guard.decision = "accept"
             THEN [guard |-> guard, repository |-> repository, head |-> HeadOf(head), base |-> BaseOf(base)]
             ELSE Blocked
  /\ PlanReadsBack(plan')
  /\ UNCHANGED <<agents, proposal, routing, reviews, guard, transport, merged>>

RequestReadsBack(q) ==
  q # Blocked =>
     q.repository # None /\ q.plan.head # q.plan.base /\ q.plan.head \notin DefaultBranches

Prepare(repository) ==
  /\ plan # None /\ transport = None
  /\ PlanReadsBack(plan)
  /\ transport' = IF plan = Blocked THEN Blocked
                ELSE [plan |-> plan,
                      repository |-> IF repository # None THEN repository ELSE plan.repository]
  /\ RequestReadsBack(transport')
  /\ UNCHANGED <<agents, proposal, routing, reviews, guard, plan, merged>>

IsReady(q) == q # None /\ q # Blocked

(* People open and merge the pull request; git refuses one whose documents     *)
(* changed since the dry run.  The caller throws its routing and the reviews   *)
(* away, or keeps them.                                                        *)
Merge ==
  /\ IsReady(transport)
  /\ merged < MaxMerged
  /\ LET p == transport.plan.guard.proposal IN
     /\ ReadBy(agents, DOMAIN p.source) = p.source
     /\ agents' = Merged(agents, p.request)
  /\ proposal' = None /\ StartOver
  /\ merged' = merged + 1
  /\ \/ routing' = None /\ reviews' = {}
     \/ UNCHANGED <<routing, reviews>>

ReviewNext ==
  \/ \E r \in MutationRequests : Propose(r)
  \/ \E pool \in Pools, policy \in AuditPolicies : Route(pool, policy)
  \/ \E r \in Reviewers, d \in Decisions, b \in BOOLEAN : Review(r, d, b)
  \/ \E given \in SUBSET reviews : RunGuard(given)
  \/ \E repository \in Repositories \cup {None}, head \in Heads \cup {None}, base \in Bases \cup {None} :
       Generate(repository, head, base)
  \/ \E repository \in Repositories \cup {None} : Prepare(repository)
  \/ Merge

ReviewSpec == ReviewInit /\ [][ReviewNext]_reviewVars

(***************************************************************************)
(* Properties                                                              *)
(***************************************************************************)
IsProposal(p) ==
  /\ DOMAIN p = {"request", "source", "expansion"}
  /\ p.request \in MutationRequests /\ p.expansion \in BOOLEAN
  /\ \A a \in DOMAIN p.source : a \in Species /\ IsAgent(p.source[a])
IsRouting(rt) ==
  /\ DOMAIN rt = {"proposal", "policy", "routes"}
  /\ IsProposal(rt.proposal) /\ rt.policy \in PolicyType /\ rt.routes \subseteq Reviewers
IsReview(v) ==
  /\ DOMAIN v = {"reviewer", "routing", "decision", "blocking"}
  /\ v.reviewer \in Reviewers /\ IsRouting(v.routing)
  /\ v.decision \in Decisions /\ v.blocking \in BOOLEAN
IsGuard(g) ==
  /\ DOMAIN g = {"proposal", "routing", "reviews", "decision"}
  /\ IsProposal(g.proposal) /\ IsRouting(g.routing) /\ \A v \in g.reviews : IsReview(v)
  /\ g.decision \in {"accept", "reject", "hold"}
IsPlan(pl) ==
  /\ DOMAIN pl = {"guard", "repository", "head", "base"}
  /\ IsGuard(pl.guard) /\ pl.repository \in Repositories \cup {None}
  /\ pl.head \in Heads \cup {OwnBranch} /\ pl.base \in Bases \cup {"main"}

ReviewTypeOK ==
  /\ \A a \in Species : agents[a] = Absent \/ IsAgent(agents[a])
  /\ proposal = None \/ IsProposal(proposal)
  /\ routing = None \/ IsRouting(routing)
  /\ \A v \in reviews : IsReview(v)
  /\ guard = None \/ IsGuard(guard)
  /\ plan \in {None, Blocked} \/ IsPlan(plan)
  /\ transport \in {None, Blocked} \/ (IsPlan(transport.plan) /\ transport.repository \in Repositories)
  /\ merged \in 0..MaxMerged

(* A request that would open a pull request was approved by every reviewer it  *)
(* was routed to, none of whom found anything blocking: at least two people,   *)
(* no two with the same independence key, none in conflict with a document it  *)
(* changes, reviewing a proposal with its ids and its targets.                 *)
IsIndependent(rs, targets) ==
  /\ Cardinality(rs) >= 2
  /\ \A r, q \in rs : Key[r] = Key[q] => r = q
  /\ \A r \in rs : Conflicts[r] \cap targets = {}
RequestsAreUnanimous ==
  IsReady(transport) =>
    LET g == transport.plan.guard IN
    /\ IsIndependent(g.routing.routes, TargetPaths(g.proposal.request))
    /\ \A r \in g.routing.routes : \E v \in g.reviews :
         v.reviewer = r /\ v.decision = "approve" /\ ~v.blocking /\ v.routing = g.routing
    /\ RoutingMatches(g.proposal, g.routing)

(* A proposal whose routes allow anything the document did not allow before    *)
(* says so in its review gate: a route of a new name, or one of a name it had  *)
(* with a wider mode, more calls or more time.                                 *)
Widens(before, after) ==
  \E r \in DOMAIN after :
    r \in DOMAIN before =>
      \/ after[r].mode > before[r].mode
      \/ after[r].max_calls > before[r].max_calls
      \/ after[r].timeout > before[r].timeout
ExpansionsAreFlagged ==
  proposal # None /\ proposal.request.class = "tool_routing" =>
    LET q == proposal.request
        before == proposal.source[q.target].tools
    IN Widens(before, PatchedTools(before, q.ops)) => proposal.expansion

(* No merged proposal leaves a tool route of an agent asking for less approval *)
(* than it did: not by replacing it, nor by giving its name to another route.  *)
ApprovalsNeverWeaken ==
  [][\A a \in Species : agents[a] # Absent /\ agents'[a] # Absent /\ agents'[a].sid = agents[a].sid =>
       \A r \in DOMAIN agents[a].tools \cap DOMAIN agents'[a].tools :
         ~WeakensApproval(agents[a].tools[r], agents'[a].tools[r])]_reviewVars
=============================================================================
