------------------------ MODULE MutationChain_proofs ------------------------
(* What holds of the mutation chain: of its first half, up to the request, for *)
(* any agents, requests to the mutators, reviewers and policies; of its second *)
(* half, from the request to the bundle, for every number of requests, checks, *)
(* people and receipts.                                                        *)
EXTENDS MutationReview, MutationTransport, FiniteSetTheorems, NaturalsInduction,
        WellFoundedInduction, TLAPS

(***************************************************************************)
(* From the proposal to the request: the patches                           *)
(***************************************************************************)
(* A set of natural numbers that is not empty has a least one.                 *)
LEMMA LeastOf ==
  ASSUME NEW T \in SUBSET Nat, T # {}
  PROVE  \E n \in T : \A k \in T : n <= k
<1> DEFINE R == {ss \in Nat \X Nat : ss[1] < ss[2]}
<1>1. IsWellFoundedOn(R, Nat)
  BY NatLessThanWellFounded, Zenon DEF OpToRel
<1> HIDE DEF R
<1>2. PICK n \in T : \A k \in T : ~(<<k, n>> \in R)
  BY <1>1, WFMin
<1>3. \A k \in T : ~(k < n)
  BY <1>2 DEF R
<1> QED
  BY <1>3

(* There is a sequence of stages, each computed from the one before.           *)
LEMMA StagesAre ==
  ASSUME NEW tools, NEW ops, Len(ops) \in Nat
  PROVE  RouteStages(tools, ops) =
           [n \in 0..Len(ops) |->
              IF n = 0 THEN tools ELSE ApplyRouteOp(RouteStages(tools, ops)[n - 1], ops[n])]
<1> DEFINE Is(f, m) == f = [n \in 0..m |-> IF n = 0 THEN tools ELSE ApplyRouteOp(f[n - 1], ops[n])]
           Lacking(m) == ~ \E f : Is(f, m)
           Lengths == {m \in Nat : Lacking(m)}
<1>1. Lengths = {}
  <2> SUFFICES ASSUME Lengths # {} PROVE FALSE
    OBVIOUS
  <2>1. PICK m \in Lengths : \A k \in Lengths : m <= k
    BY LeastOf
  <2>2. m \in Nat /\ m # 0
    <3> DEFINE f == [n \in 0..0 |-> tools]
    <3>1. Is(f, 0)
      OBVIOUS
    <3> QED
      BY <3>1
  <2>3. m - 1 \in Nat /\ m - 1 \notin Lengths
    <3> HIDE DEF Lengths
    <3> QED
      BY <2>1, <2>2
  <2>4. PICK f : Is(f, m - 1)
    BY <2>3
  <2>5. \A n \in 0..(m - 1) : f[n] = IF n = 0 THEN tools ELSE ApplyRouteOp(f[n - 1], ops[n])
    BY <2>4
  <2> DEFINE g == [n \in 0..m |-> IF n = m THEN ApplyRouteOp(f[m - 1], ops[m]) ELSE f[n]]
  <2>6. \A n \in 0..m : g[n] = IF n = 0 THEN tools ELSE ApplyRouteOp(g[n - 1], ops[n])
    <3> TAKE n \in 0..m
    <3>1. CASE n = m
      BY <3>1, <2>2
    <3>2. CASE n # m
      BY <3>2, <2>2, <2>5
    <3> QED
      BY <3>1, <3>2
  <2>7. Is(g, m)
    BY <2>6
  <2> QED
    BY <2>7, <2>1
<1>2. \E f : Is(f, Len(ops))
  BY <1>1
<1>3. RouteStages(tools, ops) = CHOOSE f : Is(f, Len(ops))
  BY DEF RouteStages
<1> HIDE DEF Is
<1>4. Is(RouteStages(tools, ops), Len(ops))
  BY <1>2, <1>3
<1> QED
  BY <1>4 DEF Is

(* A route an operation leaves behind is one it found or its value.            *)
LEMMA RoutesOfAnOperation ==
  ASSUME NEW tools, NEW o, o.op \in {"add", "replace", "remove"}, NEW r \in DOMAIN ApplyRouteOp(tools, o)
  PROVE  \/ r \in DOMAIN tools /\ ApplyRouteOp(tools, o)[r] = tools[r]
         \/ o.op # "remove" /\ r = o.value.name /\ ApplyRouteOp(tools, o)[r] = o.value
<1>1. CASE o.op = "remove"
  BY <1>1 DEF ApplyRouteOp, Without
<1>2. CASE o.op = "add"
  BY <1>2 DEF ApplyRouteOp, With
<1>3. CASE o.op = "replace"
  BY <1>3 DEF ApplyRouteOp, With, Without
<1> QED
  BY <1>1, <1>2, <1>3

(* A route of a document patched by valid operations is one it had, or the     *)
(* value of an operation that took nobody else's name.                         *)
IsValueOf(tools, o, r, v) ==
  /\ o.op \in {"add", "replace"} /\ v = o.value /\ r = o.value.name
  /\ RouteOpIsValid(tools, o)
IsPatch(tools, ops) ==
  /\ AreTools(tools)
  /\ ops \in Seq({ops[i] : i \in DOMAIN ops})
  /\ \A i \in DOMAIN ops : ops[i].op \in {"add", "replace", "remove"} /\ RouteOpIsValid(tools, ops[i])

LEMMA RoutesOfAPatch ==
  ASSUME NEW tools, NEW ops, IsPatch(tools, ops), NEW r \in DOMAIN PatchedTools(tools, ops)
  PROVE  \/ r \in DOMAIN tools /\ PatchedTools(tools, ops)[r] = tools[r]
         \/ \E i \in DOMAIN ops : IsValueOf(tools, ops[i], r, PatchedTools(tools, ops)[r])
<1> DEFINE at == RouteStages(tools, ops)
           Known(n, q) == \/ q \in DOMAIN tools /\ at[n][q] = tools[q]
                          \/ \E i \in DOMAIN ops : IsValueOf(tools, ops[i], q, at[n][q])
           Stray == {n \in 0..Len(ops) : \E q \in DOMAIN at[n] : ~Known(n, q)}
<1>1. Len(ops) \in Nat /\ DOMAIN ops = 1..Len(ops)
  BY DEF IsPatch
<1>2. \A n \in 0..Len(ops) : at[n] = IF n = 0 THEN tools ELSE ApplyRouteOp(at[n - 1], ops[n])
  BY <1>1, StagesAre
<1> HIDE DEF at
<1>3. Stray = {}
  <2> SUFFICES ASSUME Stray # {} PROVE FALSE
    OBVIOUS
  <2>1. PICK n \in Stray : \A k \in Stray : n <= k
    <3>1. Stray \in SUBSET Nat
      BY <1>1
    <3> HIDE DEF Stray
    <3> QED
      BY <3>1, LeastOf
  <2>2. PICK q \in DOMAIN at[n] : ~Known(n, q)
    BY <2>1
  <2>3. n \in 0..Len(ops) /\ n # 0
    BY <2>1, <2>2, <1>2
  <2>4. n - 1 \in 0..Len(ops) /\ n - 1 \notin Stray
    BY <2>1, <2>3, <1>1
  <2>5. \A s \in DOMAIN at[n - 1] : Known(n - 1, s)
    BY <2>4
  <2>6. n \in DOMAIN ops /\ at[n] = ApplyRouteOp(at[n - 1], ops[n])
    BY <1>1, <1>2, <2>3
  <2>7. ops[n].op \in {"add", "replace", "remove"} /\ RouteOpIsValid(tools, ops[n])
    BY <2>6 DEF IsPatch
  <2>8. \/ q \in DOMAIN at[n - 1] /\ at[n][q] = at[n - 1][q]
        \/ ops[n].op # "remove" /\ q = ops[n].value.name /\ at[n][q] = ops[n].value
    BY <2>2, <2>6, <2>7, RoutesOfAnOperation
  <2>9. Known(n, q)
    BY <2>5, <2>6, <2>7, <2>8 DEF IsValueOf
  <2> QED
    BY <2>2, <2>9
<1>4. PatchedTools(tools, ops) = at[Len(ops)] /\ Len(ops) \in 0..Len(ops)
  BY <1>1 DEF PatchedTools, at
<1> QED
  BY <1>3, <1>4

(* The value of an operation is a route of its name, and does not ask for less *)
(* approval than the route it replaces; a wider one is an expansion.           *)
LEMMA ValuesAreRoutes ==
  ASSUME NEW tools, AreTools(tools), NEW o, NEW r, NEW v, IsValueOf(tools, o, r, v)
  PROVE  /\ v \in ToolRouteValues /\ r = v.name /\ r \in Routes
         /\ r \in DOMAIN tools => ~WeakensApproval(tools[r], v)
         /\ \/ r \notin DOMAIN tools
            \/ v.mode > tools[r].mode \/ v.max_calls > tools[r].max_calls
            \/ v.timeout > tools[r].timeout
            => IsPermissionExpansion(tools, o)
<1>1. o.value \in ToolRouteValues
  BY DEF IsValueOf, RouteOpIsValid, RouteIsAllowed
<1>2. o.value # NoValue /\ r \in Routes
  BY <1>1, NoValueIsNoRoute DEF ToolRouteValues, IsValueOf
<1>3. r \in DOMAIN tools => r = o.route
  BY <1>2 DEF IsValueOf, RouteOpIsValid, TakesExisting
<1>4. o.op = "add" => o.route = r /\ r \notin DOMAIN tools
  BY DEF IsValueOf, RouteOpIsValid
<1>5. o.op = "replace" => o.route \in DOMAIN tools /\ ~WeakensApproval(tools[o.route], o.value)
  BY DEF IsValueOf, RouteOpIsValid
<1>6. r \notin DOMAIN tools /\ o.op = "replace" => o.value.name # o.route
  BY <1>5 DEF IsValueOf
<1> QED
  BY <1>1, <1>2, <1>3, <1>4, <1>5, <1>6 DEF IsValueOf, IsPermissionExpansion

(* What a valid patch leaves is a set of tool routes again.                   *)
LEMMA PatchedToolsAreTools ==
  ASSUME NEW tools, NEW ops, IsPatch(tools, ops)
  PROVE  AreTools(PatchedTools(tools, ops))
<1> DEFINE after == PatchedTools(tools, ops)
<1> HIDE DEF after
<1>1. AreTools(tools)
  BY DEF IsPatch
<1> SUFFICES ASSUME NEW r \in DOMAIN after
             PROVE  r \in Routes /\ after[r] \in ToolRouteValues /\ after[r].name = r
  BY DEF AreTools, after
<1>2. \/ r \in DOMAIN tools /\ after[r] = tools[r]
      \/ \E i \in DOMAIN ops : IsValueOf(tools, ops[i], r, after[r])
  BY RoutesOfAPatch DEF after
<1>3. CASE r \in DOMAIN tools /\ after[r] = tools[r]
  BY <1>1, <1>3 DEF AreTools
<1>4. CASE \E i \in DOMAIN ops : IsValueOf(tools, ops[i], r, after[r])
  BY <1>1, <1>4, ValuesAreRoutes
<1> QED
  BY <1>2, <1>3, <1>4

(* No route a valid patch leaves under an old name asks for less approval.    *)
LEMMA PatchesKeepApproval ==
  ASSUME NEW tools, NEW ops, IsPatch(tools, ops),
         NEW r \in DOMAIN tools \cap DOMAIN PatchedTools(tools, ops)
  PROVE  ~WeakensApproval(tools[r], PatchedTools(tools, ops)[r])
<1> DEFINE v == PatchedTools(tools, ops)[r]
<1>1. AreTools(tools)
  BY DEF IsPatch
<1>2. v = tools[r] \/ \E i \in DOMAIN ops : IsValueOf(tools, ops[i], r, v)
  BY RoutesOfAPatch
<1> HIDE DEF v
<1>3. tools[r].approval \in Int
  BY <1>1 DEF AreTools, ToolRouteValues, NoApproval, HighestApproval, CodeOwner
<1>4. ~WeakensApproval(tools[r], v)
  BY <1>1, <1>2, <1>3, ValuesAreRoutes DEF WeakensApproval
<1> QED
  BY <1>4 DEF v

(* A valid patch that widens a route, or adds one, is told to the review gate.*)
LEMMA WideningIsAnExpansion ==
  ASSUME NEW tools, NEW ops, IsPatch(tools, ops), Widens(tools, PatchedTools(tools, ops))
  PROVE  ExpansionPresent(tools, ops)
<1> DEFINE after == PatchedTools(tools, ops)
<1>1. AreTools(tools)
  BY DEF IsPatch
<1>2. \A r \in DOMAIN after : \/ r \in DOMAIN tools /\ after[r] = tools[r]
                              \/ \E i \in DOMAIN ops : IsValueOf(tools, ops[i], r, after[r])
  BY RoutesOfAPatch
<1> HIDE DEF after
<1>3. PICK r \in DOMAIN after :
        r \in DOMAIN tools =>
          \/ after[r].mode > tools[r].mode \/ after[r].max_calls > tools[r].max_calls
          \/ after[r].timeout > tools[r].timeout
  BY DEF Widens, after
<1>4. ~(r \in DOMAIN tools /\ after[r] = tools[r])
  <2> SUFFICES ASSUME r \in DOMAIN tools, after[r] = tools[r] PROVE FALSE
    OBVIOUS
  <2>1. tools[r].mode \in Int /\ tools[r].max_calls \in Int /\ tools[r].timeout \in Int
    BY <1>1 DEF AreTools, ToolRouteValues, Read, HighestMode, WriteManifest, MaxCallsUpperBound,
                TimeoutUpperBound
  <2> QED
    BY <1>3, <2>1
<1>5. PICK i \in DOMAIN ops : IsValueOf(tools, ops[i], r, after[r])
  BY <1>2, <1>4
<1>6. IsPermissionExpansion(tools, ops[i])
  BY <1>1, <1>3, <1>5, ValuesAreRoutes
<1> QED
  BY <1>6 DEF ExpansionPresent

(***************************************************************************)
(* The invariant                                                           *)
(***************************************************************************)
(* An agent document, as far as patches and merges rely on it.                 *)
IsDocument(d) == DOMAIN d = {"sid", "ancestry", "prompt", "tools"} /\ AreTools(d.tools)

(* A proposal is of a request, made of documents that are agents; that of a    *)
(* tool-routing patch is valid on them and says whether it expands.            *)
ProposalInv(p) ==
  /\ p.request \in MutationRequests
  /\ p.request.class \in {"prompt_patch", "tool_routing"} =>
       /\ p.request.target \in DOMAIN p.source /\ p.request.target \in Species
       /\ IsDocument(p.source[p.request.target])
  /\ p.request.class = "tool_routing" =>
       LET tools == p.source[p.request.target].tools IN
       /\ IsPatch(tools, p.request.ops)
       /\ p.expansion = ExpansionPresent(tools, p.request.ops)
RoutingInv(rt) == IsIndependent(rt.routes, TargetPaths(rt.proposal.request))
GuardInv(g) ==
  /\ ProposalInv(g.proposal) /\ RoutingInv(g.routing)
  /\ RoutingMatches(g.proposal, g.routing) /\ EvidenceIsValid(g.routing, g.reviews)
  /\ \A v \in g.reviews : v.decision \in Decisions
  /\ g.decision = EvaluateReviews(g.routing, g.reviews)
PlanInv(pl) == GuardInv(pl.guard) /\ pl.guard.decision = "accept"

ReviewInv ==
  /\ DOMAIN agents = Species /\ \A a \in Species : agents[a] = Absent \/ IsDocument(agents[a])
  /\ proposal # None => ProposalInv(proposal)
  /\ routing # None => RoutingInv(routing)
  /\ \A v \in reviews : v.decision \in Decisions
  /\ guard # None => GuardInv(guard)
  /\ plan \notin {None, Blocked} => PlanInv(plan)
  /\ transport \notin {None, Blocked} => PlanInv(transport.plan)

(* A dry run that is not rejected answers with a good proposal.               *)
LEMMA ProposalsAreGood ==
  ASSUME DOMAIN agents = Species, \A a \in Species : agents[a] = Absent \/ IsDocument(agents[a]),
         NEW r \in MutationRequests, DryRun(agents, r) # Rejected
  PROVE  ProposalInv(DryRun(agents, r))
<1> DEFINE p == DryRun(agents, r)
<1>1. r.class \in MutationClasses
  BY RequestsAreOfAClass
<1>2. CASE r.class = "prompt_patch"
  <2>1. DryRun(agents, r) = PromptPatchDryRun(agents, r)
    BY <1>2 DEF DryRun
  <2>2. r.target \in Species /\ agents[r.target] # Absent
    BY <2>1 DEF PromptPatchDryRun, IsPromptRequest
  <2>3. p.request = r /\ p.source = [a \in {r.target} |-> agents[a]]
    BY <2>1 DEF PromptPatchDryRun, Proposal, ReadBy
  <2> HIDE DEF p
  <2> QED
    BY <1>2, <2>2, <2>3 DEF ProposalInv, p
<1>3. CASE r.class = "tool_routing"
  <2> DEFINE tools == agents[r.target].tools
  <2>1. DryRun(agents, r) = ToolRoutingDryRun(agents, r)
    BY <1>3 DEF DryRun
  <2>2. /\ IsRouteRequest(r) /\ agents[r.target] # Absent /\ RoutePatchIsValid(tools, r.ops)
        /\ DryRun(agents, r) = Proposal(r, ReadBy(agents, {r.target}), ExpansionPresent(tools, r.ops))
    BY <2>1 DEF ToolRoutingDryRun
  <2>3. r.target \in Species /\ IsDocument(agents[r.target])
    BY <2>2 DEF IsRouteRequest
  <2>4. r.ops \in Seq({r.ops[i] : i \in DOMAIN r.ops})
    BY <1>3, RequestsAreOfAClass
  <2>5. IsPatch(tools, r.ops)
    BY <2>2, <2>3, <2>4 DEF IsPatch, IsDocument, IsRouteRequest, RoutePatchIsValid
  <2> QED
    BY <1>3, <2>2, <2>3, <2>5 DEF Proposal, ReadBy, ProposalInv
<1>4. CASE r.class = "speciation"
  <2>1. DryRun(agents, r) = SpeciationProposal(agents, r)
    BY <1>4 DEF DryRun
  <2>2. p.request = r
    BY <2>1 DEF SpeciationProposal, Proposal
  <2> HIDE DEF p
  <2> QED
    BY <1>4, <2>2 DEF ProposalInv, p
<1> QED
  BY <1>1, <1>2, <1>3, <1>4 DEF MutationClasses

(* The reviewers selected are independent, and enough.                         *)
LEMMA SelectedAreIndependent ==
  ASSUME NEW p, NEW pool \in Pools, NEW policy, PolicyIsValid(policy),
         CoversPolicy(policy, SelectReviewers(p, pool, policy))
  PROVE  IsIndependent(SelectReviewers(p, pool, policy), TargetPaths(p.request))
<1> DEFINE rs == SelectReviewers(p, pool, policy)
<1>1. rs \subseteq Eligible(p, pool) /\ Eligible(p, pool) \subseteq pool
  BY DEF SelectReviewers, Eligible
<1>2. \A r \in rs : \A q \in Eligible(p, pool) : q < r => Key[q] # Key[r]
  BY DEF SelectReviewers
<1>3. pool \subseteq Nat /\ IsFiniteSet(pool)
  BY PoolsAreReviewers, ReviewersAreOrdered
<1>4. \A r \in rs : Conflicts[r] \cap TargetPaths(p.request) = {}
  BY <1>1 DEF Eligible
<1>5. IsFiniteSet(rs)
  BY <1>1, <1>3, FS_Subset
<1>6. Cardinality(rs) \in Nat
  BY <1>5, FS_CardinalityType
<1>7. policy.min_reviewers \in Int /\ policy.min_reviewers >= 2
  BY DEF PolicyIsValid, PolicyType, MaxReviewers
<1>8. Cardinality(rs) >= policy.min_reviewers
  BY DEF CoversPolicy, IsEnough
<1> HIDE DEF rs
<1>9. Cardinality(rs) >= 2
  BY <1>6, <1>7, <1>8
<1>10. \A r, q \in rs : Key[r] = Key[q] => r = q
  <2> TAKE r, q \in rs
  <2>1. r \in Nat /\ q \in Nat
    BY <1>1, <1>3
  <2>2. q < r \/ r < q \/ r = q
    BY <2>1
  <2> QED
    BY <1>1, <1>2, <2>2
<1> QED
  BY <1>4, <1>9, <1>10 DEF IsIndependent, rs

(* A merge leaves agent documents behind.                                      *)
LEMMA MergedAreDocuments ==
  ASSUME DOMAIN agents = Species, \A a \in Species : agents[a] = Absent \/ IsDocument(agents[a]),
         NEW p, ProposalInv(p), ReadBy(agents, DOMAIN p.source) = p.source
  PROVE  LET after == Merged(agents, p.request) IN
         DOMAIN after = Species /\ \A a \in Species : after[a] = Absent \/ IsDocument(after[a])
<1> DEFINE r == p.request  after == Merged(agents, r)
<1>1. r.class \in MutationClasses
  BY RequestsAreOfAClass DEF ProposalInv
<1>2. ASSUME r.class \in {"prompt_patch", "tool_routing"}
      PROVE  r.target \in Species /\ IsDocument(agents[r.target]) /\ p.source[r.target] = agents[r.target]
  <2>1. r.target \in DOMAIN p.source /\ r.target \in Species /\ IsDocument(p.source[r.target])
    BY <1>2 DEF ProposalInv
  <2>2. p.source[r.target] = agents[r.target]
    BY <2>1 DEF ReadBy
  <2> QED
    BY <2>1, <2>2
<1>3. CASE r.class = "prompt_patch"
  <2>1. after = [agents EXCEPT ![r.target] =
                   [agents[r.target] EXCEPT !.prompt = PatchedPrompt(agents[r.target].prompt, r.ops)]]
    BY <1>3 DEF Merged
  <2>2. IsDocument([agents[r.target] EXCEPT !.prompt = PatchedPrompt(agents[r.target].prompt, r.ops)])
    BY <1>2, <1>3 DEF IsDocument
  <2> QED
    BY <1>2, <1>3, <2>1, <2>2
<1>4. CASE r.class = "tool_routing"
  <2> DEFINE tools == PatchedTools(agents[r.target].tools, r.ops)
  <2>1. after = [agents EXCEPT ![r.target] = [agents[r.target] EXCEPT !.tools = tools]]
    BY <1>4 DEF Merged
  <2>2. AreTools(tools)
    BY <1>2, <1>4, PatchedToolsAreTools DEF ProposalInv
  <2> HIDE DEF tools
  <2>3. IsDocument([agents[r.target] EXCEPT !.tools = tools])
    BY <1>2, <1>4, <2>2 DEF IsDocument
  <2> QED
    BY <1>2, <1>4, <2>1, <2>3
<1>5. CASE r.class = "speciation"
  <2>1. after = Speciated(agents, r)
    BY <1>5 DEF Merged
  <2>2. \A child : IsDocument(ChildDocument(agents, r, child))
    BY DEF IsDocument, ChildDocument, AreTools
  <2> QED
    BY <2>1, <2>2 DEF Speciated
<1> QED
  BY <1>1, <1>3, <1>4, <1>5 DEF MutationClasses

(* The invariant holds at the start, and every step keeps it.                 *)
LEMMA ReviewInitInv == ReviewInit => ReviewInv
<1> SUFFICES ASSUME ReviewInit PROVE ReviewInv
  OBVIOUS
<1>1. \A d : IsAgent(d) => IsDocument(d)
  BY DEF IsAgent, IsDocument
<1> QED
  BY <1>1, FirstAgentsAreAgents DEF ReviewInit, ReviewInv

LEMMA ReviewStepInv == ReviewInv /\ [ReviewNext]_reviewVars => ReviewInv'
<1> SUFFICES ASSUME ReviewInv, [ReviewNext]_reviewVars PROVE ReviewInv'
  OBVIOUS
<1> USE DEF manifests
<1>1. ASSUME NEW r \in MutationRequests, Propose(r) PROVE ReviewInv'
  <2>1. ProposalInv(proposal')
    BY <1>1, ProposalsAreGood DEF Propose, ReviewInv
  <2> QED
    BY <1>1, <2>1 DEF Propose, StartOver, ReviewInv
<1>2. ASSUME NEW pool \in Pools, NEW policy \in AuditPolicies, Route(pool, policy) PROVE ReviewInv'
  <2>1. RoutingInv(routing')
    BY <1>2, SelectedAreIndependent DEF Route, RoutingInv
  <2> QED
    BY <1>2, <2>1 DEF Route, StartOver, ReviewInv
<1>3. ASSUME NEW r \in Reviewers, NEW d \in Decisions, NEW b \in BOOLEAN, Review(r, d, b)
      PROVE  ReviewInv'
  BY <1>3 DEF Review, ReviewInv
<1>4. ASSUME NEW given \in SUBSET reviews, RunGuard(given) PROVE ReviewInv'
  <2>1. GuardInv(guard')
    BY <1>4 DEF RunGuard, GuardInv, ReviewInv
  <2> QED
    BY <1>4, <2>1 DEF RunGuard, ReviewInv
<1>5. ASSUME NEW repository, NEW head, NEW base, Generate(repository, head, base) PROVE ReviewInv'
  <2>1. plan' \notin {None, Blocked} => PlanInv(plan')
    BY <1>5 DEF Generate, PlanInv, ReviewInv
  <2> QED
    BY <1>5, <2>1 DEF Generate, ReviewInv
<1>6. ASSUME NEW repository, Prepare(repository) PROVE ReviewInv'
  <2>1. transport' \notin {None, Blocked} => PlanInv(transport'.plan)
    BY <1>6 DEF Prepare, ReviewInv
  <2> QED
    BY <1>6, <2>1 DEF Prepare, ReviewInv
<1>7. CASE Merge
  <2>1. ProposalInv(transport.plan.guard.proposal)
    BY <1>7 DEF Merge, IsReady, ReviewInv, PlanInv, GuardInv
  <2>2. DOMAIN agents' = Species /\ \A a \in Species : agents'[a] = Absent \/ IsDocument(agents'[a])
    BY <1>7, <2>1, MergedAreDocuments DEF Merge, ReviewInv
  <2> QED
    BY <1>7, <2>2 DEF Merge, StartOver, ReviewInv
<1>8. CASE UNCHANGED reviewVars
  BY <1>8 DEF reviewVars, ReviewInv
<1> QED
  BY <1>1, <1>2, <1>3, <1>4, <1>5, <1>6, <1>7, <1>8 DEF ReviewNext

THEOREM ReviewInvariance == ReviewSpec => []ReviewInv
BY ReviewInitInv, ReviewStepInv, PTL DEF ReviewSpec

(* A request that would open a pull request (mutation-pr-transport.ts) was    *)
(* approved by independent reviewers of the proposal's targets, each of them and*)
(* without a blocking finding, whatever reviews and routings are still around.*)
THEOREM AlwaysUnanimous == ReviewSpec => []RequestsAreUnanimous
<1>1. ReviewInv => RequestsAreUnanimous
  <2> SUFFICES ASSUME ReviewInv, IsReady(transport)
               PROVE  LET g == transport.plan.guard IN
                      /\ IsIndependent(g.routing.routes, TargetPaths(g.proposal.request))
                      /\ \A r \in g.routing.routes : \E v \in g.reviews :
                           v.reviewer = r /\ v.decision = "approve" /\ ~v.blocking /\ v.routing = g.routing
                      /\ RoutingMatches(g.proposal, g.routing)
    BY DEF RequestsAreUnanimous
  <2> DEFINE g == transport.plan.guard
  <2>1. GuardInv(g) /\ g.decision = "accept"
    BY DEF ReviewInv, IsReady, PlanInv
  <2> HIDE DEF g
  <2>2. EvaluateReviews(g.routing, g.reviews) = "accept"
    BY <2>1 DEF GuardInv
  <2>3. /\ Missing(g.routing, g.reviews) = {} /\ Deciding(g.reviews, "hold") = {}
        /\ BlockingIn(g.reviews) \cup Deciding(g.reviews, "reject") = {}
    BY <2>2 DEF EvaluateReviews
  <2>4. \A r \in g.routing.routes : \E v \in g.reviews : v.reviewer = r
    BY <2>3 DEF Missing
  <2>5. \A v \in g.reviews : v.decision = "approve" /\ ~v.blocking /\ v.routing = g.routing
    BY <2>1, <2>3 DEF BlockingIn, Deciding, GuardInv, EvidenceIsValid, Decisions
  <2>6. IsIndependent(g.routing.routes, TargetPaths(g.proposal.request))
    BY <2>1 DEF GuardInv, RoutingInv, RoutingMatches
  <2> QED
    BY <2>1, <2>4, <2>5, <2>6 DEF GuardInv, g
<1> QED
  BY <1>1, ReviewInvariance, PTL

(* A proposal whose patch allows a tool more than before (tool-routing.ts) has*)
(* an expansion in its review gate, however many operations it has and in     *)
(* whatever order they rename, replace, add and remove routes.                *)
THEOREM ExpansionsFlagged == ReviewSpec => []ExpansionsAreFlagged
<1>1. ReviewInv => ExpansionsAreFlagged
  BY WideningIsAnExpansion DEF ReviewInv, ProposalInv, ExpansionsAreFlagged
<1> QED
  BY <1>1, ReviewInvariance, PTL

(* A merge changes documents by a patch that was valid on them, or puts a child*)
(* without tools in their place; no other step changes any.                   *)
LEMMA StepKeepsApproval ==
  ASSUME ReviewInv, [ReviewNext]_reviewVars, NEW a \in Species, agents[a] # Absent,
         agents'[a] # Absent, agents'[a].sid = agents[a].sid,
         NEW r \in DOMAIN agents[a].tools \cap DOMAIN agents'[a].tools
  PROVE  ~WeakensApproval(agents[a].tools[r], agents'[a].tools[r])
<1>1. IsDocument(agents[a])
  BY DEF ReviewInv
<1>2. CASE agents'[a].tools = agents[a].tools
  <2>1. agents[a].tools[r].approval \in Int
    BY <1>1 DEF IsDocument, AreTools, ToolRouteValues, NoApproval, HighestApproval, CodeOwner
  <2> QED
    BY <1>2, <2>1 DEF WeakensApproval
<1>3. CASE Merge
  <2> DEFINE p == transport.plan.guard.proposal  q == p.request
  <2>1. ProposalInv(p) /\ ReadBy(agents, DOMAIN p.source) = p.source /\ agents' = Merged(agents, q)
    BY <1>3 DEF Merge, IsReady, ReviewInv, PlanInv, GuardInv
  <2>2. DOMAIN agents = Species
    BY DEF ReviewInv
  <2> HIDE DEF p
  <2>3. q.class \in MutationClasses
    BY <2>1, RequestsAreOfAClass DEF ProposalInv
  <2>4. CASE q.class = "prompt_patch"
    <3>1. agents' = [agents EXCEPT ![q.target] =
                      [agents[q.target] EXCEPT !.prompt = PatchedPrompt(agents[q.target].prompt, q.ops)]]
      BY <2>1, <2>4 DEF Merged
    <3>2. agents'[a].tools = agents[a].tools
      BY <1>1, <2>2, <3>1 DEF IsDocument
    <3> QED
      BY <1>2, <3>2
  <2>5. CASE q.class = "tool_routing"
    <3> DEFINE tools == PatchedTools(agents[q.target].tools, q.ops)
    <3>1. agents' = [agents EXCEPT ![q.target] = [agents[q.target] EXCEPT !.tools = tools]]
      BY <2>1, <2>5 DEF Merged
    <3>2. q.target \in DOMAIN p.source /\ IsPatch(p.source[q.target].tools, q.ops)
      BY <2>1, <2>5 DEF ProposalInv
    <3>3. p.source[q.target] = agents[q.target]
      BY <2>1, <3>2 DEF ReadBy
    <3>4. CASE a # q.target
      BY <1>2, <2>2, <3>1, <3>4
    <3>5. CASE a = q.target
      <4>1. agents'[a].tools = tools
        BY <1>1, <2>2, <3>1, <3>5 DEF IsDocument
      <4> QED
        BY <3>2, <3>3, <3>5, <4>1, PatchesKeepApproval
    <3> QED
      BY <3>4, <3>5
  <2>6. CASE q.class = "speciation"
    <3>1. agents' = Speciated(agents, q)
      BY <2>1, <2>6 DEF Merged
    <3>2. agents'[a] = agents[a] \/ \E child : agents'[a] = ChildDocument(agents, q, child)
      BY <3>1 DEF Speciated
    <3>3. \A child : ChildDocument(agents, q, child).tools = <<>>
      BY DEF ChildDocument
    <3>4. agents'[a].tools # <<>>
      OBVIOUS
    <3> QED
      BY <1>2, <3>2, <3>3, <3>4
  <2> QED
    BY <2>3, <2>4, <2>5, <2>6 DEF MutationClasses
<1>4. CASE UNCHANGED agents
  BY <1>2, <1>4
<1> QED
  BY <1>3, <1>4 DEF ReviewNext, Propose, Route, Review, RunGuard, Generate, Prepare, reviewVars

(* No merge of a mutation leaves a route of an agent asking for less approval *)
(* than the route of its name did (tool-routing.ts).                          *)
THEOREM ApprovalsKept == ReviewSpec => ApprovalsNeverWeaken
<1>1. ReviewInv /\ [ReviewNext]_reviewVars =>
        [\A a \in Species :
           agents[a] # Absent /\ agents'[a] # Absent /\ agents'[a].sid = agents[a].sid =>
             \A r \in DOMAIN agents[a].tools \cap DOMAIN agents'[a].tools :
               ~WeakensApproval(agents[a].tools[r], agents'[a].tools[r])]_reviewVars
  BY StepKeepsApproval
<1> QED
  BY <1>1, ReviewInvariance, PTL DEF ReviewSpec, ApprovalsNeverWeaken

(***************************************************************************)
(* From the request to the bundle                                          *)
(***************************************************************************)
USE DEF vars

(* A ledger that came out ready, and an approval that came out approved.       *)
ReadyLedger(l) == UniqueIds(l) /\ RequiredPass(l)
GoodApproval(a) ==
  ReadyLedger(a.ledger) /\ Scoped(a.receipts, a.ledger) /\ Verified(a.receipts)

(* The invariant: every manifest the caller holds was ready when it was made,  *)
(* and carries what made it so.                                                *)
TransportInv ==
  /\ TypeOK
  /\ ledger \in Ledgers => ReadyLedger(ledger)
  /\ approval \in Approvals => GoodApproval(approval)
  /\ tail \in Tails =>
       /\ GoodApproval(tail.plan.approval)
       /\ SameRequest(tail.plan.approval, tail.plan.request)

(* Lemmas on the gates.                                                      *)

(* The derived checks carry exactly the derived names.                         *)
LEMMA DerivedAreBase == ASSUME NEW r \in Requests PROVE IdsOf(DerivedChecks(r)) = BaseIds
<1> DEFINE s == IF r.ready THEN "pass" ELSE "fail"
<1>1. \A c \in DerivedChecks(r) : c.check_id \in BaseIds
  BY DEF DerivedChecks, BaseIds
<1>2. \A id \in ShapeChecks : [check_id |-> id, status |-> "pass"] \in DerivedChecks(r)
  BY DEF DerivedChecks
<1>3. \A id \in StatusChecks : [check_id |-> id, status |-> s] \in DerivedChecks(r)
  BY DEF DerivedChecks
<1>4. BaseIds \subseteq IdsOf(DerivedChecks(r))
  <2> SUFFICES ASSUME NEW id \in BaseIds PROVE \E c \in DerivedChecks(r) : c.check_id = id
    BY DEF IdsOf
  <2> QED
    BY <1>2, <1>3 DEF BaseIds
<1> QED
  BY <1>1, <1>4 DEF IdsOf

(* No failing derived check is hidden by an input, no optional one counts.     *)
LEMMA ReadyMeansChecked == ASSUME NEW l \in Ledgers, ReadyLedger(l) PROVE WellChecked(l)
<1> DEFINE given == Given[l.report]
<1>1. l.request \in Requests /\ l.report \in Reports /\ given \subseteq Checks
  BY ReportsAreInputs DEF Ledgers
<1>2. IdsOf(AllChecks(l)) = BaseIds \cup IdsOf(given)
  BY <1>1, DerivedAreBase DEF AllChecks, IdsOf
<1>3. BaseIds \subseteq RequiredIds(l)
  BY <1>2 DEF RequiredIds
<1>4. l.request.ready
  <2>1. SUFFICES ASSUME ~l.request.ready PROVE FALSE
    OBVIOUS
  <2>2. [check_id |-> "t052-manifest-ready", status |-> "fail"] \in AllChecks(l)
    BY <2>1 DEF AllChecks, DerivedChecks, StatusChecks
  <2>3. "t052-manifest-ready" \in RequiredIds(l)
    BY <1>3 DEF BaseIds, StatusChecks
  <2> QED
    BY <2>2, <2>3 DEF ReadyLedger, RequiredPass
<1>5. \A c \in given : c.check_id \notin BaseIds
  BY DEF ReadyLedger, UniqueIds, IdsOf
<1>6. given \subseteq AllChecks(l)
  BY DEF AllChecks
<1>7. CASE Wanted[l.report] = AllGiven
  <2>1. \A c \in given : c.check_id \in RequiredIds(l)
    BY <1>2, <1>7 DEF RequiredIds, IdsOf
  <2> QED
    BY <1>4, <1>5, <1>6, <1>7, <2>1 DEF WellChecked, ReadyLedger, RequiredPass
<1>8. CASE Wanted[l.report] # AllGiven
  <2>1. RequiredIds(l) = BaseIds \cup Wanted[l.report]
    BY <1>8 DEF RequiredIds
  <2>2. ASSUME NEW id \in Wanted[l.report] \ BaseIds
        PROVE  /\ \E c \in given : c.check_id = id
               /\ \A c \in given : c.check_id = id => c.status = "pass"
    <3>1. id \in IdsOf(given)
      BY <1>2, <2>1, <2>2 DEF ReadyLedger, RequiredPass
    <3> QED
      BY <1>6, <2>1, <2>2, <3>1 DEF ReadyLedger, RequiredPass, IdsOf
  <2> QED
    BY <1>4, <1>5, <1>8, <2>2 DEF WellChecked
<1> QED
  BY <1>7, <1>8

(* When nobody gave another answer, those who approved are those who answered. *)
LEMMA VerifiedMeansAgreed ==
  ASSUME NEW l, NEW rs, Scoped(rs, l), Verified(rs) PROVE AgreedOn(l, rs)
<1> DEFINE people == {Login[r.approver] : r \in rs}
<1>1. Approvers(rs) = people
  BY DEF Approvers, Verified
<1>2. people \in SUBSET Policy.allowed_approvers
  BY DEF Verified
<1> QED
  BY <1>1, <1>2 DEF AgreedOn, Scoped, Verified

(* The invariant is inductive.                                               *)

LEMMA TransportInitInv == Init => TransportInv
<1> SUFFICES ASSUME Init PROVE TransportInv
  OBVIOUS
<1>1. request \in Requests
  BY BoundsAreNatural DEF Init, Requests, RequestIds
<1> QED
  BY <1>1, MarkersAreNoManifests DEF Init, TransportInv, TypeOK

LEMMA TransportStepInv == TransportInv /\ [Next]_vars => TransportInv'
<1> SUFFICES ASSUME TransportInv, [Next]_vars PROVE TransportInv'
  OBVIOUS
<1> USE DEF TransportInv
<1>t. /\ request \in Requests /\ report \in Reports /\ receipts \subseteq Receipts
      /\ ledger \in Ledgers \cup {None, Blocked}
      /\ approval \in Approvals \cup {None, Blocked} /\ tail \in Tails \cup {None}
  BY DEF TypeOK
<1>1. ASSUME NEW ready \in BOOLEAN, Replan(ready) PROVE TransportInv'
  <2>1. request' \in Requests
    BY <1>1, <1>t, BoundsAreNatural DEF Replan, Requests, RequestIds
  <2> QED
    BY <1>1, <1>t, <2>1 DEF Replan, TypeOK
<1>2. ASSUME NEW i \in Reports, ReportChecks(i) PROVE TransportInv'
  BY <1>2, <1>t DEF ReportChecks, TypeOK
<1>3. ASSUME NEW t \in Offered, SendReceipt(t) PROVE TransportInv'
  <2>1. receipts' \subseteq Receipts
    BY <1>3, <1>t, OfferedAreTemplates DEF SendReceipt, Receipts, Templates
  <2> QED
    BY <1>3, <1>t, <2>1 DEF SendReceipt, TypeOK
<1>4. CASE DropReceipts
  BY <1>4, <1>t DEF DropReceipts, TypeOK
<1>5. CASE RunTransportReadinessLedger
  <2> DEFINE l == [request |-> request, report |-> report]
  <2>1. l \in Ledgers
    BY <1>t DEF Ledgers
  <2>2. UniqueIds(l) /\ ledger' = IF RequiredPass(l) THEN l ELSE Blocked
    BY <1>5 DEF RunTransportReadinessLedger
  <2>3. /\ ledger' \in Ledgers \cup {Blocked}
        /\ ledger' \in Ledgers => ReadyLedger(ledger')
    BY <2>1, <2>2, MarkersAreNoManifests DEF ReadyLedger
  <2> QED
    BY <1>5, <1>t, <2>3 DEF RunTransportReadinessLedger, TypeOK, ReadyLedger, UniqueIds, RequiredPass, AllChecks, RequiredIds
<1>6. CASE RunApprovalReceiptVerifier
  <2> DEFINE a == [ledger |-> ledger, receipts |-> receipts]
  <2>1. CASE ledger # Blocked /\ Verified(receipts)
    <3>1. ledger \in Ledgers /\ approval' = a /\ Scoped(receipts, ledger)
      BY <1>6, <1>t, <2>1 DEF RunApprovalReceiptVerifier
    <3>2. a \in Approvals
      BY <1>t, <3>1 DEF Approvals
    <3>3. GoodApproval(a)
      BY <2>1, <3>1 DEF GoodApproval
    <3> QED
      BY <1>6, <1>t, <3>1, <3>2, <3>3 DEF RunApprovalReceiptVerifier, TypeOK
  <2>2. CASE ~(ledger # Blocked /\ Verified(receipts))
    <3>1. approval' = Blocked
      BY <1>6, <2>2 DEF RunApprovalReceiptVerifier
    <3> QED
      BY <1>6, <1>t, <3>1, MarkersAreNoManifests DEF RunApprovalReceiptVerifier, TypeOK
  <2> QED
    BY <2>1, <2>2
<1>7. CASE RunTransportExecutionPlan
  <2> DEFINE p == [request |-> request, approval |-> approval]
             t == [stage |-> "plan", plan |-> p]
  <2>1. tail' = t /\ approval \in Approvals /\ SameRequest(approval, request)
    BY <1>7 DEF RunTransportExecutionPlan
  <2>2. t \in Tails
    BY <1>t, <2>1 DEF Tails, Plans, Stages
  <2> QED
    BY <1>7, <1>t, <2>1, <2>2 DEF RunTransportExecutionPlan, TypeOK
<1>8. ASSUME NEW from, NEW to \in Stages, Advance(from, to) PROVE TransportInv'
  <2>1. tail \in Tails /\ tail' = [tail EXCEPT !.stage = to]
    BY <1>8 DEF Advance
  <2>2. tail' \in Tails /\ tail'.plan = tail.plan
    BY <2>1 DEF Tails
  <2> QED
    BY <1>8, <1>t, <2>1, <2>2 DEF Advance, TypeOK
<1>9. CASE Finish
  <2>1. Finish => \E from \in Stages, to \in Stages : Advance(from, to)
    BY DEF Finish, RunExecutionArtifactReceipt, RunRolloutGateChecklist,
      RunPostTransportAuditPlan, RunLineageHandoffPack, RunCompletionBundle, Stages
  <2> QED
    BY <1>8, <1>9, <2>1
<1>10. CASE UNCHANGED vars
  BY <1>10, <1>t DEF TypeOK
<1> QED
  BY <1>1, <1>2, <1>3, <1>4, <1>5, <1>6, <1>7, <1>9, <1>10 DEF Next, Outside

THEOREM TransportInvariance == Spec => []TransportInv
BY TransportInitInv, TransportStepInv, PTL DEF Spec

(* Every manifest has its type.                                                *)
THEOREM TypeCorrect == Spec => []TypeOK
<1>1. TransportInv => TypeOK
  BY DEF TransportInv
<1> QED
  BY TransportInvariance, <1>1, PTL

(* Whatever is on its way to the bundle is a ready request whose checks passed *)
(* and which enough allowed people approved as it is.                          *)
THEOREM BundledWasApproved == Spec => []OnItsWayWasApproved
<1>1. TransportInv => OnItsWayWasApproved
  <2> SUFFICES ASSUME TransportInv, tail \in Tails
               PROVE  LET a == tail.plan.approval
                      IN /\ a.ledger.request = tail.plan.request
                         /\ WellChecked(a.ledger) /\ AgreedOn(a.ledger, a.receipts)
    BY DEF OnItsWayWasApproved
  <2> DEFINE a == tail.plan.approval
  <2>1. GoodApproval(a) /\ SameRequest(a, tail.plan.request)
    BY DEF TransportInv
  <2>2. a.ledger \in Ledgers
    BY DEF Tails, Plans, Approvals
  <2> QED
    BY <2>1, <2>2, ReadyMeansChecked, VerifiedMeansAgreed DEF GoodApproval, SameRequest
<1> QED
  BY TransportInvariance, <1>1, PTL
=============================================================================
