---------------------------- MODULE ForgedPrDemo ----------------------------
(* runEndToEndForgedPrDemo: one call takes an issue through the planner, the   *)
(* worktree manager, the sandbox harness, the auditor, the composer, the       *)
(* adapter, the checkpoint and the governor, on manifests it does not share    *)
(* with other callers, and stops at the first that does not let it pass.  What *)
(* the caller leaves out (None) gets the default of the demo.  plannerInput is *)
(* left out: with it the stages start as ForgingChain's do.                    *)
EXTENDS ForgingChain, RuntimePolicy

CONSTANT DemoInputs     \* what a caller may give
VARIABLE demo           \* what one call was given and answered, or None
demoVars == <<vars, demo>>

(* A gate's field may be given in two spellings.                               *)
ASSUME NoneIsNoSwitch == None \notin BOOLEAN
ASSUME DemoInputsHaveTypes ==
  \A in \in DemoInputs :
    /\ in.approvals \in Seq([approved : BOOLEAN, self : BOOLEAN, code_owner : BOOLEAN])
    /\ {in.rate.retry.camel, in.rate.retry.snake} \subseteq Int \cup {None}

(***************************************************************************)
(* What the demo makes of its input                                        *)
(***************************************************************************)
DefaultItem ==
  [kind |-> "issue", alert |-> "none", number |-> "28", delivery |-> "none", open |-> TRUE,
   conclusion |-> "none", labels |-> {"forge:auto", "docs"}, risks |-> {0}, classes |-> {0},
   words |-> {"docs"}, changed |-> "none", title |-> [task |-> "none", slug |-> "demo-note"]]
Item(in) == IF in.item # None THEN in.item ELSE DefaultItem

DemoPlan(in) == PlanSpec(TaskCandidate(Item(in)), Item(in))
DemoWorktree(p) ==
  BranchWorktree(p, [branch |-> None, base |-> DefaultBranch, approved |-> FALSE])
(* The manifests made before anything is run.                                  *)
Prepared(p) ==
  [plan |-> p, worktree |-> DemoWorktree(p), request |-> SandboxRequest(DemoWorktree(p), None)]

ReadmeFile == File(<<>>, "README", ".md")
(* selectDemoChangedPath: a plan of the planner has one of these patterns.     *)
SelectDemoChangedPath(p) ==
  IF \E q \in p.mutable : IsPrefix(<<"docs">>, LiteralPrefix(q)) THEN File(<<"docs", "ops">>, "demo", ".md")
  ELSE IF Exactly(ReadmeFile) \in p.mutable THEN ReadmeFile
  ELSE IF {Tree(<<"tests">>), AnyExt(".test")} \cap p.mutable # {} THEN File(<<"tests">>, "demo", ".test")
  ELSE File(<<>>, "package", ".json")
ChangedPaths(in, m) == IF in.changed # None THEN in.changed ELSE {SelectDemoChangedPath(m.plan)}

(* "clean": no secret in the environment of the run.                           *)
SandboxOutput(in, m) ==
  IF in.output # None THEN in.output
  ELSE [changed |-> ChangedPaths(in, m), artifacts |-> m.request.artifacts,
        commands |-> {c.id : c \in m.request.commands},
        stated |-> Cardinality(ChangedPaths(in, m)), clean |-> TRUE]
(* The default evidence names the paths of the demo, not those of the output.  *)
Evidence(in, m, o) ==
  IF in.evidence # None THEN in.evidence
  ELSE [changed |-> ChangedPaths(in, m), exit |-> 0,
        stated |-> IF o.stated # None THEN o.stated ELSE Cardinality(ChangedPaths(in, m))]
(* normalizeEvidence of the auditor                                            *)
Audited(o, e) ==
  [changed |-> o.changed \cup e.changed, artifacts |-> o.artifacts, commands |-> o.commands,
   stated |-> IF o.stated # None THEN o.stated ELSE e.stated]
(* The manifests of the run: output, evidence and the report on both.          *)
Examined(m, o, e) ==
  [output |-> o, evidence |-> e,
   report |-> AuditReport(m.plan, m.worktree, m.request, Audited(o, e), e.exit)]
Run(in, m) == Examined(m, SandboxOutput(in, m), Evidence(in, m, SandboxOutput(in, m)))
DemoComposition(m, x) == Composition(m.plan, m.worktree, x.output, x.report)

(* normalizeRuntimeGate, normalizeRateLimitGate: each spelling of a field is   *)
(* taken from its own, then from the other.                                    *)
Coalesce(a, b, default) == IF a # None THEN a ELSE IF b # None THEN b ELSE default
(* Mutant: both from the camel-case one first. *)
TwinsOneOrder(t, default) ==
  [camel |-> Coalesce(t.camel, t.snake, default), snake |-> Coalesce(t.camel, t.snake, default)]
Twins(t, default) ==
  [camel |-> Coalesce(t.camel, t.snake, default), snake |-> Coalesce(t.snake, t.camel, default)]

RuntimeGate(in) ==
  LET r == in.runtime  cooldown == {r.cooldown.camel, r.cooldown.snake} IN
  [mode |-> Coalesce(r.mode, None, "evolve"), allowed |-> Coalesce(r.allowed, None, TRUE),
   lane |-> Twins(r.lane, TRUE), kill |-> Twins(r.kill, FALSE), live |-> Twins(r.live, TRUE),
   cooling |-> "date" \in cooldown /\ "null" \notin cooldown]
RateGate(in) ==
  [lane |-> Twins(in.rate.lane, TRUE), content |-> Twins(in.rate.content, TRUE),
   live |-> Twins(in.rate.live, TRUE), retry |-> Twins(in.rate.retry, None)]

(***************************************************************************)
(* What each stage says of it                                              *)
(***************************************************************************)
Verdict(invalid, blocked) == IF invalid THEN "invalid" ELSE IF blocked THEN "blocked" ELSE "ok"

PlannerSays(in, m) ==
  IF Disposition(Item(in)) # "accept" THEN "blocked" ELSE Verdict(~PlanSpecIsValid(m.plan), FALSE)
WorktreeSays(m) ==
  IF NeedsApproval(m.plan) THEN "blocked" ELSE Verdict(~WorktreeIsValid(m.worktree), FALSE)
SandboxSays(m) == Verdict(~RequestIsValid(m.request), FALSE)

(* validateSandboxObservedOutput; which artifacts are required is not asked.   *)
ChangedPathsAreValid(scope, changed) ==
  /\ \A f \in changed :
       /\ \A p \in scope.immutable : ~HarnessMatches(p, f)
       /\ \E p \in scope.mutable : HarnessMatches(p, f)
  /\ Cardinality(changed) <= scope.max_files
OutputIsValid(q, o) ==
  /\ RequestIsValid(q) /\ o.clean /\ ChangedPathsAreValid(q, o.changed)
  /\ o.commands \subseteq {c.id : c \in q.commands} /\ o.artifacts \subseteq q.artifacts
OutputSays(m, x) == Verdict(FALSE, ~OutputIsValid(m.request, x.output))

AuditorSays(m, x) ==
  Verdict(~AuditorTakes(m.plan, m.worktree, m.request) \/ x.report.status = "invalid",
          x.report.status # "passed")
ComposerSays(in, m, x) ==
  Verdict(~in.head_sha \/ ~ComposerChain(m.plan, m.worktree, m.request, x.output, x.report),
          ~AuditAllows(x.report))

(* prepareGitHubPullRequest reads the camel-case fields.                       *)
InstallationIsValid(i) ==
  /\ i.same_repo /\ i.pull_requests = "write"
  /\ i.administration = "none" /\ i.secrets = "none" /\ i.workflows # "write"
LiveGatesOpen(g, l) ==
  /\ g.mode \in LaneModes /\ g.allowed = TRUE /\ g.lane.camel = TRUE /\ g.kill.camel # TRUE /\ ~g.cooling
  /\ l.lane.camel = TRUE /\ l.content.camel = TRUE /\ ~(l.retry.camel # None /\ l.retry.camel > 0)
(* validateGitHubPullRequestCreationRequest, on what is not the adapter's own. *)
Text(in) == in.title \cup in.labels
CreationRequestIsValid(in) ==
  LET retry == RateGate(in).retry.camel IN
  "ghp_" \notin Text(in) /\ ~(retry # None /\ retry < 0)
AdapterSays(in) ==
  IF ~InstallationIsValid(in.installation) THEN "invalid"
  ELSE IF ~in.dry /\ ~LiveGatesOpen(RuntimeGate(in), RateGate(in)) THEN "blocked"
  ELSE Verdict(~CreationRequestIsValid(in), FALSE)

(* runApprovalCheckpoint reads the snake-case fields and, of the request's     *)
(* body, the changed and the mutable paths; a title with the words "mutable    *)
(* paths" stands before the latter and is read for them.                       *)
Body(in, m, x) ==
  [title |-> in.title, mutable |-> m.plan.mutable, changed |-> DemoComposition(m, x).changed]
SurfacePaths(body) ==
  {Exactly(f) : f \in body.changed} \cup (IF "mutable paths" \in body.title THEN {} ELSE body.mutable)
TransportGovernance ==
  {Tree(<<".github", "workflows">>), Tree(<<".github", "actions">>), Tree(<<".forge", "policies">>),
   Tree(<<".forge", "network">>), Tree(<<"secrets">>),
   Exactly(File(<<".github">>, "dependabot", ".yml")), Exactly(File(<<".forge">>, "mind", ".forge")),
   Exactly(File(<<"apps", "github-app">>, "app-manifest", ".json"))}
IsGovernanceMutation(pattern) ==
  \E p \in TransportGovernance : IsPrefix(LiteralPrefix(p), LiteralPrefix(pattern))
QuarantineIssues(g, p, body) ==
  \/ g.mode \in StopModes \/ g.kill.snake = TRUE \/ p.class = ClassD \/ p.risk = 3
  \/ \E path \in SurfacePaths(body) : IsGovernanceMutation(path)
SelfService(p) == p.class = 0 /\ p.risk = 0
ApprovalsSuffice(p, approvals) ==
  /\ \A n \in DOMAIN approvals : approvals[n].approved /\ ~approvals[n].self
  /\ Len(approvals) >= IF SelfService(p) THEN 0 ELSE IF p.class = ClassC THEN 2 ELSE 1
  /\ p.class = ClassC => \E n \in DOMAIN approvals : approvals[n].code_owner
TransportGatesOpen(g, l) ==
  /\ g.live.snake = TRUE /\ g.allowed = TRUE /\ g.lane.snake = TRUE /\ g.kill.snake # TRUE
  /\ g.mode \in LaneModes /\ ~g.cooling
  /\ l.live.snake = TRUE /\ l.lane.snake = TRUE /\ l.content.snake = TRUE /\ l.retry.snake \in {None, 0}
Released(in, p) ==
  /\ ~in.dry /\ TransportGatesOpen(RuntimeGate(in), RateGate(in))
  /\ p.number # "none" /\ (SelfService(p) \/ p.human_merge) /\ ApprovalsSuffice(p, in.approvals)
CheckpointSays(in, m, x) ==
  IF QuarantineIssues(RuntimeGate(in), m.plan, Body(in, m, x)) THEN "quarantined"
  ELSE Verdict(FALSE, ~Released(in, m.plan))

(* runRateGovernor: the camel-case fields, without the cooldown.  Of what it   *)
(* validates the text alone is not the checkpoint's own.                       *)
AuthorizationIsValid(in) == "x-access-token:" \notin Text(in)
GovernorSays(in) ==
  LET g == RuntimeGate(in) IN
  IF ~AuthorizationIsValid(in) THEN "invalid"
  ELSE IF ~(g.mode \in LaneModes /\ g.kill.camel # TRUE /\ g.allowed = TRUE
            /\ g.lane.camel = TRUE /\ g.live.camel = TRUE) THEN "blocked"
  ELSE IF in.rate_state = "delayed" THEN "delayed" ELSE "ok"

(* validateEndToEndForgedPrDemo asks the stages' validators again, and whether *)
(* the manifests name each other.                                              *)
ValidationSays(m, x) ==
  Verdict(~(/\ PlanSpecIsValid(m.plan) /\ WorktreeIsValid(m.worktree) /\ OutputIsValid(m.request, x.output)
            /\ {m.worktree.plan_id, m.request.plan_id, x.report.plan_id,
                DemoComposition(m, x).plan_id} = {m.plan.id}
            /\ {m.request.worktree_id, x.report.worktree_id} = {m.worktree.id}
            /\ x.report.request_id = m.request.id), FALSE)

Stages == <<"input", "planner", "worktree", "sandbox", "output", "auditor", "composer",
            "adapter", "checkpoint", "governor", "validation">>
StageSays(in, m, x, stage) ==
  CASE stage = "input" -> Verdict(~in.clock, FALSE)
    [] stage = "planner" -> PlannerSays(in, m)         [] stage = "worktree" -> WorktreeSays(m)
    [] stage = "sandbox" -> SandboxSays(m)             [] stage = "output" -> OutputSays(m, x)
    [] stage = "auditor" -> AuditorSays(m, x)          [] stage = "composer" -> ComposerSays(in, m, x)
    [] stage = "adapter" -> AdapterSays(in)            [] stage = "checkpoint" -> CheckpointSays(in, m, x)
    [] stage = "governor" -> GovernorSays(in)          [] OTHER -> ValidationSays(m, x)
StagesSay(in, m, x) == [n \in DOMAIN Stages |-> StageSays(in, m, x, Stages[n])]
(* The demo answers what the first stage says that does not let it pass.       *)
Answer(says) ==
  IF \A n \in DOMAIN says : says[n] = "ok" THEN "ready"
  ELSE says[CHOOSE n \in DOMAIN says : says[n] # "ok" /\ \A k \in 1..(n - 1) : says[k] = "ok"]
AnswerTo(in, m) == Answer(StagesSay(in, m, Run(in, m)))
DemoStatus(in) == AnswerTo(in, Prepared(DemoPlan(in)))

(* The demo is run before anything else: it shares no manifest with the other  *)
(* callers, so nothing is lost, and once (both bound the model).               *)
RunDemo(in) ==
  /\ demo = None /\ plans = 0
  /\ demo' = [input |-> in, status |-> DemoStatus(in)]
  /\ UNCHANGED vars

DemoInit == Init /\ demo = None
DemoNext ==
  \/ demo = None /\ Next /\ UNCHANGED demo
  \/ \E in \in DemoInputs : RunDemo(in)
DemoSpec == DemoInit /\ [][DemoNext]_demoVars

(***************************************************************************)
(* Property                                                                *)
(***************************************************************************)
(* Nobody else's work: elevated work stops at the worktree, and what is not of *)
(* class A and low risk has a person who approved and a merge left to people.  *)
Answered(in, p) ==
  /\ ~Elevated(p.class, p.risk, FALSE) /\ ~in.dry
  /\ \A n \in DOMAIN in.approvals : in.approvals[n].approved /\ ~in.approvals[n].self
  /\ SelfService(p) \/ (p.human_merge /\ in.approvals # <<>>)
(* The output's files and the evidence's, which the checks see at different    *)
(* stages, by different matchers, are in the plan's scope and not governance.  *)
FilesAllowed(p, x) ==
  \A f \in x.output.changed \cup x.evidence.changed :
    MatchesAny(f, p.mutable) /\ ~IsGovernanceMutation(Exactly(f))
(* No gate was given closed in either spelling, though the stages read one     *)
(* each.  Of the rate limit's live switch one is read; a null cooldown in one  *)
(* spelling hides a date in the other.                                         *)
NothingClosed(in) ==
  LET r == in.runtime  l == in.rate IN
  /\ r.mode \in LaneModes \cup {None} /\ r.allowed # FALSE
  /\ \A t \in {r.lane, r.live, l.lane, l.content} : t.camel # FALSE /\ t.snake # FALSE
  /\ r.kill.camel # TRUE /\ r.kill.snake # TRUE
  /\ (IF l.live.snake # None THEN l.live.snake ELSE l.live.camel) # FALSE
  /\ {l.retry.camel, l.retry.snake} \subseteq {None, 0}
  /\ "date" \in {r.cooldown.camel, r.cooldown.snake} => "null" \in {r.cooldown.camel, r.cooldown.snake}
Cleared(in, p) == Answered(in, p) /\ FilesAllowed(p, Run(in, Prepared(p))) /\ NothingClosed(in)

(* A demo that answers "ready", a dispatch queued, was cleared from end to end: *)
(* by people, by the scope of its plan and by every gate its caller was told.   *)
ReadyDemosAreCleared ==
  demo # None /\ demo.status = "ready" => Cleared(demo.input, DemoPlan(demo.input))
=============================================================================
