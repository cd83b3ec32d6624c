---------------------------- MODULE ForgingChain ----------------------------
(* From an issue to the composition of its pull request:                       *)
(*   runPlanner                     plan: the Plan Spec                        *)
(*   createBranchWorktreePlan       worktree: the branch and where to work     *)
(*   createSandboxExecutionRequest  request: what may run, and on which files  *)
(*   (the sandbox, people)          output: what a run of it left              *)
(*   runAuditor                     report: the audit of that output           *)
(*   composePullRequest             composition: what the adapter would open   *)
(* A caller holds the last manifest of each kind.  An issue may be planned     *)
(* again, after its labels changed, while the later manifests are held; the    *)
(* manifests name each other by ids that are not digests, so what belongs      *)
(* together is what the code compares.  Invalid results are thrown away.       *)
EXTENDS IntakePlanning

CONSTANTS
  Items,         \* intake inputs the planner may be given
  Candidates,    \* task candidates it may be given by a caller that made them
  Bases,         \* base refs a caller may name
  Branches,      \* head branches a caller may name; a branch is its segments
  CommandSets,   \* command declarations a caller may make, None for the default
  Outputs,       \* what runs of the commands may leave
  None,          \* no manifest, no branch
  MaxPlans,      \* bound on the plans made
  MaxOutputs     \* bound on the outputs observed

DefaultBranch == <<"main">>
DefaultTargets == {<<"main">>, <<"master">>, <<"trunk">>}
Commands == {"inspect_scope", "apply_bounded_patch", "run_verification", "collect_artifacts"}
Required == {"patch.diff"}
Artifacts == Required \cup {"test-output.txt"}

ASSUME BoundsAreNatural == MaxPlans \in Nat /\ MaxOutputs \in Nat

VARIABLES
  plan, worktree, request, output, report, composition,   \* the manifests held
  plans, outputs                                          \* how many were made

vars == <<plan, worktree, request, output, report, composition, plans, outputs>>

Init ==
  /\ plan = None /\ worktree = None /\ request = None
  /\ output = None /\ report = None /\ composition = None
  /\ plans = 0 /\ outputs = 0

(***************************************************************************)
(* Planner (T017)                                                          *)
(***************************************************************************)
Keep(task, source) ==
  /\ plans < MaxPlans /\ plans' = plans + 1
  /\ plan' = PlanSpec(task, source)
  /\ PlanSpecIsValid(plan')
  /\ UNCHANGED <<worktree, request, output, report, composition, outputs>>

PlanIntake(i) == Disposition(i) = "accept" /\ Keep(TaskCandidate(i), i)
PlanTask(t) == Keep(t, None)

(***************************************************************************)
(* Branch and worktree (T018)                                              *)
(***************************************************************************)
BranchOf(p, branch) ==
  IF branch # None THEN branch
  ELSE <<"forge">> \o (IF p.title.task # "none" THEN <<p.title.task>>
                      ELSE IF p.number # "none" THEN <<"issue", p.number>>
                      ELSE <<"task">> \o p.id) \o <<p.title.slug>>
IsDefaultBranchTarget(head, base) == head = base \/ head \in DefaultTargets

NeedsApproval(p) == p.status = "blocked_for_human" \/ p.human_execution \/ p.escalation

BranchWorktree(p, o) ==
  LET head == BranchOf(p, o.branch) IN
  [id |-> <<p.id, head>>, plan_id |-> p.id, head |-> head, base |-> o.base,
   mutable |-> p.mutable, immutable |-> Governance \cup p.immutable, max_files |-> p.max_files,
   class |-> p.class, risk |-> p.risk, human_execution |-> p.human_execution,
   approved |-> o.approved]
(* validateBranchWorktreePlan                                                  *)
WorktreeIsValid(w) ==
  /\ ~IsDefaultBranchTarget(w.head, DefaultBranch)
  /\ w.mutable # {} /\ NoOverlap(w.mutable, w.immutable) /\ w.max_files \in 1..50

(* An approval comes with its reference.                                        *)
WorktreeOptions ==
  [branch : Branches \cup {None}, base : Bases, approved : BOOLEAN]
CreateBranchWorktree(o) ==
  /\ plan # None
  /\ NeedsApproval(plan) => o.approved
  /\ worktree' = BranchWorktree(plan, o)
  /\ worktree' # worktree /\ WorktreeIsValid(worktree')
  /\ UNCHANGED <<plan, request, output, report, composition, plans, outputs>>

(***************************************************************************)
(* Sandbox request (T019)                                                  *)
(***************************************************************************)
(* A pattern covers another: the same, under its directory, or one the other's *)
(* literal text starts with.                                                   *)
Covers(p, q) ==
  \/ p = q
  \/ p.kind = "tree" /\ IsPrefix(p.dir, LiteralPrefix(q))
  \/ /\ p.kind # "tree" /\ ~(p.kind = "file" /\ q.kind = "file")
     /\ LiteralPrefix(p) # <<>> /\ IsPrefix(LiteralPrefix(p), LiteralPrefix(q))
IsWritable(pattern, scope) ==
  /\ \A q \in scope.immutable : ~Overlap(pattern, q)
  /\ \E p \in scope.mutable : Covers(p, pattern)

DefaultCommands(w) ==
  {[id |-> c, writable |-> IF c = "apply_bounded_patch" THEN w.mutable ELSE {}] : c \in Commands}
CommandsAreValid(commands, scope) ==
  /\ Cardinality(commands) \in 1..8
  /\ \A c, d \in commands : c.id = d.id => c = d
  /\ \A c \in commands : \A p \in c.writable : IsWritable(p, scope)

SandboxRequest(w, commands) ==
  [id |-> <<w.plan_id, w.id>>, plan_id |-> w.plan_id, worktree_id |-> w.id,
   head |-> w.head, base |-> w.base,
   mutable |-> w.mutable, immutable |-> w.immutable, max_files |-> w.max_files,
   class |-> w.class, risk |-> w.risk, human_execution |-> w.human_execution,
   approved |-> w.approved,
   commands |-> IF commands = None THEN DefaultCommands(w) ELSE commands,
   artifacts |-> Artifacts]
(* validateSandboxExecutionRequest                                             *)
RequestIsValid(q) ==
  /\ ~IsDefaultBranchTarget(q.head, DefaultBranch)
  /\ q.mutable # {} /\ NoOverlap(q.mutable, q.immutable) /\ q.max_files \in 1..50
  /\ CommandsAreValid(q.commands, q)
  /\ q.human_execution => q.approved

CreateSandboxRequest(commands) ==
  /\ worktree # None /\ WorktreeIsValid(worktree)
  /\ worktree.human_execution => worktree.approved
  /\ request' = SandboxRequest(worktree, commands)
  /\ request' # request /\ RequestIsValid(request')
  /\ UNCHANGED <<plan, worktree, output, report, composition, plans, outputs>>

(* An output says nothing of the request that was run.                         *)
Observe(o) ==
  /\ request # None /\ o # output
  /\ outputs < MaxOutputs /\ outputs' = outputs + 1
  /\ output' = o
  /\ UNCHANGED <<plan, worktree, request, report, composition, plans>>

(***************************************************************************)
(* What an output may be: the harness (T019) and the auditor (T023)        *)
(***************************************************************************)
(* validateChangedPaths: a pattern without a slash is asked of the name of the *)
(* file, in whatever directory.                                                *)
HarnessMatches(p, f) ==
  CASE p.kind = "tree" -> IsPrefix(p.dir, f.dir)
    [] p.kind = "file" -> IsFile(p, f) /\ p.dir \in {f.dir, <<>>}
    [] OTHER -> p.ext = f.ext
(* globToRegExp of the auditor: a pattern is asked of the whole path.          *)
AuditorMatches(p, f) ==
  CASE p.kind = "tree" -> IsPrefix(p.dir, f.dir)
    [] p.kind = "file" -> IsFile(p, f) /\ p.dir = f.dir
    [] p.kind = "ext" -> p.ext = f.ext /\ f.dir = <<>>
    [] p.kind = "anyext" -> p.ext = f.ext /\ f.dir # <<>>

(* Mutant: every for some. *)
MatchesEvery(f, patterns) == \A p \in patterns : AuditorMatches(p, f)
MatchesAny(f, patterns) == \E p \in patterns : AuditorMatches(p, f)

Rejects(q, f) == MatchesAny(f, q.immutable) \/ ~MatchesAny(f, q.mutable)

(* validatePlanSpecForAudit and its siblings, on what the stages before do not *)
(* fix to one value.  Overlap is tested its own way: the same pattern, or one  *)
(* under the directory of the other.                                           *)
IsUnder(p, q) == q.kind = "tree" /\ IsPrefix(q.dir, LiteralPrefix(p))
ScopeIsValid(s) ==
  /\ s.mutable # {} /\ s.immutable # {}
  /\ \A p \in s.mutable, q \in s.immutable : ~(p = q \/ IsUnder(p, q) \/ IsUnder(q, p))
ApprovalIsValid(m) == m.human_execution => m.approved
AuditorTakes(p, w, q) ==
  /\ ScopeIsValid(p) /\ ScopeIsValid(w) /\ ScopeIsValid(q)
  /\ ApprovalIsValid(w) /\ ApprovalIsValid(q)

(* Mutant: class and risk are not compared. *)
ChainById(p, w, q) ==
  p.id = w.plan_id /\ p.id = q.plan_id /\ w.id = q.worktree_id
(* validateChain                                                               *)
IsChain(p, w, q) ==
  /\ p.id = w.plan_id /\ p.id = q.plan_id /\ w.id = q.worktree_id /\ w.head = q.head
  /\ p.mutable = w.mutable /\ w.mutable = q.mutable
  /\ p.immutable = w.immutable /\ w.immutable = q.immutable
  /\ p.class = q.class /\ p.risk = q.risk

(* validateObserved: that the commands ran is not asked for, and the size of   *)
(* the diff is what the output states, if it does; its lines are like its files. *)
Observed(p, q, o) ==
  /\ o.commands \subseteq {c.id : c \in q.commands}
  /\ o.artifacts \subseteq q.artifacts /\ Required \subseteq o.artifacts
  /\ \A f \in o.changed : ~Rejects(q, f)
  /\ o.stated # None => o.stated <= p.max_files

(* evaluateAcceptance                                                          *)
CriterionPasses(c, p, q, o, exit) ==
  CASE c = "diff_budget" -> o.stated # None /\ o.stated <= p.max_files
    [] c = "forbidden_paths_unchanged" -> \A f \in o.changed : ~MatchesAny(f, p.immutable)
    [] c = "path_changed" -> \E f \in o.changed : ~Rejects(q, f) /\ MatchesAny(f, p.mutable)
    [] c = "command" -> exit = 0

AuditStatus(p, w, q, o, exit) ==
  IF ~IsChain(p, w, q) THEN "invalid"
  ELSE IF o = None THEN "blocked"
  ELSE IF Observed(p, q, o) /\ \A c \in p.criteria : CriterionPasses(c, p, q, o, exit) THEN "passed"
  ELSE "failed"

(* "approved" is not in the report: whether the audited request was approved.  *)
AuditReport(p, w, q, o, exit) ==
  LET status == AuditStatus(p, w, q, o, exit) IN
  [plan_id |-> p.id, worktree_id |-> w.id, request_id |-> q.id, status |-> status,
   class |-> p.class, risk |-> p.risk, human_merge |-> p.human_merge,
   mutable |-> p.mutable, immutable |-> p.immutable,
   accepted |-> IF status \in {"invalid", "blocked"} THEN {} ELSE {f \in o.changed : ~Rejects(q, f)},
   artifacts |-> IF o = None THEN {} ELSE o.artifacts,
   approved |-> q.approved]

(* exit: the exit code the caller reports of the test command; none reported   *)
(* counts as a failure.                                                        *)
ExitCodes == {0, 1}
RunAuditor(exit) ==
  /\ plan # None /\ worktree # None /\ request # None
  /\ AuditorTakes(plan, worktree, request)
  /\ report' = AuditReport(plan, worktree, request, output, exit)
  /\ report' # report
  /\ UNCHANGED <<plan, worktree, request, output, composition, plans, outputs>>

(***************************************************************************)
(* Composition (T024)                                                      *)
(***************************************************************************)
(* Mutant: the scopes are not compared. *)
ComposerChainById(p, w, q, o, r) ==
  /\ p.id = w.plan_id /\ p.id = q.plan_id /\ p.id = r.plan_id
  /\ w.id = q.worktree_id /\ w.id = r.worktree_id /\ q.id = r.request_id
  /\ ~IsDefaultBranchTarget(w.head, DefaultBranch) /\ ~IsDefaultBranchTarget(w.head, w.base)
  /\ o.changed \subseteq r.accepted /\ o.artifacts \subseteq r.artifacts
(* validateInputChain                                                          *)
ComposerChain(p, w, q, o, r) ==
  /\ p.id = w.plan_id /\ p.id = q.plan_id /\ p.id = r.plan_id
  /\ w.id = q.worktree_id /\ w.id = r.worktree_id
  /\ q.id = r.request_id
  /\ w.head = q.head
  /\ ~IsDefaultBranchTarget(w.head, DefaultBranch) /\ ~IsDefaultBranchTarget(w.head, w.base)
  /\ p.mutable = w.mutable /\ w.mutable = q.mutable /\ q.mutable = r.mutable
  /\ o.changed \subseteq r.accepted
  /\ o.artifacts \subseteq r.artifacts

(* validatePassedAuditGate                                                     *)
AuditAllows(r) == r.status = "passed"

(* What the pull request says of class, risk and merge gate comes from the     *)
(* plan given.  "audit" is not in the composition: the report composed from.   *)
Composition(p, w, o, r) ==
  [plan_id |-> p.id, head |-> w.head, base |-> w.base,
   class |-> p.class, risk |-> p.risk, human_merge |-> p.human_merge,
   mutable |-> p.mutable, immutable |-> p.immutable,
   changed |-> o.changed \cup r.accepted, commands |-> o.commands, artifacts |-> o.artifacts,
   audit |-> r]

Compose ==
  /\ \A m \in {plan, worktree, request, output, report} : m # None
  /\ ComposerChain(plan, worktree, request, output, report)
  /\ AuditAllows(report)
  /\ composition' = Composition(plan, worktree, output, report)
  /\ composition' # composition
  /\ UNCHANGED <<plan, worktree, request, output, report, plans, outputs>>

Next ==
  \/ \E i \in Items : PlanIntake(i)
  \/ \E t \in Candidates : PlanTask(t)
  \/ \E o \in WorktreeOptions : CreateBranchWorktree(o)
  \/ \E c \in CommandSets : CreateSandboxRequest(c)
  \/ \E o \in Outputs : Observe(o)
  \/ \E exit \in ExitCodes : RunAuditor(exit)
  \/ Compose

Spec == Init /\ [][Next]_vars

(***************************************************************************)
(* Properties                                                              *)
(***************************************************************************)
Graded(m) == m.class \in Classes /\ m.risk \in Risks
TypeOK ==
  /\ plan # None => Graded(plan) /\ plan.source \in Items \cup {None} /\ plan.max_files \in 1..50
  /\ \A m \in {worktree, request} \ {None} :
       Graded(m) /\ m.head \notin DefaultTargets /\ m.approved \in BOOLEAN
  /\ output \in Outputs \cup {None}
  /\ report # None => Graded(report) /\ report.status \in {"passed", "failed", "blocked", "invalid"}
  /\ composition # None => Graded(composition) /\ composition.audit.status = "passed"
  /\ plans \in 0..MaxPlans /\ outputs \in 0..MaxOutputs

(* An audit passes a run of elevated work only if a person approved that run:  *)
(* not with the request of an earlier plan of the task, made before its labels *)
(* raised the class.                                                           *)
ElevatedRunsAreApproved ==
  report # None /\ report.status = "passed" /\ (report.class >= ClassC \/ report.risk >= High) =>
    report.approved

(* No composed pull request changes a workflow, policy or network file,        *)
(* whatever a candidate's hints, the patterns of its scope and the plans of    *)
(* the task that were mixed.                                                   *)
GovernanceIsNeverComposed ==
  composition # None =>
    \A f \in composition.changed, p \in Governance : ~HarnessMatches(p, f)

(* The files a pull request changes are within the scope it states.            *)
ComposedIsInScope ==
  composition # None => \A f \in composition.changed : MatchesAny(f, composition.mutable)
=============================================================================
