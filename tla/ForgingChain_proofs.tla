------------------------- MODULE ForgingChain_proofs -------------------------
(* What holds of the forging chain for any issues, candidates, branches,       *)
(* commands and outputs, however often plans are made again and manifests of   *)
(* different plans are mixed; and of the demo, whatever its caller gives it.   *)
EXTENDS ForgedPrDemo, NaturalsInduction, WellFoundedInduction, TLAPS

(* What makes a run elevated.                                                  *)
IsElevated(m) == m.class >= ClassC \/ m.risk >= High

(* What a manifest keeps of its plan, whichever plan that was: elevated work   *)
(* is for people to start, and the governance files are out of bounds.         *)
PlanInv == plan # None => (IsElevated(plan) => plan.human_execution)
WorktreeInv ==
  worktree # None =>
    /\ IsElevated(worktree) => worktree.human_execution
    /\ Governance \subseteq worktree.immutable
RequestInv ==
  request # None =>
    /\ IsElevated(request) => request.approved
    /\ Governance \subseteq request.immutable

(* A report keeps what it was made of: the approval of the request it audited, *)
(* whose class and scope are the plan's if it passed, and only files that no   *)
(* governance pattern matches.                                                 *)
ReportInv ==
  report # None =>
    /\ report.status = "passed" /\ IsElevated(report) => report.approved
    /\ \A f \in report.accepted : ~MatchesAny(f, Governance)
    /\ report.status = "passed" => \A f \in report.accepted : MatchesAny(f, report.mutable)

CompositionInv ==
  composition # None =>
    \A f \in composition.changed : ~MatchesAny(f, Governance) /\ MatchesAny(f, composition.mutable)

IInv == PlanInv /\ WorktreeInv /\ RequestInv /\ ReportInv /\ CompositionInv

(* A Plan Spec of elevated work asks for a person before it is executed,       *)
(* whatever the task and the risk and class given to it.                       *)
LEMMA ElevatedPlansAskPeople ==
  ASSUME NEW task, NEW source
  PROVE  IsElevated(PlanSpec(task, source)) => PlanSpec(task, source).human_execution
  BY DEF IsElevated, PlanSpec, Elevated

(* The governance patterns are directories, on which the matchers of the       *)
(* harness and of the auditor agree.                                           *)
LEMMA GovernanceMatchersAgree ==
  ASSUME NEW f, ~MatchesAny(f, Governance)
  PROVE  \A p \in Governance : ~HarnessMatches(p, f)
<1>1. \A p \in Governance : p.kind = "tree"
  <2>1. \A dir : Tree(dir).kind = "tree"
    BY DEF Tree
  <2> QED
    BY <2>1 DEF Governance
<1>2. \A p \in Governance : HarnessMatches(p, f) => AuditorMatches(p, f)
  BY <1>1 DEF HarnessMatches, AuditorMatches
<1> QED
  BY <1>2 DEF MatchesAny

(* More patterns match more files.                                             *)
LEMMA MatchesGrow ==
  ASSUME NEW f, NEW P, NEW Q, P \subseteq Q, MatchesAny(f, P)
  PROVE  MatchesAny(f, Q)
  BY DEF MatchesAny

(* Before anything is planned.                                                 *)
LEMMA InitIInv == Init => IInv
  BY DEF Init, IInv, PlanInv, WorktreeInv, RequestInv, ReportInv, CompositionInv

(* A new plan, of an intake input or a candidate, replaces the plan alone.     *)
LEMMA KeepIInv ==
  ASSUME NEW task, NEW source, IInv, Keep(task, source)
  PROVE  IInv'
<1>1. plan' = PlanSpec(task, source)
  BY DEF Keep
<1>2. PlanInv'
  BY <1>1, ElevatedPlansAskPeople DEF PlanInv, IsElevated
<1>3. (WorktreeInv /\ RequestInv /\ ReportInv /\ CompositionInv)'
  BY DEF Keep, IInv, WorktreeInv, RequestInv, ReportInv, CompositionInv, IsElevated
<1> QED
  BY <1>2, <1>3 DEF IInv

(* The worktree plan takes class, risk and scope from the plan in force.       *)
LEMMA WorktreeIInv ==
  ASSUME NEW o, IInv, CreateBranchWorktree(o)
  PROVE  IInv'
<1>1. /\ plan # None /\ worktree' = BranchWorktree(plan, o)
      /\ UNCHANGED <<plan, request, output, report, composition>>
  BY DEF CreateBranchWorktree
<1>2. /\ worktree'.class = plan.class /\ worktree'.risk = plan.risk
      /\ worktree'.human_execution = plan.human_execution
      /\ worktree'.immutable = Governance \cup plan.immutable
  BY <1>1 DEF BranchWorktree
<1>3. WorktreeInv'
  BY <1>1, <1>2 DEF IInv, PlanInv, WorktreeInv, IsElevated
<1>4. (PlanInv /\ RequestInv /\ ReportInv /\ CompositionInv)'
  BY <1>1 DEF IInv, PlanInv, RequestInv, ReportInv, CompositionInv, IsElevated
<1> QED
  BY <1>3, <1>4 DEF IInv

(* The sandbox request is made only if what people must start was approved.    *)
LEMMA RequestIInv ==
  ASSUME NEW c, IInv, CreateSandboxRequest(c)
  PROVE  IInv'
<1>1. /\ worktree # None
      /\ worktree.human_execution => worktree.approved
      /\ request' = SandboxRequest(worktree, c)
      /\ UNCHANGED <<plan, worktree, output, report, composition>>
  BY DEF CreateSandboxRequest
<1>2. /\ request'.class = worktree.class /\ request'.risk = worktree.risk
      /\ request'.approved = worktree.approved
      /\ request'.immutable = worktree.immutable
  BY <1>1 DEF SandboxRequest
<1>3. RequestInv'
  BY <1>1, <1>2 DEF IInv, WorktreeInv, RequestInv, IsElevated
<1>4. (PlanInv /\ WorktreeInv /\ ReportInv /\ CompositionInv)'
  BY <1>1 DEF IInv, PlanInv, WorktreeInv, ReportInv, CompositionInv, IsElevated
<1> QED
  BY <1>3, <1>4 DEF IInv

(* The audit of manifests of whatever plans: one that passes found the class,  *)
(* the risk and the scope of the request to be the plan's.                     *)
LEMMA ReportIInv ==
  ASSUME NEW exit, IInv, RunAuditor(exit)
  PROVE  IInv'
<1>1. /\ request # None /\ report' = AuditReport(plan, worktree, request, output, exit)
      /\ UNCHANGED <<plan, worktree, request, output, composition>>
  BY DEF RunAuditor
<1>2. /\ report'.status = AuditStatus(plan, worktree, request, output, exit)
      /\ report'.class = plan.class /\ report'.risk = plan.risk
      /\ report'.mutable = plan.mutable /\ report'.approved = request.approved
      /\ report'.accepted \subseteq {f \in output.changed : ~Rejects(request, f)}
  BY <1>1 DEF AuditReport
<1>3. report'.status = "passed" => IsChain(plan, worktree, request)
  BY <1>2 DEF AuditStatus
<1>4. report'.status = "passed" /\ IsElevated(report') => report'.approved
  BY <1>1, <1>2, <1>3 DEF IsChain, IInv, RequestInv, IsElevated
<1>5. \A f \in report'.accepted : ~MatchesAny(f, request.immutable) /\ MatchesAny(f, request.mutable)
  BY <1>2 DEF Rejects
<1>6. \A f \in report'.accepted : ~MatchesAny(f, Governance)
  BY <1>1, <1>5, MatchesGrow DEF IInv, RequestInv
<1>7. report'.status = "passed" => \A f \in report'.accepted : MatchesAny(f, report'.mutable)
  BY <1>2, <1>3, <1>5 DEF IsChain
<1>8. ReportInv'
  BY <1>4, <1>6, <1>7 DEF ReportInv, IsElevated, MatchesAny
<1>9. (PlanInv /\ WorktreeInv /\ RequestInv /\ CompositionInv)'
  BY <1>1 DEF IInv, PlanInv, WorktreeInv, RequestInv, CompositionInv, IsElevated
<1> QED
  BY <1>8, <1>9 DEF IInv

(* The composition changes what the audit accepted, and states the plan's      *)
(* scope, which the chain compared with the audit's.                           *)
LEMMA CompositionIInv ==
  ASSUME IInv, Compose
  PROVE  IInv'
<1>1. /\ report # None /\ report.status = "passed"
      /\ ComposerChain(plan, worktree, request, output, report)
      /\ composition' = Composition(plan, worktree, output, report)
      /\ UNCHANGED <<plan, worktree, request, output, report>>
  BY DEF Compose, AuditAllows
<1>2. composition'.mutable = report.mutable /\ composition'.changed \subseteq report.accepted
  BY <1>1 DEF Composition, ComposerChain
<1>3. CompositionInv'
  BY <1>1, <1>2 DEF IInv, ReportInv, CompositionInv
<1>4. (PlanInv /\ WorktreeInv /\ RequestInv /\ ReportInv)'
  BY <1>1 DEF IInv, PlanInv, WorktreeInv, RequestInv, ReportInv, IsElevated
<1> QED
  BY <1>3, <1>4 DEF IInv

(* Every step of the chain keeps the invariant.                                *)
LEMMA NextIInv == IInv /\ [Next]_vars => IInv'
<1> SUFFICES ASSUME IInv, [Next]_vars PROVE IInv'
  OBVIOUS
<1>1. ASSUME NEW i \in Items, PlanIntake(i) PROVE IInv'
  BY <1>1, KeepIInv DEF PlanIntake
<1>2. ASSUME NEW t \in Candidates, PlanTask(t) PROVE IInv'
  BY <1>2, KeepIInv DEF PlanTask
<1>3. ASSUME NEW o \in WorktreeOptions, CreateBranchWorktree(o) PROVE IInv'
  BY <1>3, WorktreeIInv
<1>4. ASSUME NEW c \in CommandSets, CreateSandboxRequest(c) PROVE IInv'
  BY <1>4, RequestIInv
<1>5. ASSUME NEW o \in Outputs, Observe(o) PROVE IInv'
  BY <1>5 DEF Observe, IInv, PlanInv, WorktreeInv, RequestInv, ReportInv, CompositionInv, IsElevated
<1>6. ASSUME NEW exit \in ExitCodes, RunAuditor(exit) PROVE IInv'
  BY <1>6, ReportIInv
<1>7. CASE Compose
  BY <1>7, CompositionIInv
<1>8. CASE UNCHANGED vars
  BY <1>8 DEF vars, IInv, PlanInv, WorktreeInv, RequestInv, ReportInv, CompositionInv, IsElevated
<1> QED
  BY <1>1, <1>2, <1>3, <1>4, <1>5, <1>6, <1>7, <1>8 DEF Next

(* The invariant the theorems below follow from.                               *)
THEOREM Invariance == Spec => []IInv
  BY InitIInv, NextIInv, PTL DEF Spec

(* An audit passes elevated work (auditor run.ts, validateChain) only if the   *)
(* run it audits was approved, for any mix of manifests of plans of one id.    *)
THEOREM ElevatedAreApproved == Spec => []ElevatedRunsAreApproved
<1>1. IInv => ElevatedRunsAreApproved
  BY DEF IInv, ReportInv, ElevatedRunsAreApproved, IsElevated
<1> QED
  BY <1>1, Invariance, PTL

(* No composition (pr-composer run.ts) changes a governance file, whatever the *)
(* scopes, hints and outputs of its tasks.                                     *)
THEOREM GovernanceIsKept == Spec => []GovernanceIsNeverComposed
<1>1. IInv => GovernanceIsNeverComposed
  BY GovernanceMatchersAgree DEF IInv, CompositionInv, GovernanceIsNeverComposed
<1> QED
  BY <1>1, Invariance, PTL

(* The files a composition changes are in the scope it states, though plan,    *)
(* request, output and audit are given to it one by one.                       *)
THEOREM ComposedStaysInScope == Spec => []ComposedIsInScope
<1>1. IInv => ComposedIsInScope
  BY DEF IInv, CompositionInv, ComposedIsInScope
<1> QED
  BY <1>1, Invariance, PTL

(***************************************************************************)
(* The demo                                                                *)
(***************************************************************************)
(* Running the demo leaves the manifests of the other callers alone: with it   *)
(* the chain behaves as without, and what is proved above holds.               *)
THEOREM DemoLeavesTheChainAlone == DemoSpec => Spec
<1>1. DemoInit => Init
  BY DEF DemoInit
<1>2. [DemoNext]_demoVars => [Next]_vars
  BY DEF DemoNext, RunDemo, demoVars
<1> QED
  BY <1>1, <1>2, PTL DEF DemoSpec, Spec

(* A set of natural numbers that is not empty has a least one.                 *)
LEMMA LeastOf ==
  ASSUME NEW T \in SUBSET Nat, T # {}
  PROVE  \E n \in T : \A k \in T : n <= k
<1> DEFINE R == {ss \in Nat \X Nat : ss[1] < ss[2]}
<1>1. IsWellFoundedOn(R, Nat)
  BY NatLessThanWellFounded, Zenon DEF OpToRel
<1> HIDE DEF R
<1>2. PICK n \in T : \A k \in T : ~(<<k, n>> \in R)
  BY <1>1, WFMin
<1>3. \A k \in T : ~(k < n)
  BY <1>2 DEF R
<1> QED
  BY <1>3

(* No stage calls itself ready: a demo is, if every stage let it pass.         *)
LEMMA ReadyPassesEveryStage ==
  ASSUME NEW in, NEW m, AnswerTo(in, m) = "ready"
  PROVE  LET x == Run(in, m) IN
         /\ WorktreeSays(m) = "ok" /\ AuditorSays(m, x) = "ok" /\ AdapterSays(in) = "ok"
         /\ CheckpointSays(in, m, x) = "ok" /\ GovernorSays(in) = "ok"
<1> DEFINE x == Run(in, m)  says == StagesSay(in, m, x)
<1>1. \A invalid, blocked : Verdict(invalid, blocked) # "ready"
  BY DEF Verdict
<1>2. /\ PlannerSays(in, m) # "ready" /\ WorktreeSays(m) # "ready" /\ SandboxSays(m) # "ready"
      /\ OutputSays(m, x) # "ready" /\ AuditorSays(m, x) # "ready"
      /\ ComposerSays(in, m, x) # "ready" /\ ValidationSays(m, x) # "ready"
  BY <1>1 DEF PlannerSays, WorktreeSays, SandboxSays, OutputSays, AuditorSays, ComposerSays,
              ValidationSays
<1>3. AdapterSays(in) # "ready" /\ CheckpointSays(in, m, x) # "ready" /\ GovernorSays(in) # "ready"
  BY <1>1 DEF AdapterSays, CheckpointSays, GovernorSays
<1> HIDE DEF x
<1>4. \A stage : StageSays(in, m, x, stage) # "ready"
  BY <1>1, <1>2, <1>3 DEF StageSays
<1>5. DOMAIN says = 1..11 /\ \A n \in 1..11 : says[n] = StageSays(in, m, x, Stages[n])
  BY DEF StagesSay, Stages
<1>6. Answer(says) = "ready"
  BY DEF AnswerTo, x
<1> HIDE DEF says
<1>7. \A n \in 1..11 : says[n] = "ok"
  <2> SUFFICES ASSUME NEW n \in 1..11, says[n] # "ok" PROVE FALSE
    OBVIOUS
  <2> DEFINE Stops == {k \in 1..11 : says[k] # "ok"}
  <2>1. PICK k \in Stops : \A l \in Stops : k <= l
    BY LeastOf
  <2>2. says[k] # "ok" /\ \A l \in 1..(k - 1) : says[l] = "ok"
    BY <2>1
  <2> QED
    BY <1>4, <1>5, <1>6, <2>2 DEF Answer
<1>8. \A n \in 1..11 : StageSays(in, m, x, Stages[n]) = "ok"
  BY <1>5, <1>7
<1>9. /\ StageSays(in, m, x, "worktree") = "ok" /\ StageSays(in, m, x, "auditor") = "ok"
      /\ StageSays(in, m, x, "adapter") = "ok" /\ StageSays(in, m, x, "checkpoint") = "ok"
      /\ StageSays(in, m, x, "governor") = "ok"
  BY <1>8 DEF Stages
<1> QED
  BY <1>9 DEF StageSays, x

(* What no stage stopped kept the words "invalid" and "blocked" unsaid.        *)
LEMMA VerdictOk ==
  ASSUME NEW invalid, NEW blocked, Verdict(invalid, blocked) = "ok"
  PROVE  ~invalid /\ ~blocked
  BY DEF Verdict

(* The people: elevated plans stop at the worktree; the checkpoint released.   *)
LEMMA ReadyIsAnswered ==
  ASSUME NEW in \in DemoInputs, DemoStatus(in) = "ready"
  PROVE  Answered(in, DemoPlan(in))
<1> DEFINE p == DemoPlan(in)
<1>1. WorktreeSays(Prepared(p)) = "ok" /\ CheckpointSays(in, Prepared(p), Run(in, Prepared(p))) = "ok"
  BY ReadyPassesEveryStage DEF DemoStatus
<1>2. Prepared(p).plan = p
  BY DEF Prepared
<1>3. ~NeedsApproval(p)
  BY <1>1, <1>2 DEF WorktreeSays
<1>4. ~Elevated(p.class, p.risk, FALSE)
  <2>1. ~p.human_execution
    BY <1>3 DEF NeedsApproval
  <2> QED
    BY <2>1, ElevatedPlansAskPeople DEF DemoPlan, IsElevated, Elevated
<1>5. Released(in, p)
  BY <1>1, <1>2, VerdictOk DEF CheckpointSays
<1>6. in.approvals \in Seq([approved : BOOLEAN, self : BOOLEAN, code_owner : BOOLEAN])
  BY DemoInputsHaveTypes
<1>7. ~SelfService(p) => Len(in.approvals) >= 1
  BY <1>5 DEF Released, ApprovalsSuffice
<1>8. ~SelfService(p) => in.approvals # <<>>
  BY <1>6, <1>7
<1> QED
  BY <1>4, <1>5, <1>8 DEF Answered, Released, ApprovalsSuffice

(* The files: the auditor saw the output's and the evidence's, the checkpoint  *)
(* what was composed, which has all the auditor accepted.                      *)
LEMMA ReadyFilesAreAllowed ==
  ASSUME NEW in, DemoStatus(in) = "ready"
  PROVE  FilesAllowed(DemoPlan(in), Run(in, Prepared(DemoPlan(in))))
<1> DEFINE p == DemoPlan(in)  m == Prepared(p)  x == Run(in, m)
           o == Audited(x.output, x.evidence)
           changed == x.output.changed \cup x.evidence.changed
<1>1. AuditorSays(m, x) = "ok" /\ CheckpointSays(in, m, x) = "ok"
  BY ReadyPassesEveryStage DEF DemoStatus
<1>2. x.report = AuditReport(m.plan, m.worktree, m.request, o, x.evidence.exit)
  BY DEF Run, Examined
<1>3. m.plan = p /\ m.request.mutable = p.mutable
  BY DEF Prepared, DemoWorktree, SandboxRequest, BranchWorktree
<1> HIDE DEF p, m, x
<1>4. x.report.status = "passed"
  BY <1>1, VerdictOk DEF AuditorSays
<1>5. /\ x.report.status = AuditStatus(m.plan, m.worktree, m.request, o, x.evidence.exit)
      /\ x.report.accepted = IF x.report.status \in {"invalid", "blocked"} THEN {}
                             ELSE {f \in o.changed : ~Rejects(m.request, f)}
  BY <1>2 DEF AuditReport
<1>6. Observed(m.plan, m.request, o)
  BY <1>4, <1>5 DEF AuditStatus
<1>7. \A f \in o.changed : ~Rejects(m.request, f)
  BY <1>6 DEF Observed
<1>8. x.report.accepted = o.changed
  BY <1>4, <1>5, <1>7
<1>9. changed \subseteq o.changed
  BY DEF Audited
<1>10. \A f \in changed : MatchesAny(f, p.mutable)
  BY <1>3, <1>7, <1>9 DEF Rejects
<1>11. DemoComposition(m, x).changed = x.output.changed \cup x.report.accepted
  BY DEF DemoComposition, Composition
<1>12. \A f \in changed : ~IsGovernanceMutation(Exactly(f))
  BY <1>1, <1>8, <1>9, <1>11 DEF CheckpointSays, QuarantineIssues, SurfacePaths, Body
<1> QED
  BY <1>10, <1>12 DEF FilesAllowed, p, m, x

(* What a twin that comes out as asked for was given as.                       *)
LEMMA TwinsAsGiven ==
  ASSUME NEW t, NEW default, NEW v, None # v
  PROVE  /\ Twins(t, default).camel # v => t.camel # v
         /\ Twins(t, default).snake # v => t.snake # v
  BY DEF Twins, Coalesce

(* The gates: adapter and governor read one spelling, the checkpoint the other. *)
LEMMA ReadyGatesWereOpen ==
  ASSUME NEW in \in DemoInputs, DemoStatus(in) = "ready"
  PROVE  NothingClosed(in)
<1> DEFINE g == RuntimeGate(in)  l == RateGate(in)
<1>1. /\ AdapterSays(in) = "ok" /\ GovernorSays(in) = "ok"
      /\ CheckpointSays(in, Prepared(DemoPlan(in)), Run(in, Prepared(DemoPlan(in)))) = "ok"
  BY ReadyPassesEveryStage DEF DemoStatus
<1>2. Released(in, Prepared(DemoPlan(in)).plan)
  BY <1>1, VerdictOk DEF CheckpointSays
<1>3. TransportGatesOpen(g, l) /\ ~in.dry
  BY <1>2 DEF Released
<1>4. LiveGatesOpen(g, l)
  BY <1>1, <1>3 DEF AdapterSays
<1>5. g.live.camel = TRUE
  BY <1>1 DEF GovernorSays
<1>6. None # TRUE /\ None # FALSE
  BY NoneIsNoSwitch
<1>7. /\ g.mode = Coalesce(in.runtime.mode, None, "evolve")
      /\ g.allowed = Coalesce(in.runtime.allowed, None, TRUE)
      /\ g.lane = Twins(in.runtime.lane, TRUE) /\ g.kill = Twins(in.runtime.kill, FALSE)
      /\ g.live = Twins(in.runtime.live, TRUE)
      /\ l.lane = Twins(in.rate.lane, TRUE) /\ l.content = Twins(in.rate.content, TRUE)
      /\ l.live = Twins(in.rate.live, TRUE) /\ l.retry = Twins(in.rate.retry, None)
  BY DEF RuntimeGate, RateGate
<1>8. in.runtime.mode \in LaneModes \cup {None} /\ in.runtime.allowed # FALSE
  BY <1>3, <1>6, <1>7 DEF TransportGatesOpen, Coalesce
<1>9. /\ in.runtime.lane.camel # FALSE /\ in.rate.lane.camel # FALSE /\ in.rate.content.camel # FALSE
      /\ in.runtime.live.camel # FALSE /\ in.runtime.kill.camel # TRUE
  <2>1. /\ Twins(in.runtime.lane, TRUE).camel # FALSE /\ Twins(in.rate.lane, TRUE).camel # FALSE
        /\ Twins(in.rate.content, TRUE).camel # FALSE /\ Twins(in.runtime.live, TRUE).camel # FALSE
        /\ Twins(in.runtime.kill, FALSE).camel # TRUE
    BY <1>4, <1>5, <1>7, Zenon DEF LiveGatesOpen
  <2> QED
    BY <2>1, <1>6, TwinsAsGiven, Zenon
<1>10. /\ in.runtime.lane.snake # FALSE /\ in.rate.lane.snake # FALSE /\ in.rate.content.snake # FALSE
       /\ in.runtime.live.snake # FALSE /\ in.runtime.kill.snake # TRUE
  <2>1. /\ Twins(in.runtime.lane, TRUE).snake # FALSE /\ Twins(in.rate.lane, TRUE).snake # FALSE
        /\ Twins(in.rate.content, TRUE).snake # FALSE /\ Twins(in.runtime.live, TRUE).snake # FALSE
        /\ Twins(in.runtime.kill, FALSE).snake # TRUE
    BY <1>3, <1>7, Zenon DEF TransportGatesOpen
  <2> QED
    BY <2>1, <1>6, TwinsAsGiven, Zenon
<1>11. (IF in.rate.live.snake # None THEN in.rate.live.snake ELSE in.rate.live.camel) # FALSE
  <2>1. Twins(in.rate.live, TRUE).snake # FALSE
    BY <1>3, <1>7, Zenon DEF TransportGatesOpen
  <2>2. Twins(in.rate.live, TRUE).snake =
          Coalesce(in.rate.live.snake, in.rate.live.camel, TRUE)
    BY DEF Twins
  <2> QED
    BY <2>1, <2>2, <1>6, Zenon DEF Coalesce
<1>12. {in.rate.retry.camel, in.rate.retry.snake} \subseteq {None, 0}
  <2>1. in.rate.retry.snake \in {None, 0}
    BY <1>3, <1>7 DEF TransportGatesOpen, Twins, Coalesce
  <2>2. in.rate.retry.camel # None => in.rate.retry.camel = 0
    <3>1. in.rate.retry.camel # None => l.retry.camel = in.rate.retry.camel
      BY <1>7 DEF Twins, Coalesce
    <3>2. l.retry.camel # None => ~(l.retry.camel > 0)
      BY <1>4 DEF LiveGatesOpen
    <3>3. l.retry.camel # None => ~(l.retry.camel < 0)
      BY <1>1, <1>3, <1>4, VerdictOk DEF AdapterSays, CreationRequestIsValid
    <3>4. in.rate.retry.camel \in Int \cup {None}
      BY DemoInputsHaveTypes
    <3> QED
      BY <3>1, <3>2, <3>3, <3>4
  <2> QED
    BY <2>1, <2>2
<1>13. \/ "date" \notin {in.runtime.cooldown.camel, in.runtime.cooldown.snake}
       \/ "null" \in {in.runtime.cooldown.camel, in.runtime.cooldown.snake}
  BY <1>3 DEF TransportGatesOpen, RuntimeGate
<1> QED
  BY <1>8, <1>9, <1>10, <1>11, <1>12, <1>13 DEF NothingClosed

(* A demo (forge-demo run.ts) that answers ready was cleared by people, scope  *)
(* and gates, whatever its caller gives it: each of these is decided by more   *)
(* than one stage, on what the stages before left of the input.                *)
THEOREM DemosAreCleared == DemoSpec => []ReadyDemosAreCleared
<1> DEFINE Inv == demo # None => demo.input \in DemoInputs /\ demo.status = DemoStatus(demo.input)
<1>1. DemoInit => Inv
  BY DEF DemoInit
<1>2. Inv /\ [DemoNext]_demoVars => Inv'
  <2> SUFFICES ASSUME Inv, [DemoNext]_demoVars PROVE Inv'
    OBVIOUS
  <2>1. CASE UNCHANGED demo
    BY <2>1
  <2>2. ASSUME NEW in \in DemoInputs, RunDemo(in) PROVE Inv'
    BY <2>2 DEF RunDemo
  <2> QED
    BY <2>1, <2>2 DEF DemoNext, demoVars
<1>3. Inv => ReadyDemosAreCleared
  BY ReadyIsAnswered, ReadyFilesAreAllowed, ReadyGatesWereOpen DEF ReadyDemosAreCleared, Cleared
<1> QED
  BY <1>1, <1>2, <1>3, PTL DEF DemoSpec
=============================================================================
