------------------------------ MODULE SecurityGate ------------------------------
(* From findings to a gate decision: convertAuditFindingsToSarif (T040,        *)
(* packages/auditor/src/sarif.ts) turns findings into a SARIF-like artifact,   *)
(* evaluateSecurityGate (T041, auditor/src/security-gates.ts) reads one, with  *)
(* what the runtime and the rate governor say, and decides whether anything    *)
(* may go on to the approval checkpoint.                                       *)
(*                                                                             *)
(* A rule id is a sequence of segments; Lower is what normalizing does to one. *)
(* A path says from where it is written and which file of the repository it    *)
(* is; the patterns of the policy are sets of files.                           *)
EXTENDS Integers, Sequences, FiniteSets, FiniteSetsExt

CONSTANTS
  Lower,              \* a segment of a rule id as written |-> as normalized
  Policy              \* the security gates policy

Decisions == {"pass", "hold", "block", "quarantine"}
ForgeSeverities == {"high", "medium", "low", "note"}
Classes == {"A", "B", "C", "D"}

PolicyIsValid(p) ==
  /\ p.severity \in [ForgeSeverities -> Decisions]
  /\ {p.denyAction, p.notAllowedAction, p.immutableAction, p.stoppedAction, p.notMutatingAction,
      p.rateBlockedAction, p.rateDelayedAction} \subseteq Decisions
  /\ p.class \in [Decisions -> Classes]
ASSUME PolicyIsWellFormed ==
  /\ PolicyIsValid(Policy)
  /\ \A segment \in DOMAIN Lower : Lower[segment] \in DOMAIN Lower /\ Lower[Lower[segment]] = Lower[segment]

(***************************************************************************)
(* The bridge                                                              *)
(***************************************************************************)
SourceSeverities ==
  [high |-> {"critical", "high", "error", "fatal", "security_high"},
   medium |-> {"medium", "moderate", "warning", "warn", "security_medium"},
   low |-> {"low", "minor", "info", "informational", "notice", "security_low"},
   note |-> {"note", "none", "pass", "passed"}]
Severity(source) == CHOOSE s \in ForgeSeverities : source \in SourceSeverities[s]
IsSeverity(source) == \E s \in ForgeSeverities : source \in SourceSeverities[s]

Lowered(rule) == [i \in DOMAIN rule |-> Lower[rule[i]]]
(* A rule id of one segment gets the prefix of the project.                    *)
BridgedRule(rule) == IF Len(rule) = 1 THEN <<"forge">> \o Lowered(rule) ELSE Lowered(rule)
(* Only paths of the repository pass, and those under a workspace that is named. *)
IsSafe(path, workspace) == path.from = "repository" \/ (path.from = "workspace" /\ workspace)

(* The JSON pointers the auditor reports are absolute paths.                   *)
FindingIsValid(f, workspace) ==
  f.message /\ IsSeverity(f.severity) /\ f.rule # <<>> /\ IsSafe(f.path, workspace) /\ f.line > 0 /\ ~f.secret
Result(f) ==
  [rule |-> BridgedRule(f.rule), severity |-> Severity(f.severity), source |-> f.severity,
   file |-> f.path.file, id |-> f.id]
CountOf(results) == [s \in ForgeSeverities |-> Cardinality({r \in results : r.severity = s})]
(* No findings are no artifact, and one that cannot be read takes the others   *)
(* with it.                                                                    *)
Bridge(findings, workspace) ==
  IF findings = {} \/ \E f \in findings : ~FindingIsValid(f, workspace) THEN [status |-> "invalid"]
  ELSE LET results == {Result(f) : f \in findings} IN
       [status |-> "ready", results |-> results, count |-> Cardinality(results),
        severities |-> CountOf(results), files |-> {r.file : r \in results}]
ArtifactIsValid(a) ==
  /\ a.status = "ready" /\ a.count = Cardinality(a.results) /\ DOMAIN a.severities = ForgeSeverities
  /\ \A r \in a.results : r.severity \in ForgeSeverities /\ r.rule # <<>>

(***************************************************************************)
(* The gate                                                                *)
(***************************************************************************)
Rank(decision) == CASE decision = "pass" -> 0 [] decision = "hold" -> 1 [] decision = "block" -> 2
                    [] decision = "quarantine" -> 3 [] decision = "invalid" -> 4
Strictest(decisions) ==
  CHOOSE d \in decisions \cup {"pass"} : \A e \in decisions : Rank(e) <= Rank(d)

(* The gate normalizes without the prefix; what came through the bridge has it.*)
RuleOf(r) == Lowered(r.rule)
Reasons(r) ==
  { c \in [decision : Decisions, code : {"critical", "denied", "not_allowed", "immutable", "severity"}] :
      \/ c.code = "critical" /\ r.source \in Policy.critical
           /\ c.decision = IF Policy.immutableAction = "quarantine" THEN "quarantine" ELSE "block"
      \/ c.code = "denied" /\ RuleOf(r) \in Policy.denied /\ c.decision = Policy.denyAction
      \/ c.code = "not_allowed" /\ Policy.allowed # {} /\ RuleOf(r) \notin Policy.allowed
           /\ c.decision = Policy.notAllowedAction
      \/ c.code = "immutable" /\ r.file \in Policy.immutable /\ c.decision = Policy.immutableAction
      \/ c.code = "severity" /\ c.decision = Policy.severity[r.severity] }
DecideFinding(r) == Strictest({c.decision : c \in Reasons(r)})

RateBlocked == {"blocked", "block", "denied", "invalid"}
RateDelayed == {"delayed", "delay", "cooldown", "held", "queued_after_cooldown"}
(* enforced: the transport is to be enforced, or was asked for.                *)
Boundaries(runtime, rate, enforced) ==
  { d \in Decisions :
      \/ d = Policy.stoppedAction /\ (runtime.killed \/ runtime.mode \in {"halted", "quarantine"})
      \/ d = Policy.notMutatingAction /\ enforced /\ runtime.mode \notin {"evolve", "federate"}
      \/ d = Policy.rateBlockedAction /\ {rate.status, rate.dispatch} \cap RateBlocked # {}
      \/ d = Policy.rateDelayedAction
           /\ (rate.cooldown \/ rate.status \in RateDelayed
                             \/ rate.dispatch \in RateDelayed \ {"queued_after_cooldown"}) }

Status(decision) == CASE decision = "pass" -> "passed" [] decision = "hold" -> "held"
                      [] decision = "block" -> "blocked" [] decision = "quarantine" -> "quarantined"
MinApprovals(class) == CASE class = "A" -> 0 [] class = "B" -> 1 [] OTHER -> 2
(* Mutant: what the boundaries say replaces what was found. *)
AggregateAtBoundary(decisions, boundaries) ==
  IF boundaries # {} THEN Strictest(boundaries) ELSE Strictest(decisions)
Aggregate(decisions, boundaries) == Strictest(decisions \cup boundaries)

DecisionReadsBack(m) ==
  m.status = Status(m.decision) /\ m.class \in Classes /\ m.inherited \in Classes
(* The class comes from the decision alone; the one the checkpoint had is only *)
(* reported.                                                                   *)
DecisionManifest(decision, decided, boundaries, class) ==
  [decision |-> decision, status |-> Status(decision), class |-> Policy.class[decision], inherited |-> class,
   approvals |-> MinApprovals(Policy.class[decision]), decided |-> decided, boundaries |-> boundaries]
EvaluateGate(artifact, runtime, rate, enforced, class) ==
  IF ~ArtifactIsValid(artifact) THEN [decision |-> "invalid"]
  ELSE LET decided == [r \in artifact.results |-> DecideFinding(r)]
           boundaries == Boundaries(runtime, rate, enforced)
           decision == Aggregate({decided[r] : r \in artifact.results}, boundaries)
           manifest == DecisionManifest(decision, decided, boundaries, class)
       IN IF DecisionReadsBack(manifest) THEN manifest ELSE [decision |-> "invalid"]
=============================================================================
