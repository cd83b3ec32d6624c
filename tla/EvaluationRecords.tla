--------------------------- MODULE EvaluationRecords ---------------------------
(* The records of the evaluation package, each made by one pure function:      *)
(*   collectMergeOutcome   what became of a pull request, told from evidence   *)
(*                         and never guessed (T036, packages/eval/src/         *)
(*                         outcomes.ts),                                       *)
(*   validateEvalSuite     a suite of tasks and graders (T034, eval-suite.ts), *)
(*   runEvalShadowRun      a dry run of a suite against a baseline (T045,      *)
(*                         shadow-run.ts),                                     *)
(* with the validators that read them back.  What the regular expressions ask  *)
(* of the single field is one flag, "formed".  A commit is a number, 0 when    *)
(* the field is null; a section that is not given is the empty one, which is   *)
(* how the manifest keeps it.                                                  *)
EXTENDS Naturals, Sequences, FiniteSets

(***************************************************************************)
(* Merge outcomes                                                          *)
(***************************************************************************)
Verdicts == {"approved", "changes_requested", "review_required", "commented", "unknown"}
CiOutcomes == {"passed", "failed", "pending", "cancelled", "skipped", "unknown"}

(* A pull request may leave out whether it is merged. *)
PrType ==
  [formed : BOOLEAN, state : {"open", "closed"}, merged : {"yes", "no", "unsaid"}, head : Nat,
   mergeCommit : Nat, mergedAt : BOOLEAN, closedAt : BOOLEAN]
PrIsValid(pr) ==
  /\ pr.formed
  /\ pr.merged = "yes" => pr.state = "closed" /\ pr.mergedAt /\ pr.mergeCommit # 0
  /\ pr.merged # "yes" => ~pr.mergedAt /\ pr.mergeCommit = 0
  /\ pr.closedAt <=> pr.state = "closed"

(* Trailers: what kind the key is of, and what the value refers to.  One at    *)
(* least is about the task or the pull request, none about another one.        *)
TrailersAreValid(trailers) ==
  /\ trailers # {}
  /\ \E t \in trailers : t.value \in {"task", "pr"}
  /\ \A t \in trailers : t.key \in {"task", "pr"} => t.value = t.key
SourceIsValid(source) == source.task /\ PrIsValid(source.pr) /\ TrailersAreValid(source.trailers)

(* A review of another head makes the whole input invalid, a merged one too.   *)
ReviewIsValid(review, pr) == review.outcome \in Verdicts /\ review.commit \in {0, pr.head}
CiIsValid(ci) ==
  /\ ci.outcome \in CiOutcomes /\ ci.passed <= ci.required
  /\ ci.outcome = "passed" => ci.passed = ci.required /\ ci.failures = 0
  /\ ci.outcome = "failed" => ci.failures > 0

(* Optional sections are sets with at most one element. *)
CompletedRevert(revert) ==
  revert.commit # 0 \/ \E pr \in revert.pr : pr.merged = "yes" /\ pr.state = "closed" /\ pr.mergeCommit # 0
RevertIsValid(revert) == (\A pr \in revert.pr : PrIsValid(pr)) /\ CompletedRevert(revert)
QuarantineIsValid(quarantine) == quarantine.on => quarantine.reasons # {}
StaleIsValid(stale) == stale.reason # ""

InputIsValid(input) ==
  /\ SourceIsValid(input.source) /\ ReviewIsValid(input.review, input.source.pr) /\ CiIsValid(input.ci)
  /\ \A r \in input.revert : RevertIsValid(r)
  /\ \A q \in input.quarantine : QuarantineIsValid(q)
  /\ \A s \in input.stale : StaleIsValid(s)

(* Only a review of the head that was closed rejects.                          *)
IsMerged(pr) == pr.merged = "yes" /\ pr.mergeCommit # 0 /\ pr.state = "closed"
(* Mutant: a review that names no commit rejects as well. *)
IsRejectedByAnyReview(review, pr) ==
  /\ review.outcome = "changes_requested" /\ pr.state = "closed" /\ pr.merged = "no"
  /\ review.commit \in {0, pr.head}
IsRejected(review, pr) ==
  /\ review.outcome = "changes_requested" /\ pr.state = "closed" /\ pr.merged = "no"
  /\ review.commit # 0 /\ review.commit = pr.head

(* The first evidence that is there, in this order.                            *)
ResolveOutcome(input) ==
  IF \E q \in input.quarantine : q.on THEN "quarantined"
  ELSE IF \E r \in input.revert : CompletedRevert(r) THEN "reverted"
  ELSE IF IsMerged(input.source.pr) THEN "merged"
  ELSE IF IsRejected(input.review, input.source.pr) THEN "rejected"
  ELSE IF \E s \in input.stale : s.on THEN "stale"
  ELSE "unknown"

(* What a manifest keeps: a merged that was left out is kept as "no".          *)
NormalizedPr(pr) == [pr EXCEPT !.merged = IF @ = "yes" THEN "yes" ELSE "no"]
Sections(input) ==
  [input EXCEPT !.source.pr = NormalizedPr(@),
                !.revert = {[r EXCEPT !.pr = {NormalizedPr(pr) : pr \in r.pr}] : r \in input.revert}]
NoReview == [outcome |-> "unknown", commit |-> 0]
NoCi == [outcome |-> "unknown", required |-> 0, passed |-> 0, failures |-> 0]
EmptySections ==
  [source |-> [task |-> FALSE, trailers |-> {},
               pr |-> [formed |-> FALSE, state |-> "open", merged |-> "no", head |-> 0, mergeCommit |-> 0,
                       mergedAt |-> FALSE, closedAt |-> FALSE]],
   review |-> NoReview, ci |-> NoCi, revert |-> {}, quarantine |-> {}, stale |-> {}]

CollectMergeOutcome(input) ==
  IF ~InputIsValid(input)
  THEN [status |-> "invalid", outcome |-> "unknown", sections |-> EmptySections]
  ELSE LET outcome == ResolveOutcome(input) IN
       [status |-> IF outcome = "unknown" THEN "unknown" ELSE "ready", outcome |-> outcome,
        sections |-> Sections(input)]

(* validateMergeOutcomeManifest: an envelope is empty; any other manifest is   *)
(* resolved again from what it keeps.                                          *)
OutcomeReadsBack(m) ==
  IF m.status = "invalid" THEN m.outcome = "unknown" /\ m.sections = EmptySections
  ELSE /\ InputIsValid(m.sections) /\ ResolveOutcome(m.sections) = m.outcome
       /\ m.status = IF m.outcome = "unknown" THEN "unknown" ELSE "ready"

(***************************************************************************)
(* Eval suites                                                             *)
(***************************************************************************)
Ids(definitions) == {definitions[i].id : i \in DOMAIN definitions}
AreDistinct(definitions) == Cardinality(Ids(definitions)) = Len(definitions)
(* Every grader a task refers to is defined in the suite. *)
TasksAreValid(tasks, graders, required) ==
  /\ required => tasks # <<>>
  /\ AreDistinct(tasks)
  /\ \A i \in DOMAIN tasks : tasks[i].formed /\ tasks[i].graders # {} /\ tasks[i].graders \subseteq Ids(graders)
GradersAreValid(graders) ==
  AreDistinct(graders) /\ \A i \in DOMAIN graders : graders[i].formed /\ graders[i].decisions # {}
GuardsHold(suite) == \A guards \in suite.guards : guards
(* path: the stem of the canonical path, in a set of at most one.              *)
SuiteIsValid(suite, path, required) ==
  /\ suite.formed /\ suite.id = suite.name /\ \A stem \in path : stem = suite.name
  /\ GradersAreValid(suite.graders) /\ TasksAreValid(suite.tasks, suite.graders, required)
  /\ suite.shadowOnly /\ suite.metrics # {} /\ GuardsHold(suite)

(***************************************************************************)
(* Shadow runs                                                             *)
(***************************************************************************)
(* A reference: the path as its directories and its file's stem, and what the  *)
(* caller says it is.  dotted: the stems with a dot.                           *)
Base == ".forge"
SuiteDirectories == <<Base, "evals">>
ResultDirectories == <<Base, "evals", "results">>
RefsAreValid(suite, baseline, candidate, dotted) ==
  /\ suite.kind = "eval_suite" /\ suite.dirs = SuiteDirectories /\ suite.name = suite.stem
  /\ baseline.kind = "eval_result" /\ baseline.dirs = ResultDirectories /\ baseline.stem \notin dotted
  /\ baseline.name = baseline.stem
  /\ candidate.kind = "forge_document" /\ candidate.dirs # <<>> /\ candidate.dirs[1] = Base
  /\ candidate.name = candidate.stem
(* allows: what the caller would let it do: write scores, write at run time,   *)
(* evolve.                                                                     *)
RunShadow(suite, baseline, candidate, allows, dotted) ==
  IF ~RefsAreValid(suite, baseline, candidate, dotted) THEN "invalid"
  ELSE IF allows # {} THEN "blocked" ELSE "ready"
=============================================================================
