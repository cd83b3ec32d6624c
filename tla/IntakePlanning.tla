--------------------------- MODULE IntakePlanning ---------------------------
(* What the planner makes of an intake input: its category, risk and approval  *)
(* class, whether it may be planned, and the Plan Spec.  A text is the set of  *)
(* the planner's key phrases it includes (a few of each list); labels of one   *)
(* meaning are one label.  A directory is the sequence of its segments.        *)
EXTENDS Integers, Sequences, FiniteSets, SequencesExt

Categories == {"security", "policy", "workflow", "network_offer", "dependency", "ci", "docs",
               "test", "bug", "feature", "question", "chore", "operator_command", "unknown"}
SourceKinds == {"issue", "issue_comment", "alert", "check_run", "workflow_run"}
Risks == 0..3      \* low, medium, high, critical
Classes == 0..3    \* A, B, C, D
High == 2
ClassB == 1
ClassC == 2
ClassD == 3

(* Patterns and files.                                                         *)
Tree(dir) == [kind |-> "tree", dir |-> dir, name |-> "", ext |-> ""]            \* dir/**
Exactly(f) == [kind |-> "file", dir |-> f.dir, name |-> f.name, ext |-> f.ext]  \* dir/name.ext
Ext(ext) == [kind |-> "ext", dir |-> <<>>, name |-> "", ext |-> ext]            \* *.ext
AnyExt(ext) == [kind |-> "anyext", dir |-> <<>>, name |-> "", ext |-> ext]      \* **/*.ext
File(dir, name, ext) == [dir |-> dir, name |-> name, ext |-> ext]
IsFile(p, f) == p.name = f.name /\ p.ext = f.ext
Trees(names) == {Tree(<<d>>) : d \in names}
Governance == {Tree(<<".github", "workflows">>), Tree(<<".forge", "policies">>), Tree(<<".forge", "network">>)}

(* The literal text before the first wildcard; two patterns overlap when one's *)
(* starts the other's, and an empty one overlaps nothing.                      *)
LiteralPrefix(p) == IF p.kind = "file" THEN Append(p.dir, p.name \o p.ext) ELSE p.dir
Overlap(p, q) ==
  LET a == LiteralPrefix(p)  b == LiteralPrefix(q) IN
  a # <<>> /\ b # <<>> /\ (IsPrefix(a, b) \/ IsPrefix(b, a))
NoOverlap(mutable, immutable) == \A p \in mutable, q \in immutable : ~Overlap(p, q)

(***************************************************************************)
(* Classification (T016)                                                   *)
(***************************************************************************)
CategoryWords ==
  [c \in Categories |->
     CASE c = "security" -> {"rce", "private key"}         [] c = "policy" -> {"policy", "branch protection"}
       [] c = "workflow" -> {"workflow", "app permissions"} [] c = "network_offer" -> {"open federation"}
       [] c = "dependency" -> {"dependabot"}               [] c = "ci" -> {"flaky"}
       [] c = "docs" -> {"docs"}                           [] c = "test" -> {"test"}
       [] c = "bug" -> {"fix"}                             [] c = "feature" -> {"implement", "support"}
       [] c = "question" -> {"how to", "support"}          [] c = "operator_command" -> {"forge:retry"}
       [] c = "chore" -> {"cleanup"}                       [] c = "unknown" -> {}]
CriticalWords == {"private key", "rce", "critical"}
HighWords == {"branch protection", "app permissions", "workflow"}
ClassDWords == {"branch protection", "app permissions", "open federation"}
InjectionWords == {"ignore previous instructions"}
BroadWords == {"refactor all"}

(* The text searched has the kind of the source in it.                         *)
SearchText(i) == i.words \cup (IF i.kind = "workflow_run" THEN {"workflow"} ELSE {})

Hits(text, words) == text \cap words # {}
FirstOf(order, hits, else) ==
  LET found == SelectSeq(order, LAMBDA c : c \in hits) IN IF found = <<>> THEN else ELSE Head(found)
LabelOrder == <<"security", "policy", "workflow", "network_offer", "dependency", "ci",
                "docs", "test", "bug", "feature", "question", "chore">>
KeywordOrder == LabelOrder \o <<"operator_command">>

InferCategory(i) ==
  LET worded == {c \in DOMAIN CategoryWords : Hits(SearchText(i), CategoryWords[c])}
      byLabel == FirstOf(LabelOrder, i.labels, "none")
  IN IF i.kind = "alert" /\ i.alert \in {"security", "dependency"} THEN i.alert
     ELSE IF i.kind \in {"check_run", "workflow_run"} THEN "ci"
     ELSE IF byLabel # "none" THEN byLabel
     ELSE IF i.changed # "none" THEN i.changed
     ELSE FirstOf(KeywordOrder, worded, "unknown")

InferredRisk(category, text) ==
  IF Hits(text, CriticalWords) THEN 3
  ELSE IF Hits(text, HighWords) \/ category \in {"security", "policy", "workflow", "network_offer"} THEN High
  ELSE IF category \in {"docs", "test", "question", "chore"} THEN 0 ELSE 1
(* The risks named by labels and by an alert's severity can only raise it.     *)
RiskOf(i, category) ==
  CHOOSE r \in Risks :
    LET all == i.risks \cup {InferredRisk(category, SearchText(i))} IN r \in all /\ \A s \in all : s <= r

(* A label decides; of several the first in the order of the alphabet.         *)
ClassOf(i, category, risk) ==
  IF i.classes # {} THEN CHOOSE c \in i.classes : \A d \in i.classes : c <= d
  ELSE IF Hits(SearchText(i), ClassDWords) \/ risk = 3 THEN ClassD
  ELSE IF risk = High \/ category \in {"security", "policy", "workflow", "network_offer"} THEN ClassC
  ELSE IF category \in {"docs", "test", "chore"} THEN 0 ELSE ClassB

BlockedBy(i) == "forge:block" \in i.labels \/ Hits(SearchText(i), InjectionWords \cup BroadWords)
IgnoredBy(i) ==
  \/ ~i.open \/ Hits(i.labels, {"wontfix", "forge:hold"})
  \/ i.kind \in {"check_run", "workflow_run"} /\ i.conclusion = "success"
EscalatedBy(i, category, risk, class) ==
  \/ category \in {"security", "workflow", "policy", "network_offer", "operator_command"}
  \/ category = "unknown" /\ "forge:auto" \in i.labels
  \/ risk >= High \/ class >= ClassC
  \/ i.kind = "alert" /\ category # "dependency"
Actionable == {"docs", "test", "bug", "ci", "dependency", "feature", "chore"}

Disposition(i) ==
  LET category == InferCategory(i)
      risk == RiskOf(i, category)
  IN IF BlockedBy(i) THEN "block"
     ELSE IF IgnoredBy(i) THEN "ignore"
     ELSE IF EscalatedBy(i, category, risk, ClassOf(i, category, risk)) THEN "escalate"
     ELSE IF "forge:auto" \in i.labels /\ category \in Actionable THEN "accept" ELSE "ignore"

DocsPaths == {Exactly(File(<<>>, "README", ".md")), Tree(<<"docs">>), Ext(".md")}
TestPaths == {Tree(<<"tests">>), AnyExt(".test"), Tree(<<"docs", "specs", "fixtures">>)}
ManifestPaths == {Exactly(File(<<>>, "package", ".json")), Exactly(File(<<>>, "Cargo", ".toml"))}
CodeTrees == {"src", "tests", "packages", "apps", "crates"}
MutablePathHints(category) ==
  CASE category = "docs" -> DocsPaths
    [] category = "test" -> TestPaths
    [] category = "bug" -> Trees(CodeTrees)
    [] category = "dependency" -> ManifestPaths
    [] category \in {"ci", "feature", "chore"} -> Trees(CodeTrees \cup {"docs"})
    [] OTHER -> {}

(* The candidate is named after the delivery, or after the issue.              *)
SourceKey(i) == IF i.delivery # "none" THEN <<"delivery", i.delivery>> ELSE <<"github", i.kind, i.number>>
TaskCandidate(i) ==
  LET category == InferCategory(i)
      risk == RiskOf(i, category)
  IN [id |-> SourceKey(i), number |-> i.number, title |-> i.title, category |-> category, risk |-> risk,
      class |-> ClassOf(i, category, risk), mutable |-> MutablePathHints(category),
      forbidden |-> Governance, review |-> FALSE]

(***************************************************************************)
(* The Plan Spec (T015)                                                    *)
(***************************************************************************)
FallbackMutablePaths(category) ==
  IF category = "bug" THEN Trees(CodeTrees \cup {"docs"}) ELSE MutablePathHints(category)
MaxFilesChanged(category) == CASE category = "docs" -> 6 [] category = "dependency" -> 4 [] OTHER -> 12

Elevated(class, risk, review) == class >= ClassC \/ risk >= High \/ review
Criteria(category) ==
  {"diff_budget", "forbidden_paths_unchanged", "path_changed"}
    \cup (IF category \in {"docs", "dependency"} THEN {} ELSE {"command"})

PlanSpec(task, source) ==
  LET elevated == Elevated(task.class, task.risk, task.review) IN
  [id |-> task.id, number |-> task.number, title |-> task.title, source |-> source,
   status |-> IF elevated THEN "blocked_for_human" ELSE "ready_for_execution",
   mutable |-> IF task.mutable # {} THEN task.mutable ELSE FallbackMutablePaths(task.category),
   immutable |-> Governance \cup task.forbidden,
   max_files |-> MaxFilesChanged(task.category), risk |-> task.risk, class |-> task.class,
   human_execution |-> elevated, human_merge |-> task.class >= ClassB, escalation |-> elevated,
   criteria |-> Criteria(task.category)]

(* validatePlanSpec                                                            *)
PlanSpecIsValid(p) ==
  /\ p.mutable # {} /\ p.immutable # {} /\ NoOverlap(p.mutable, p.immutable)
  /\ p.max_files \in 1..50
  /\ p.risk >= High \/ p.class >= ClassC => p.escalation
  /\ p.class >= ClassC => p.human_execution
=============================================================================
