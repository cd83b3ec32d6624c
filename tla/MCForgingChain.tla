--------------------------- MODULE MCForgingChain ---------------------------
(* One issue planned as docs, as a bug of class B and as a feature with risky  *)
(* words; candidates that share its id with other scopes, classes and risks.   *)
(* Calls of the demo that differ in one respect from the default one, or from  *)
(* one of a bug of class B that a person approved.                             *)
EXTENDS ForgedPrDemo

Issue(delivery, labels, risks, classes, words) ==
  [kind |-> "issue", alert |-> "none", number |-> "7", delivery |-> delivery, open |-> TRUE,
   conclusion |-> "none", labels |-> labels \cup {"forge:auto"}, risks |-> risks,
   classes |-> classes, words |-> words, changed |-> "none",
   title |-> [task |-> "none", slug |-> "fix-guide"]]
MCItems ==
  { Issue("none", {"docs"}, {}, {}, {"docs"}),
    Issue("none", {"docs"}, {}, {ClassB}, {"docs"}),
    Issue("none", {}, {}, {}, {"fix"}),
    Issue("none", {}, {0}, {0}, {"critical", "fix"}),
    [Issue("none", {}, {}, {}, {"fix"}) EXCEPT !.kind = "workflow_run", !.conclusion = "failure"] }

Docs == CHOOSE i \in MCItems : ClassB \in i.classes
MCCandidates ==
  { [TaskCandidate(Docs) EXCEPT !.class = ClassC],
    [TaskCandidate(Docs) EXCEPT !.risk = High, !.class = 0],
    [TaskCandidate(Docs) EXCEPT !.mutable = {AnyExt(".test")}] }

GuideFile == File(<<"docs">>, "guide", ".md")
NestedReadme == File(<<"packages", "x">>, "README", ".md")
WorkflowFile == File(<<".github", "workflows">>, "ci", ".test")
Output(changed, artifacts, commands, stated) ==
  [changed |-> changed, artifacts |-> artifacts, commands |-> commands, stated |-> stated]
MCOutputs ==
  { Output({GuideFile}, Required, {"run_verification"}, 1),
    Output({NestedReadme}, Required, {"lint"}, 1),
    Output({WorkflowFile}, Required, {}, 1),
    Output({GuideFile}, {}, {}, None) }

MCBases == {<<"main">>}
MCCommandSets == {None, {[id |-> "lint", writable |-> {Tree(<<"docs", "specs">>)}]}}

(***************************************************************************)
(* Calls of the demo                                                       *)
(***************************************************************************)
Twin(camel, snake) == [camel |-> camel, snake |-> snake]
Unset == Twin(None, None)
Person == [approved |-> TRUE, self |-> FALSE, code_owner |-> FALSE]
Default ==
  [clock |-> TRUE, item |-> None, title |-> {}, labels |-> {}, changed |-> None, output |-> None,
   evidence |-> None, head_sha |-> TRUE,
   installation |-> [same_repo |-> TRUE, pull_requests |-> "write", administration |-> "none",
                     workflows |-> "none", secrets |-> "none"],
   runtime |-> [mode |-> None, allowed |-> None, lane |-> Unset, kill |-> Unset, live |-> Unset,
                cooldown |-> Twin("absent", "absent")],
   rate |-> [lane |-> Unset, content |-> Unset, live |-> Unset, retry |-> Unset],
   rate_state |-> "free", approvals |-> <<>>, dry |-> FALSE]
Bug(class) == Issue("none", {"bug"}, {}, {class}, {"fix"})
Approved == [Default EXCEPT !.item = Bug(ClassB), !.approvals = <<Person>>]

Twinned == {Twin(a, b) : a \in {None, TRUE, FALSE}, b \in {None, TRUE, FALSE}}
Manifest == File(<<"apps", "github-app">>, "app-manifest", ".json")
Tests == File(<<"tests">>, "demo", ".test")
RanOn(changed, stated) ==
  [changed |-> changed, artifacts |-> Artifacts, commands |-> {}, stated |-> stated, clean |-> TRUE]
Seen(changed) == [changed |-> changed, exit |-> 0, stated |-> None]
Variants(d) ==
  { [d EXCEPT !.clock = FALSE], [d EXCEPT !.head_sha = FALSE], [d EXCEPT !.dry = TRUE],
    [d EXCEPT !.dry = TRUE, !.runtime.mode = "halted"], [d EXCEPT !.rate_state = "delayed"] }
  \cup {[d EXCEPT !.item = i] : i \in MCItems \cup
          { Bug(ClassC), Bug(0), Issue("none", {"test"}, {}, {}, {"test"}),
            Issue("none", {"dependency"}, {}, {0}, {}), Issue("none", {"forge:block"}, {}, {}, {}),
            Issue("none", {"feature"}, {}, {ClassB}, {}), [Bug(0) EXCEPT !.number = "none"] }}
  \cup {[d EXCEPT !.title = {w}] : w \in {"ghp_", "x-access-token:", "mutable paths"}}
  \cup {[d EXCEPT !.labels = {w}] : w \in {"ghp_", "x-access-token:"}}
  \cup {[d EXCEPT !.changed = fs] : fs \in {{}, {GuideFile}, {Tests}, {Manifest}, {WorkflowFile}}}
  \cup {[d EXCEPT !.output = RanOn(fs, s)] : fs \in {{GuideFile}, {Tests}, {NestedReadme}, {WorkflowFile}},
                                          s \in {None, 1, 13}}
  \cup {[d EXCEPT !.output = [RanOn({Tests}, 1) EXCEPT !.clean = FALSE]],
        [d EXCEPT !.output = [RanOn({Tests}, 1) EXCEPT !.artifacts = {}]],
        [d EXCEPT !.output = [RanOn({Tests}, 1) EXCEPT !.commands = {"lint"}]]}
  \cup {[d EXCEPT !.evidence = Seen(fs)] : fs \in {{}, {Manifest}, {WorkflowFile}, {NestedReadme}}}
  \cup {[d EXCEPT !.evidence = [Seen({}) EXCEPT !.exit = 1]]}
  \cup {[d EXCEPT !.installation = i] : i \in
          { [Default.installation EXCEPT !.same_repo = FALSE],
            [Default.installation EXCEPT !.pull_requests = "read"],
            [Default.installation EXCEPT !.secrets = "read"],
            [Default.installation EXCEPT !.workflows = "write"] }}
  \cup {[d EXCEPT !.runtime.mode = m] : m \in Modes}
  \cup {[d EXCEPT !.runtime.allowed = b] : b \in BOOLEAN}
  \cup {[d EXCEPT !.runtime.lane = t] : t \in Twinned}
  \cup {[d EXCEPT !.runtime.kill = t] : t \in Twinned}
  \cup {[d EXCEPT !.runtime.live = t] : t \in Twinned}
  \cup {[d EXCEPT !.runtime.cooldown = Twin(a, b)] :
          a \in {"absent", "null", "date"}, b \in {"absent", "null", "date"}}
  \cup {[d EXCEPT !.rate.lane = t] : t \in Twinned}
  \cup {[d EXCEPT !.rate.content = t] : t \in Twinned}
  \cup {[d EXCEPT !.rate.live = t] : t \in Twinned}
  \cup {[d EXCEPT !.rate.retry = Twin(a, b)] : a \in {None, 0, 1, -1}, b \in {None, 0, 1, -1}}
  \cup {[d EXCEPT !.approvals = a] : a \in
          { <<>>, <<Person>>, <<[Person EXCEPT !.self = TRUE]>>, <<[Person EXCEPT !.approved = FALSE]>>,
            <<Person, [Person EXCEPT !.self = TRUE]>>, <<Person, [Person EXCEPT !.code_owner = TRUE]>> }}
MCDemoInputs == Variants(Default) \cup Variants(Approved)
=============================================================================
