-------------------------- MODULE MCRepositoryRecords --------------------------
(* Records of one pull request, two texts, one policy with every kind of rule, *)
(* and documents of the kinds a shadow run is about.                           *)
EXTENDS RepositoryRecords

(* Two words in query "q" are in the text "both", one is in "one". *)
MCTexts == {"", "one", "both", "none"}
MCCost == [t \in MCTexts |-> IF t = "both" THEN 3 ELSE IF t = "one" THEN 2 ELSE 1]
MCRelevance == [q |-> [t \in MCTexts |-> IF t = "both" THEN 2 ELSE IF t = "one" THEN 1 ELSE 0]]

(* The actions of the default policy. *)
MCLower == [Forge |-> "forge", forge |-> "forge", Secret |-> "secret", secret |-> "secret",
            style |-> "style"]
MCPolicy ==
  [severity |-> [high |-> "block", medium |-> "hold", low |-> "pass", note |-> "pass"],
   critical |-> {"critical", "fatal", "security_critical"},
   denied |-> {<<"forge", "secret">>}, allowed |-> {}, immutable |-> {"workflow"},
   denyAction |-> "quarantine", notAllowedAction |-> "block", immutableAction |-> "quarantine",
   stoppedAction |-> "quarantine", notMutatingAction |-> "hold", rateBlockedAction |-> "block",
   rateDelayedAction |-> "hold",
   class |-> [pass |-> "B", hold |-> "B", block |-> "C", quarantine |-> "C"]]
Found(id, severity, rule, from, file) ==
  [id |-> id, message |-> TRUE, severity |-> severity, rule |-> rule, path |-> [from |-> from, file |-> file],
   line |-> 1, secret |-> FALSE]
MCFindings ==
  { Found(1, "info", <<"style">>, "repository", "code"), Found(2, "high", <<"style">>, "workspace", "code"),
    Found(3, "warning", <<"Secret">>, "repository", "code"), Found(4, "info", <<"Forge", "style">>, "repository", "workflow"),
    Found(5, "critical", <<"style">>, "pointer", "code") }
MCRuntimes ==
  {[mode |-> "evolve", killed |-> FALSE], [mode |-> "evolve", killed |-> TRUE], [mode |-> "observe", killed |-> FALSE],
   [mode |-> "halted", killed |-> FALSE]}
MCRates ==
  {[status |-> s, dispatch |-> "ready", cooldown |-> c] : s \in {"ready", "blocked"}, c \in BOOLEAN}

Line(indent, dash, column, key) == [indent |-> indent, dash |-> dash, column |-> column, key |-> key]
MCLines ==
  {Line(i, "none", i, k) : i \in {0, 2, 4}, k \in {{}, {"k"}}}
  \cup {Line(i, "item", i + 2, k) : i \in {0, 2}, k \in {{}, {"k"}}}
  \cup {Line(0, "item", 4, {"k"}), Line(0, "items", 4, {"k"}), Line(0, "alone", 1, {}), Line(2, "alone", 3, {})}

Place(dirs, stem) == [dirs |-> dirs, stem |-> stem]
MCPlaces == {Place(<<".forge", "evals">>, "core"), Place(<<".forge", "evals", "results">>, "core")}
Uri(kind, name) == [formed |-> TRUE, kind |-> kind, name |-> name]
Field == [formed |-> TRUE]
Document(kind, name, sections) ==
  [key \in CommonKeys \cup KeysOf[kind] \cup sections |->
     CASE key = "forge_version" -> 1
       [] key \in {"kind", "schema_ref"} -> kind
       [] key = "id" -> Uri(kind, name)
       [] key = "mind_ref" -> {Uri("mind", "mind")}
       [] key = "status" -> "active"
       [] key = "owners" -> {"owner"}
       [] key = "extensions" -> [level |-> [type |-> "number", text |-> "1"]]
       [] key = "integrity" -> [canonical_hash |-> {"unset"}, signatures |-> {{}}]
       [] key \in {"suite_name", "result_name"} -> name
       [] key = "graders" -> <<[id |-> "format", formed |-> TRUE, decisions |-> {"pass", "fail"}]>>
       [] key = "tasks" -> <<[id |-> "docs", formed |-> TRUE, graders |-> {"format"}]>>
       [] key = "success_metrics" -> {"ready"}
       [] key = "shadow_only" -> TRUE
       [] OTHER -> Field]
MCDocuments ==
  { Document("eval_suite", "core", {}),
    [Document("eval_suite", "core", {}) EXCEPT !.tasks[1].graders = {"format", "scope"}],
    [Document("eval_suite", "core", {}) EXCEPT !.mind_ref = {}],
    Document("eval_suite", "other", {}),
    Document("eval_result", "core", {}), Document("eval_result", "core", {"integrity"}),
    Document("treaty", "core", {}) }
MCValues ==
  { [type |-> "string", text |-> "1"], [type |-> "number", text |-> "1"], [type |-> "bool", text |-> "true"],
    [type |-> "string", text |-> "true"], [type |-> "string", text |-> "e"], [type |-> "string", text |-> "e+"] }
MCNfc == [t \in {"1", "true", "e", "e+"} |-> IF t = "e+" THEN "e" ELSE t]
MCRolePrefix == [s \in {"core", "core.v1", "mind"} |-> IF s = "core.v1" THEN "core" ELSE s]

Ref(kind, dirs, stem, name) == [kind |-> kind, dirs |-> dirs, stem |-> stem, name |-> name]
MCRefs ==
  { Ref("eval_suite", <<".forge", "evals">>, "core", "core"),
    Ref("eval_result", <<".forge", "evals", "results">>, "core", "core"),
    Ref("eval_result", <<".forge", "evals", "results">>, "core.v1", "core.v1"),
    Ref("forge_document", <<".forge">>, "mind", "mind") }
=============================================================================
