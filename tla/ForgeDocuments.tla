----------------------------- MODULE ForgeDocuments -----------------------------
(* The kernel of .forge documents (crates/forge-kernel): what source it reads  *)
(* (source.rs, parser.rs), which shape a document has and where in the         *)
(* repository it may lie (validate.rs), its canonical form (canonical.rs) and  *)
(* the hash that seals it (hash.rs).                                           *)
(*                                                                             *)
(* A source is its lines, as far as keys and indentation go, what else is      *)
(* wrong with its text, and the document YAML reads from it.  A document is a  *)
(* record of top-level keys.  What the shape asks of one field alone, a string *)
(* that is not empty or of a given form, is the flag "formed"; a URI is the    *)
(* kind and the name it ends with, and an optional value is a set with at most *)
(* one element.  The hash of bytes is those bytes.                             *)
EXTENDS Naturals, Sequences, FiniteSets, SequencesExt

CONSTANTS
  Nfc,                \* a text |-> its composed form
  Numeric, Special,   \* texts Rust reads as a number, and those unfit to be plain
  RolePrefix          \* a file's stem |-> what comes before its first dot

ASSUME NumbersAreNoWords == Numeric \cap {"null", "true", "false", "~", ""} = {}

(***************************************************************************)
(* The source                                                              *)
(***************************************************************************)
Defects ==
  {"not_utf8", "carriage_return", "no_magic_line", "trailing_newline", "tab", "not_nfc",
   "merge_key", "flow_mapping", "anchor", "alias"}

(* A line has an indent, a dash or not, and a key or not in some column.  A    *)
(* dash stands "alone", or begins an "item"; an item may begin with an item of *)
(* its own, "items", and its key may be any number of spaces away.             *)
ItemDashes == {"item", "items"}

(* The scanner keeps a stack of frames, the keys of each mapping that is open. *)
(* Their indentations only grow, so a frame is found by its own.  An item of a *)
(* sequence opens a frame two columns on, wherever its key stands; a key after *)
(* a second dash is read with that dash, as a key no other line can have.  A   *)
(* line without a key, a dash alone on its line too, leaves the frames as they *)
(* are.                                                                        *)
FrameOf(line) == IF line.dash \in ItemDashes THEN line.indent + 2 ELSE line.indent
KeyRead(line) == IF line.dash = "items" THEN {} ELSE line.key
KeepUpTo(frames, indent) == [i \in {j \in DOMAIN frames : j <= indent} |-> frames[i]]
Opened(frames, indent) ==
  [i \in DOMAIN frames \cup {indent} |-> IF i = indent THEN {} ELSE frames[i]]
WithKey(scan, indent, key) ==
  [frames |-> [scan.frames EXCEPT ![indent] = @ \cup key],
   duplicate |-> scan.duplicate \/ (key # {} /\ key \subseteq scan.frames[indent])]
(* Mutant: an item goes on with the frame of the item before it. *)
ScanLineInOneFrame(scan, line) ==
  LET kept == KeepUpTo(scan.frames, FrameOf(line))
  IN IF KeyRead(line) = {} THEN scan
     ELSE WithKey([scan EXCEPT !.frames =
                     IF FrameOf(line) \in DOMAIN kept THEN kept ELSE Opened(kept, FrameOf(line))],
                  FrameOf(line), KeyRead(line))
ScanLine(scan, line) ==
  IF line.dash \in ItemDashes
  THEN WithKey([scan EXCEPT !.frames = Opened(KeepUpTo(@, line.indent + 1), FrameOf(line))],
               FrameOf(line), KeyRead(line))
  ELSE IF line.key = {} THEN scan
  ELSE LET kept == KeepUpTo(scan.frames, line.indent)
       IN WithKey([scan EXCEPT !.frames =
                     IF line.indent \in DOMAIN kept THEN kept ELSE Opened(kept, line.indent)],
                  line.indent, line.key)
(* What the scanner knows after each line. *)
Scans(lines) ==
  LET after[n \in 0..Len(lines)] ==
        IF n = 0 THEN [frames |-> [i \in {} |-> {}], duplicate |-> FALSE]
        ELSE ScanLine(after[n - 1], lines[n])
  IN after
HasDuplicates(lines) == Scans(lines)[Len(lines)].duplicate
TextIsValid(source) == source.defects = {} /\ ~HasDuplicates(source.lines)

(***************************************************************************)
(* The shape                                                               *)
(***************************************************************************)
CommonKeys ==
  {"forge_version", "schema_ref", "kind", "id", "revision", "mind_ref", "status", "title", "summary",
   "owners", "created_at", "updated_at", "extensions"}
KeysOf ==
  [mind |-> {"identity", "constitution", "repo_profile", "approval_matrix", "branch_contracts",
             "allowed_species", "budget_caps", "treaty_policy", "provenance"},
   agent |-> {"identity", "role", "constitution", "context_recipe", "tools", "memory", "scores",
              "evolution", "mutation_log", "provenance"},
   policy |-> {"policy_type", "rules", "thresholds", "actions_on_breach", "required_approvals",
               "cooldowns", "quarantine_triggers", "provenance"},
   eval_suite |-> {"suite_name", "tasks", "graders", "risk_class", "success_metrics", "shadow_only",
                   "provenance"},
   eval_result |-> {"result_name", "suite_ref", "evaluated_ref", "run_ref", "inputs", "outcome", "score",
                    "artifacts", "limitations", "provenance"},
   lineage |-> {"lineage_type", "entries", "provenance"},
   treaty |-> {"peer_repo", "trust_level", "allowed_actions", "forbidden_actions", "lineage_scope",
               "revocation_policy", "reputation_floor", "provenance"},
   memory_index |-> {"index_name", "sources", "entries", "retention_policy", "provenance"}]
Kinds == DOMAIN KeysOf
TopLevelKeys == CommonKeys \cup UNION {KeysOf[k] : k \in Kinds} \cup {"attachments", "integrity", "compat"}
DocumentStatuses == {"seeded", "active", "quarantined", "deprecated", "fossilized"}

Modes == {"observe", "propose", "evolve", "federate", "quarantine", "halted"}
MindIsValid(doc) ==
  /\ doc.repo_profile.default_mode \in Modes
  /\ doc.repo_profile.network_mode \in {"off", "allowlisted", "supervised", "open"}
  /\ doc.repo_profile.spawn_mode \in {"off", "lab-only", "allowlisted", "open"}
  /\ doc.repo_profile.maintenance_sla
  /\ {"A", "B", "C", "D"} \subseteq doc.approval_matrix
(* A URI is of some kind, not necessarily of the kind of its document. *)
IsUri(uri) == uri.formed /\ uri.kind \in Kinds
ShapeIsValid(doc) ==
  /\ CommonKeys \subseteq DOMAIN doc /\ DOMAIN doc \subseteq TopLevelKeys
  /\ doc.forge_version = 1 /\ doc.kind \in Kinds /\ doc.schema_ref = doc.kind
  /\ IsUri(doc.id) /\ \A uri \in doc.mind_ref : IsUri(uri)
  /\ doc.revision.formed /\ doc.status \in DocumentStatuses
  /\ doc.title.formed /\ doc.summary.formed /\ doc.owners # {}
  /\ doc.created_at.formed /\ doc.updated_at.formed
  /\ KeysOf[doc.kind] \subseteq DOMAIN doc
  /\ doc.kind = "mind" => MindIsValid(doc)

(***************************************************************************)
(* The place                                                               *)
(***************************************************************************)
(* A path: the directories and the stem of the .forge file. *)
Lies(path, directories) == IsSuffix(<<".forge">> \o directories, path.dirs)
IsNamed(doc, kind, name) == doc.kind = kind /\ doc.id.kind = kind /\ doc.id.name = name
(* An identity that is not a mapping is not compared. *)
AgentLies(doc, path) ==
  /\ IsNamed(doc, "agent", path.stem)
  /\ \A identity \in doc.identity : identity = [species |-> path.stem, role_name |-> RolePrefix[path.stem]]
(* Mutant: results are thought to lie next to the suites. *)
PlaceIsValidBesideResults(doc, path) ==
  /\ Lies(path, <<"agents">>) => AgentLies(doc, path)
  /\ Lies(path, <<>>) /\ path.stem = "mind" => doc.kind = "mind"
  /\ Lies(path, <<"policies">>) => doc.kind = "policy"
  /\ Lies(path, <<"memory">>) => IsNamed(doc, "memory_index", path.stem) /\ doc.index_name = path.stem
  /\ Lies(path, <<"results">>) => IsNamed(doc, "eval_result", path.stem) /\ doc.result_name = path.stem
  /\ Lies(path, <<"evals">>) => IsNamed(doc, "eval_suite", path.stem) /\ doc.suite_name = path.stem
PlaceIsValid(doc, path) ==
  /\ Lies(path, <<"agents">>) => AgentLies(doc, path)
  /\ Lies(path, <<>>) /\ path.stem = "mind" => doc.kind = "mind"
  /\ Lies(path, <<"policies">>) => doc.kind = "policy"
  /\ Lies(path, <<"memory">>) => IsNamed(doc, "memory_index", path.stem) /\ doc.index_name = path.stem
  /\ Lies(path, <<"evals", "results">>) =>
       IsNamed(doc, "eval_result", path.stem) /\ doc.result_name = path.stem
  /\ Lies(path, <<"evals">>) => IsNamed(doc, "eval_suite", path.stem) /\ doc.suite_name = path.stem
(* Any other place is free.                                                    *)

(***************************************************************************)
(* The canonical form and its hash                                         *)
(***************************************************************************)
(* Values of extensions: the only place where the shape leaves the type open.  *)
(* A string that could be read as something else is quoted.                    *)
Types == {"string", "number", "bool", "null"}
Words == {"null", "true", "false", "~", ""}
IsScalar(value) ==
  /\ value \in [type : Types, text : DOMAIN Nfc]
  /\ value.type = "number" => Nfc[value.text] \in Numeric
  /\ value.type = "bool" => Nfc[value.text] \in {"true", "false"}
  /\ value.type = "null" => Nfc[value.text] = "null"
IsPlainSafe(text) == text \notin Words \cup Numeric \cup Special
(* Mutant: only the words are quoted. *)
EmittedUnlessWord(value) ==
  [quoted |-> value.type = "string" /\ Nfc[value.text] \in Words \cup Special, text |-> Nfc[value.text]]
Emitted(value) ==
  [quoted |-> value.type = "string" /\ ~IsPlainSafe(Nfc[value.text]), text |-> Nfc[value.text]]
(* The hash leaves out the hash itself and the signatures, but not that there  *)
(* is a section for them, or a list.                                           *)
NormalizedForHash(doc) ==
  IF "integrity" \notin DOMAIN doc THEN doc
  ELSE [doc EXCEPT !.integrity = [canonical_hash |-> {"zero" : hash \in @.canonical_hash},
                                  signatures |-> {{} : list \in @.signatures}]]
Canonical(doc) ==
  [NormalizedForHash(doc) EXCEPT !.extensions = [key \in DOMAIN @ |-> Emitted(@[key])]]

(* A document without a hash of its own is as valid as one whose hash agrees.  *)
VerifyIntegrity(doc) ==
  IF "integrity" \notin DOMAIN doc \/ doc.integrity.canonical_hash = {} THEN "external"
  ELSE IF doc.integrity.canonical_hash = {Canonical(doc)} THEN "valid" ELSE "mismatch"

(* parse_bytes; the repository's tests also ask for the place.                 *)
IsParsed(source) == TextIsValid(source) /\ ShapeIsValid(source.document)
Accepts(source, path) == IsParsed(source) /\ PlaceIsValid(source.document, path)
=============================================================================
