---------------------------- MODULE RepositoryRecords ----------------------------
(* The functions that make and read the repository's records, in the hands of  *)
(* callers whose world moves on between their calls.  One caller each:         *)
(*   "follow"  fetches a pull request and its review apart from each other,    *)
(*             collects the outcome and digests the episode,                   *)
(*   "recall"  keeps digests, facts and packs and retrieves from them,         *)
(*   "screen"  has findings bridged and the security gate evaluated,           *)
(*   "read"    has the kernel read a text,                                     *)
(*   "seal"    keeps .forge documents where the kernel accepts them, edits and *)
(*             seals them,                                                     *)
(*   "rehearse"  has shadow runs of the documents that lie there.              *)
EXTENDS EvaluationRecords, MemoryRecords, SecurityGate, ForgeDocuments

CONSTANTS
  Duties,             \* the callers of this instance
  MaxHead,            \* bound: pushes to the pull request
  MaxChanges,         \* bound: changes of the world
  MaxValues,          \* bound: values the memory holds
  Queries, Budgets,   \* what is retrieved
  Findings, GateRuntimes, Rates,    \* what is screened
  SourceLines, MaxLines,            \* texts that are read, and a bound
  Places, Documents,  \* where documents are written, and which
  Values,             \* values given to an extension
  Refs,               \* what a shadow run refers to
  None

ASSUME RecordsAreBounded ==
  /\ Duties \subseteq {"follow", "recall", "screen", "read", "seal", "rehearse"}
  /\ MaxHead \in Nat \ {0} /\ MaxChanges \in Nat /\ MaxValues \in Nat /\ MaxLines \in Nat
(* A budget is positive, or the request for it is not valid. *)
ASSUME QueriesAreAsked == Queries \subseteq DOMAIN Relevance /\ Budgets \subseteq Nat \ {0}
ASSUME RatesAreStates ==
  \A r \in Rates : r = [status |-> r.status, dispatch |-> r.dispatch, cooldown |-> r.cooldown]
(* A line has one key at most, and none where a dash stands alone; each dash   *)
(* before the key takes two columns or more.                                   *)
ASSUME LinesAreLines ==
  \A line \in SourceLines :
    /\ line.indent \in Nat /\ line.column \in Nat /\ line.dash \in ItemDashes \cup {"none", "alone"}
    /\ line.key = {} \/ \E key \in line.key : line.key = {key}
    /\ line.dash = "none" => line.column = line.indent
    /\ line.dash = "alone" => line.key = {}
    /\ line.dash = "item" => line.column >= line.indent + 2
    /\ line.dash = "items" => line.column >= line.indent + 4
ASSUME DocumentsAreRead ==
  /\ \A value \in Values : IsScalar(value)
  /\ \A doc \in Documents :
       /\ "extensions" \in DOMAIN doc => \A key \in DOMAIN doc.extensions : IsScalar(doc.extensions[key])
       /\ "integrity" \in DOMAIN doc => DOMAIN doc.integrity = {"canonical_hash", "signatures"}

VARIABLES
  duty, left,         \* the caller, and the changes left
  pull, facts,        \* the pull request, and what was true of its heads
  dossier,            \* what was fetched of it
  outcome, episode,   \* the last outcome manifest, and its digest
  shelf, context,     \* the memory, and what was last retrieved from what
  findings, runtime, rate, gate,    \* what is screened, and the last decision
  text,               \* the text read and the verdict
  files, hashed, sealed,   \* place |-> document, the one hashed last, place |-> whose hash was put in
  shadow              \* the last shadow run

followed == <<pull, facts, dossier, outcome, episode>>
recalled == <<shelf, context>>
screened == <<findings, runtime, rate, gate>>
committed == <<files, hashed, sealed, shadow>>
vars == <<duty, left, followed, recalled, screened, text, committed>>

OpenPull ==
  [state |-> "open", merged |-> FALSE, head |-> 1, mergeCommit |-> 0,
   review |-> [outcome |-> "unknown", commit |-> 0], revert |-> 0]
(* A pull request as the service shows it; a list of them leaves out "merged". *)
Shown(listed) ==
  [formed |-> TRUE, state |-> pull.state,
   merged |-> IF listed THEN "unsaid" ELSE IF pull.merged THEN "yes" ELSE "no",
   head |-> pull.head, mergeCommit |-> pull.mergeCommit, mergedAt |-> pull.merged,
   closedAt |-> pull.state = "closed"]

Init ==
  /\ duty \in Duties /\ left = MaxChanges
  /\ pull = OpenPull /\ facts = [closed |-> {}, faulted |-> {}]
  /\ dossier = [pr |-> {}, review |-> NoReview, revert |-> {}, quarantine |-> {}, stale |-> {}]
  /\ outcome = None /\ episode = None
  /\ shelf = <<>> /\ context = None
  /\ findings = {} /\ gate = None
  /\ runtime = [mode |-> "evolve", killed |-> FALSE]
  /\ rate = [status |-> "ready", dispatch |-> "ready", cooldown |-> FALSE]
  /\ text = None
  /\ files = <<>> /\ sealed = <<>> /\ hashed = None /\ shadow = None

Change == left > 0 /\ left' = left - 1 /\ UNCHANGED duty
Keep == UNCHANGED <<duty, left>>

(***************************************************************************)
(* Follow: the pull request lives, its dossier is fetched in pieces        *)
(***************************************************************************)
Live(next) ==
  /\ Change /\ pull' = next
  /\ facts' = [closed |-> facts.closed \cup IF next.state = "closed" /\ ~next.merged THEN {next.head} ELSE {},
               faulted |-> facts.faulted \cup
                 IF next.review.outcome = "changes_requested" THEN {next.review.commit} ELSE {}]
  /\ UNCHANGED <<dossier, outcome, episode, recalled, screened, text, committed>>
Push == pull.state = "open" /\ pull.head < MaxHead /\ Live([pull EXCEPT !.head = @ + 1])
Review(verdict) == ~pull.merged /\ Live([pull EXCEPT !.review = [outcome |-> verdict, commit |-> pull.head]])
Close == pull.state = "open" /\ Live([pull EXCEPT !.state = "closed"])
Reopen == pull.state = "closed" /\ ~pull.merged /\ Live([pull EXCEPT !.state = "open"])
Merge ==
  pull.state = "open" /\ Live([pull EXCEPT !.state = "closed", !.merged = TRUE, !.mergeCommit = MaxHead + 1])
Revert == pull.merged /\ pull.revert = 0 /\ Live([pull EXCEPT !.revert = MaxHead + 2])

Fetched(next) ==
  /\ Keep /\ dossier' = next
  /\ UNCHANGED <<pull, facts, outcome, episode, recalled, screened, text, committed>>
FetchPr(listed) == Fetched([dossier EXCEPT !.pr = {Shown(listed)}])
(* The commit of a review is optional. *)
FetchReview(named) ==
  Fetched([dossier EXCEPT !.review = IF named THEN pull.review ELSE [pull.review EXCEPT !.commit = 0]])
FetchRevert ==
  pull.revert # 0 /\ Fetched([dossier EXCEPT !.revert = {[commit |-> pull.revert, pr |-> {}]}])
Quarantine == Fetched([dossier EXCEPT !.quarantine = {[on |-> TRUE, reasons |-> {"found"}]}])
CallStale == Fetched([dossier EXCEPT !.stale = {[on |-> TRUE, reason |-> "idle"]}])

Input ==
  [source |-> [task |-> TRUE, pr |-> CHOOSE pr \in dossier.pr : TRUE,
               trailers |-> {[key |-> "task", value |-> "task"]}],
   review |-> dossier.review, ci |-> NoCi, revert |-> dossier.revert,
   quarantine |-> dossier.quarantine, stale |-> dossier.stale]
Collect ==
  /\ dossier.pr # {} /\ Keep
  /\ outcome' = CollectMergeOutcome(Input) /\ episode' = None
  /\ UNCHANGED <<pull, facts, dossier, recalled, screened, text, committed>>
(* The type of the episode is the outcome, a merge being an acceptance. *)
EpisodeType(name) == IF name = "merged" THEN "accepted" ELSE name
Digest ==
  /\ outcome # None /\ outcome.status = "ready" /\ OutcomeReadsBack(outcome) /\ episode = None /\ Keep
  /\ episode' = CreateDigest([id |-> outcome.sections.source.pr.head, formed |-> TRUE,
                              type |-> EpisodeType(outcome.outcome), reliability |-> "high",
                              text |-> CHOOSE t \in Texts : t # Blank])
  /\ UNCHANGED <<pull, facts, dossier, outcome, recalled, screened, text, committed>>

(***************************************************************************)
(* Recall                                                                  *)
(***************************************************************************)
Shelve(value) ==
  /\ Len(shelf) < MaxValues /\ value # Refused /\ Keep
  /\ shelf' = Append(shelf, value) /\ context' = None
  /\ UNCHANGED <<followed, screened, text, committed>>
Remember(words) ==
  Shelve(CreateDigest([id |-> Len(shelf) + 1, formed |-> TRUE, type |-> "accepted", reliability |-> "high",
                       text |-> words]))
Note(first, second) ==
  Shelve(CreateUpdate(Len(shelf) + 1, <<[id |-> 2, text |-> first], [id |-> 1, text |-> second]>>, 2, TRUE))
(* What is archived goes into a pack of its own, in any order and whatever is  *)
(* in others; a payload is any value, one with no text of its own too.         *)
Archive(chosen, blank) ==
  /\ chosen # <<>> /\ \A k \in DOMAIN chosen : shelf[chosen[k]].is = "digest"
  /\ LET records == [k \in DOMAIN chosen |-> DigestRecord(shelf[chosen[k]])]
     IN Shelve(CreatePack("episodes", IF blank THEN [records EXCEPT ![1].text = Blank] ELSE records, TRUE))
Recall(query, budget) ==
  /\ shelf # <<>> /\ Keep
  /\ context' = [query |-> query, budget |-> budget, found |-> Retrieve(shelf, query, budget)]
  /\ UNCHANGED <<followed, shelf, screened, text, committed>>

(***************************************************************************)
(* Screen                                                                  *)
(***************************************************************************)
Report(f) ==
  /\ Change /\ findings' = findings \cup {f}
  /\ UNCHANGED <<followed, recalled, runtime, rate, gate, text, committed>>
SetRuntime(r) ==
  /\ Change /\ runtime' = r
  /\ UNCHANGED <<followed, recalled, findings, rate, gate, text, committed>>
SetRate(r) ==
  /\ Change /\ rate' = r
  /\ UNCHANGED <<followed, recalled, findings, runtime, gate, text, committed>>
Screen(enforced) ==
  /\ Keep
  /\ gate' = [findings |-> findings, runtime |-> runtime, rate |-> rate, enforced |-> enforced,
              decided |-> EvaluateGate(Bridge(findings, TRUE), runtime, rate, enforced, "B").decision]
  /\ UNCHANGED <<followed, recalled, findings, runtime, rate, text, committed>>

(***************************************************************************)
(* Read                                                                    *)
(***************************************************************************)
ReadText(lines) ==
  /\ text = None /\ Keep
  /\ text' = [lines |-> lines, duplicate |-> HasDuplicates(lines)]
  /\ UNCHANGED <<followed, recalled, screened, committed>>

(***************************************************************************)
(* Seal and rehearse                                                       *)
(***************************************************************************)
With(docs, place, doc) == [p \in DOMAIN docs \cup {place} |-> IF p = place THEN doc ELSE docs[p]]
Put(place, doc) ==
  /\ Change /\ files' = With(files, place, doc)
  /\ UNCHANGED <<followed, recalled, screened, text, shadow>>
(* A document as the evaluation package reads it: without a mind it refuses it. *)
SuiteOf(doc) ==
  [formed |-> doc.mind_ref # {}, id |-> doc.id.name, name |-> doc.suite_name, graders |-> doc.graders,
   tasks |-> doc.tasks, metrics |-> doc.success_metrics, shadowOnly |-> doc.shadow_only, guards |-> {}]
(* A suite is committed if both of its validators accept it where it lies.     *)
Write(place, doc) ==
  /\ place \notin DOMAIN files /\ Accepts([defects |-> {}, lines |-> <<>>, document |-> doc], place)
  /\ doc.kind = "eval_suite" =>
       place.dirs = SuiteDirectories /\ SuiteIsValid(SuiteOf(doc), {place.stem}, TRUE)
  /\ Put(place, doc) /\ UNCHANGED <<hashed, sealed>>
Edit(place, value) ==
  /\ place \in DOMAIN files /\ Put(place, [files[place] EXCEPT !.extensions = [key \in DOMAIN @ |-> value]])
  /\ UNCHANGED <<hashed, sealed>>
(* The hash the kernel prints for a document is put into the document. *)
Hash(place) ==
  /\ place \in DOMAIN files /\ hashed' = files[place] /\ Keep
  /\ UNCHANGED <<followed, recalled, screened, text, files, sealed, shadow>>
Sectioned(doc) ==
  IF "integrity" \in DOMAIN doc THEN doc
  ELSE [key \in DOMAIN doc \cup {"integrity"} |->
          IF key = "integrity" THEN [canonical_hash |-> {}, signatures |-> {}] ELSE doc[key]]
Seal(place) ==
  /\ place \in DOMAIN files /\ hashed # None
  /\ Put(place, [Sectioned(files[place]) EXCEPT !.integrity.canonical_hash = {Canonical(hashed)}])
  /\ sealed' = With(sealed, place, hashed) /\ UNCHANGED hashed
Sign(place) ==
  /\ place \in DOMAIN files /\ "integrity" \in DOMAIN files[place]
  /\ Put(place, [files[place] EXCEPT !.integrity.signatures = {{"signer"} \cup UNION @}])
  /\ UNCHANGED <<hashed, sealed>>
Rehearse(suite, baseline, candidate, allows) ==
  /\ Keep
  /\ shadow' = [suite |-> suite, baseline |-> baseline,
                status |-> RunShadow(suite, baseline, candidate, allows, {s \in DOMAIN RolePrefix : RolePrefix[s] # s})]
  /\ UNCHANGED <<followed, recalled, screened, text, files, hashed, sealed>>

Follow ==
  \/ Push \/ Close \/ Reopen \/ Merge \/ Revert
  \/ \E verdict \in {"approved", "changes_requested"} : Review(verdict)
  \/ \E listed \in BOOLEAN : FetchPr(listed)
  \/ \E named \in BOOLEAN : FetchReview(named)
  \/ FetchRevert \/ Quarantine \/ CallStale \/ Collect \/ Digest
Remembering ==
  \/ \E words \in Texts : Remember(words)
  \/ \E first, second \in Texts : Note(first, second)
  \/ \E n \in DOMAIN shelf, blank \in BOOLEAN :
       \E chosen \in [1..n -> DOMAIN shelf] : Archive(chosen, blank)
  \/ \E query \in Queries, budget \in Budgets : Recall(query, budget)
Screening ==
  \/ \E f \in Findings : Report(f)
  \/ \E r \in GateRuntimes : SetRuntime(r)
  \/ \E r \in Rates : SetRate(r)
  \/ \E enforced \in BOOLEAN : Screen(enforced)
Reading == text = None /\ \E n \in 0..MaxLines : \E lines \in [1..n -> SourceLines] : ReadText(lines)
Committing == \E place \in Places, doc \in Documents : Write(place, doc)
Sealing ==
  \E place \in Places : \/ \E value \in Values : Edit(place, value)
                       \/ Hash(place) \/ Seal(place) \/ Sign(place)
Rehearsing ==
  \E suite, baseline, candidate \in Refs, allows \in SUBSET {"write_scores"} :
     Rehearse(suite, baseline, candidate, allows)

Next ==
  \/ duty = "follow" /\ Follow
  \/ duty = "recall" /\ Remembering
  \/ duty = "screen" /\ Screening
  \/ duty = "read" /\ Reading
  \/ duty = "seal" /\ (Committing \/ Sealing)
  \/ duty = "rehearse" /\ (Committing \/ Rehearsing)

Spec == Init /\ [][Next]_vars

(***************************************************************************)
(* Properties                                                              *)
(***************************************************************************)
(* An outcome is a fact of the pull request, however late and in whatever      *)
(* order its pieces were fetched: a head that is called rejected was closed    *)
(* without a merge and had changes requested of that very head, what is called *)
(* merged or reverted was; and an episode is never called better than that.    *)
OutcomeIsFactual ==
  outcome # None =>
    LET head == outcome.sections.source.pr.head IN
    /\ outcome.outcome = "rejected" => head \in facts.closed \cap facts.faulted
    /\ outcome.outcome = "merged" => pull.merged
    /\ outcome.outcome = "reverted" => pull.merged /\ pull.revert # 0
    /\ episode \notin {None, Refused} /\ episode.type = "accepted" => pull.merged

(* Nothing that fits is left out of a context: what is not in it costs more    *)
(* than is left of the budget, less relevant or not; and a retrieval is refused*)
(* only if a record lies in two packs, or a payload has nothing to show.       *)
NothingThatFitsIsLeftOut ==
  context # None =>
    LET candidates == ToSet(AllCandidates(shelf))
        packed(i) == {shelf[i].records[k].id : k \in DOMAIN shelf[i].records}
        packs == {i \in DOMAIN shelf : shelf[i].is = "pack"}
    IN IF context.found = Refused
       THEN \/ \E i, j \in packs : i # j /\ packed(i) \cap packed(j) # {}
            \/ \E item \in candidates : item.text = Blank
       ELSE \A item \in candidates \ ToSet(context.found.items) : Cost[item.text] > context.found.remaining

(* A gate never softens: as long as findings only came on top, the runtime is  *)
(* the same or was killed, the rate is the same or cools down, the decision of *)
(* the next evaluation is as strict as the last one.                           *)
Hardened(m, n) ==
  /\ m.findings # {} /\ m.findings \subseteq n.findings /\ (m.enforced => n.enforced)
  /\ n.runtime.mode = m.runtime.mode /\ (m.runtime.killed => n.runtime.killed)
  /\ n.rate \in {m.rate, [m.rate EXCEPT !.cooldown = TRUE]}
Strictness == [pass |-> 0, hold |-> 1, block |-> 2, quarantine |-> 3, invalid |-> 4]
GateNeverSoftens ==
  [][gate # None /\ Hardened(gate, gate') => Strictness[gate'.decided] >= Strictness[gate.decided]]_gate

(* docs/specs/forge-v1.md: no duplicate keys, at any level.  Two equal keys of *)
(* one mapping do not pass the scanner of lines: keys in one column, with      *)
(* nothing to the left of it in between and no item begun.  The exception is a *)
(* first key that stands behind more than one space after its dash or behind a *)
(* second dash: the scanner puts it elsewhere, and its duplicate passes.  And  *)
(* the scanner refuses no other text than those with such a key or a dash      *)
(* alone on its line, which it does not take for an item.  A line of a block   *)
(* scalar is a line like the others here, as it is to the scanner.             *)
Parts(line, column) ==
  CASE line.dash \in ItemDashes -> line.indent + 2 <= column
    [] line.dash = "alone" -> line.indent < column
    [] line.dash = "none" -> line.key # {} /\ line.indent < column
ShareMapping(lines, i, j) ==
  /\ i < j /\ lines[i].key # {} /\ lines[i].key = lines[j].key
  /\ lines[i].column = lines[j].column /\ lines[j].dash = "none"
  /\ \A k \in i + 1..j - 1 : ~Parts(lines[k], lines[j].column)
IsPlaced(line) == line.dash = "none" \/ (line.dash = "item" /\ line.column = line.indent + 2)
DuplicatesAreFound ==
  text # None =>
    LET lines == text.lines
    IN /\ \A i, j \in DOMAIN lines : ShareMapping(lines, i, j) /\ IsPlaced(lines[i]) => text.duplicate
       /\ text.duplicate =>
            \/ \E i, j \in DOMAIN lines : ShareMapping(lines, i, j)
            \/ \E k \in DOMAIN lines : ~IsPlaced(lines[k])

(* A seal tells whether a document is still what was hashed, to the type of    *)
(* each value: signing it and composing its texts leave it valid, any other    *)
(* change, that there is a section or a list for the seal too, does not.       *)
Content(doc) ==
  [key \in DOMAIN doc |->
     CASE key = "integrity" ->
            [canonical_hash |-> doc.integrity.canonical_hash # {}, signatures |-> doc.integrity.signatures # {}]
       [] key = "extensions" -> [k \in DOMAIN doc.extensions |->
                                   [doc.extensions[k] EXCEPT !.text = Nfc[@]]]
       [] OTHER -> doc[key]]
SealsTellTheTruth ==
  \A place \in DOMAIN sealed :
    (VerifyIntegrity(files[place]) = "valid" <=> Content(files[place]) = Content(sealed[place]))

(* Where a shadow run is ready, whatever the kernel accepted at the paths it   *)
(* refers to is a suite and a result, of the names it gives them, and the      *)
(* graders of the suite's tasks are in the suite.                              *)
ShadowRunsNameWhatTheKernelReads ==
  shadow # None /\ shadow.status = "ready" =>
    \A place \in DOMAIN files :
      /\ place = [dirs |-> shadow.suite.dirs, stem |-> shadow.suite.stem] =>
           /\ files[place].kind = "eval_suite" /\ files[place].suite_name = shadow.suite.name
           /\ \A i \in DOMAIN files[place].tasks :
                \A grader \in files[place].tasks[i].graders :
                  \E k \in DOMAIN files[place].graders : files[place].graders[k].id = grader
      /\ place = [dirs |-> shadow.baseline.dirs, stem |-> shadow.baseline.stem] =>
           files[place].kind = "eval_result" /\ files[place].result_name = shadow.baseline.name
=============================================================================
