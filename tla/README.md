# ForgeRoot in TLA+

A verification project for ForgeRoot: TLA+ modules translated from the sources, TLC runs that check them on
small instances, and TLAPS proofs of what holds for every value of their constants. `PROJECT.json` maps every
definition to the lines it stands for and lists components, runs, mutants, hazards, findings and theorems.

Paths below are relative to `src/`. The sources are `packages/*/src`, `apps/github-app/src` and
`crates/forge-kernel/src`; files at the root of the repository and in root-level package directories are copies
of these, and `dist/` is compiled from them.

## 1. The system

ForgeRoot turns GitHub issues into pull requests through a chain of small agents. Only the GitHub App keeps
mutable state, in SQLite. Every package is a set of synchronous functions from manifests to manifests: what
they need to remember is in a manifest their caller stores and passes to the next call. The repository holds
neither the caller that strings them together in production nor the worker that talks to GitHub.

| component | state | operations | interacts with |
|---|---|---|---|
| Runtime mode controller, `apps/github-app/src/runtime-mode.ts` | one row (mode, kill switch, lane, acknowledgement, cooldown), audit events, rate-limit signals | setMode, restoreMode, activateKillSwitch, enterQuarantine, recordRateLimitSignal, authorizeOperation, constructor | kill route of the server; every gate of the chain below |
| Event inbox, `event-inbox.ts` | one row per delivery id | enqueue, claimNextForProcessing, markProcessed, markFailed, handoff to a downstream | the server hands deliveries to it; workers claim |
| Webhook server and classification, `server.ts`, `webhooks.ts` | bodies being read, callbacks due, the memory handoff's queue | routing, body reading, classification, answers, handoff, kill route | inbox or memory handoff; controller |
| GitHub pull request adapter, `packages/github-pr-adapter` | none: a request manifest | prepareGitHubPullRequest | takes a composition and the gates of the moment; feeds the checkpoint |
| Approval checkpoint, `packages/approval-checkpoint` | none: an authorization manifest | runApprovalCheckpoint | takes a request and approvals; feeds the governor |
| Rate governor, `packages/rate-governor` | none: a dispatch and the rate state the caller keeps | runRateGovernor, deriveRateGovernorCooldown | takes an authorization; feeds the transport worker |
| Planner, executor, auditor, PR composer | none: plan, worktree plan, sandbox request, audit result, composition | intake classification, runPlanner, createBranchWorktreePlan, createSandboxExecutionRequest, runAuditor, composePullRequest, each with a validator | each takes manifests of all the stages before it; feeds the adapter |
| Security gates, `auditor/src/security-gates.ts` (only in the copy of the auditor at the root) | none: a decision manifest | SARIF bridge, evaluateSecurityGate | takes findings, runtime and rate; nothing reads its decision |
| Mutation chain, `packages/mutate` | none: proposal, routing, guard decision, PR plan, transport request, readiness ledger, receipts, execution plan, artifact receipt, gates, handoff, bundle | three mutators (prompt patch, tool routing, speciation); one builder and one validator per manifest | a chain of dry-run manifests; the agents' documents change when its pull requests are merged |
| Network, `packages/network`, and reporting | none: lineage pack, boundary decision, gossip plan, cross-repository composition, report | one builder and one validator per manifest | take registry, treaties, reputation and runtime; feed the demonstration chain |
| Evaluation, `packages/eval` | none: reputation, arena result, outcome, suite, shadow run | evaluatePeerReputation, compareArenaCandidates, collectMergeOutcome, validateEvalSuite, runEvalShadowRun | reputation feeds the boundary and the gossip plan, outcomes feed memory |
| Memory, `packages/memory` | what the caller keeps: digests, working items, packs | digest, pack, retrieve | read by whoever builds a context |
| Demo chains, `packages/forge-demo` | none | runEndToEndForgedPrDemo takes an issue through the chain up to the dispatch in one call; the distributed evolution chain | all of the above |
| Forge kernel, `crates/forge-kernel` | none | parse, validate, canonicalise and hash `.forge` files | command line |

What is hard, component by component, and what makes each correct:

* **Runtime mode.** Several processes open one database file. Inside a process a call is synchronous, but every
  SQL statement of it can interleave with another process's, and the row a transition is decided on is read
  before its transaction. A process may die between any two statements. Correct when nothing but a call for it moves
  a stop, a latched stop runs again only with an acknowledgement or after a call for a stop mode, the lane column and the authorization matrix agree, the kill switch is a hard stop,
  and the audit trail tells what happened.
* **Inbox.** GitHub delivers an id again, at any time, to any server, perhaps with another body. `enqueue` looks
  up and writes with two statements. Workers claim, fail, retry and die; leases end. Correct when a delivery goes
  downstream once with the body stored, is worked on by one worker at a time, and eventually settles.
* **Server.** Bodies come in chunks, interleaved with those of other requests; the answer is sent before the
  handoff runs in a callback of its own; the queue is bounded; clients leave and the process dies. Correct when
  answers that reach a client follow the validation report, only accepted deliveries are handed on, once, and a kill request that is
  told 200 has engaged the switch.
* **Rate governor.** Lanes expire on their own, GitHub's answers reach the governor one call late, entries of
  dead workers linger, windows run out. Correct when one entry holds the lane, writes keep their distance,
  `retry-after` is honoured and nobody waits for ever.
* **Adapter, checkpoint, governor as a chain.** Each decides on gates that may be as old as the manifest they are
  stored in, while the runtime, the rate limit and the approvals change. Correct when what is queued has the
  approval records its class asks for and is in scope, a stop lets through no more than what was authorized before
  it, and what is ready gets through.
* **Forging chain.** A task planned again keeps its id, and worktree plan, sandbox request and audit name each other
  by ids, not digests: manifests of plans with other classes and scopes can be mixed. Four matchers decide on
  paths. Correct when elevated work passes an audit only if its run was approved, no governance file is composed,
  and what is composed is in the scope it states.
* **Mutation chain.** Reviews and approvals outlive what they were given for; checks are found by names that may be
  used twice; routes are renamed, removed and added again. Correct when a request was unanimously approved by
  independent reviewers, wider permissions are flagged, approvals never weaken, and what is bundled was checked
  and approved as it is.
* **Federation.** Registry, treaties, runtime and history change between the calls; thresholds are written down
  twice; plans are made again before the last one was carried out. Correct when the gates agree, syncs keep their
  distance, a worse history never looks better, refusals are shown, and nobody who is first waits for ever.
* **Records.** The world moves on between the reads a record is made of; two validators in two languages accept the
  same documents; seals survive writing and signing and nothing else. Correct when an outcome is factual, no
  context leaves out what fits, a gate never softens, duplicates are found, seals tell the truth and a shadow run
  names what the kernel reads.

The hazards these lead to are listed in `PROJECT.json`, each at its line, with the property that would catch it
or the reason none does.

## 2. Modules

| module | models |
|---|---|
| `RuntimePolicy` | modes, operations and the authorization matrix |
| `RuntimeMode` | the controller and its store, statement by statement, for several processes |
| `StopLatch` | what the controller promises an operator: which calls move a stop and open the lane, and the gap in the latch |
| `EventInbox` | the inbox, its servers, workers and an operator's sweep |
| `DeliveryLedger` | what the inbox promises per delivery |
| `WebhookServer` | the event loop of the HTTP server, classification, memory handoff, kill route |
| `RateGovernor` | the governor for one repository, its caller and the worker around it |
| `TransportChain` | adapter, checkpoint and governor around the controller's row (`INSTANCE RuntimeMode` for its operators) |
| `IntakePlanning` | intake classification, task candidates and Plan Specs, as operators |
| `ForgingChain` | planner, worktree, sandbox, auditor and composer in the hands of a caller |
| `ForgedPrDemo` | one call of the forged-PR demo, from an issue to a dispatch, beside that caller |
| `AgentMutations` | the three mutators on agents' documents: prompt patch, tool routing, speciation |
| `MutationManifests` | what the two halves of the mutation chain share |
| `MutationReview` | from a proposal over routing, reviews, guard and generator to the transport request and the merge |
| `MutationTransport` | from the transport request over checks, receipts, plan and gates to the completion bundle |
| `PeerReputation`, `NetworkBoundary`, `LineageExchange`, `EvolutionChain` | reputation; boundary and gossip; lineage packs, cross-repository requests, arena and report flags; the demonstration chain |
| `Federation` | these packages in the hands of a caller, with partners, time and changes of the world |
| `EvaluationRecords`, `MemoryRecords`, `SecurityGate`, `ForgeDocuments` | outcomes, suites and shadow runs; digests, packs and retrieval; the SARIF bridge and the gate; the kernel's scan, scalars, hashes and places |
| `RepositoryRecords` | these in the hands of callers, one per *duty* |
| `MC...` | constants and symmetry sets of the runs |
| `..._proofs` | the theorems; one module may hold those of several components (section 4) |

`ForgingChain`, `AgentMutations` and their like separate what the code computes (operators, translated function by
function) from the caller that holds manifests and calls again (the module with variables). A digest is the thing
it was taken of, an id that is not a digest is what it is made of, a text is the set of phrases, paths or keys the
code tells apart. What the code computes by a loop is a fold or a recursive function, never a RECURSIVE operator, so
that proofs can unfold it.

How state and actions correspond to the code:

* **RuntimeMode.** `state`, `events` and `signals` are the three tables. `call[p]` is the program counter of the
  call process `p` is in: `SetMode`, `RestoreMode`, `ActivateKillSwitch`, `EnterQuarantine` start a transition
  (`called`), `ReadCurrent` is `getSnapshot` before the transaction (`read`), `CommitTransition` the transaction.
  `RateLimited`, `InsertSignal`, `CountSignals`, `DecideDowngrade` are the statements of `recordRateLimitSignal`.
  `setMode`'s own read and check happen in `SetMode`, so its second read in `writeTransition` can differ.
  `Crash` kills a process anywhere; `Start` is the constructor with its `INSERT OR IGNORE`. `StopLatch` sees a
  call in progress as what it asks for (`Demanded`); its `Park` takes the latch off, as `setMode` to a stop mode
  does, and is a promise the operations guide does not make (section 6).
* **EventInbox.** `LookUp` is the SELECT of `enqueue`; `InsertRow`, `InsertRefused`, `CountDuplicate` and
  `RecordConflict` are its outcomes; `Forward` and `ForwardRejected` the downstream call. A claim and a mark are
  one transaction each. Times in a row are kept as the ticks left. `Sweep` is not code of the repository: it is
  an operator calling `markFailed`, the only operation that gets a dead worker's row out of `processing`.
  `Sweeping` says whom this operator reopens claims of: nobody, workers that are gone ("orphans"), or whoever's
  lease ran out ("expired").
* **WebhookServer.** `task` is the promise callback due before the next event of the loop: `resolve` and `fail`
  of `readRawBody`, `enqueue` of the handoff. A request is what the checks of `routeRequest` and
  `classifyGitHubWebhookDelivery` tell apart, its body a number of chunks. `answer` is what a client gets: a request
  whose body is too large is destroyed before its 413 is written, so its client gets `Closed`. `handed`, `taken`, `reported` and
  `lost` record history for the properties; the queue dies with the process. Its `Server...` names keep it apart
  from `EventInbox`, with which it shares a module of proofs.
* **RateGovernor.** `lane`, `used`, `window`, `cooldown` are the rate state the caller stores from each dispatch;
  `entries` what the worker holds; `observed` the response the next call is passed. All times are ticks left, so
  no clock bounds a run.
* **TransportChain.** `request` and `authorization` hold the manifests between the calls with the gates stored in
  them; `FreshAtCheckpoint` and `FreshAtGovernor` say whether the caller passes the present `runtime` to a stage
  or lets it fall back to the stored gate, change by change. A list of approval records is its records and its
  length, so that one that is in it twice, or is passed as `humanApproval` besides, counts twice as in the code.
  `standing` records for the property which changes were authorized when the controller began to refuse. The
  checks on the shape of a composition are the set `Sound`.
* **MutationTransport.** A manifest is what its digest covers: a ledger is a request and a report of checks, an
  approval a ledger and its receipts, a plan an approval and a request; a reference by id and digest is the
  manifest itself. Two reports of an instance must therefore differ in content. The variables are the manifests a
  caller keeps from call to call. A result with status `invalid` is thrown away, a blocked ledger or approval is
  kept as `Blocked`, and a blocked manifest after them makes the caller try again later. Behind the execution
  plan each manifest only repeats its predecessor's verdict, so `tail` keeps the furthest one and `Advance` is
  the call; the rollout checklist adds gates of its own. Of the seven derived checks on a request five cannot
  fail once the request has passed its validation (`ShapeChecks`). `Replan` stands for `MutationReview`.
* **ForgingChain.** The variables are the last manifest of each kind. `PlanIntake` plans an issue, `PlanTask` a
  candidate a caller made itself. A pattern is one of four kinds (a directory, a file, an extension here or
  anywhere) and the matchers of planner, worktree, sandbox and auditor are four operators. `Observe` is a run in
  the sandbox, of which the sources only have the form of its output. `approved` in a report and `audit` in a
  composition are history for the properties.
* **ForgedPrDemo.** One call is one step, because it shares no manifest with anybody: each stage says what it says of
  manifests made for it, with the defaults of what the caller left out, and the answer is that of the first stage
  that does not let it pass (`Answer`). A gate is given with two spellings of each field, and each stage reads the
  one its code reads: the adapter and the governor the camel-case one, the checkpoint the snake-case one. The
  input `plannerInput` is left out.
* **MutationReview.** `agents` holds the documents in the repository. A proposal carries the documents it was computed
  from, which is what its digest covers; a routing carries its proposal, a review its routing. `Merge` is the
  service and the people: it applies the proposal if the documents are still those of the dry run. `transport` is
  the request that `MutationTransport` starts from.
* **Federation.** `duty` chosen in `Init` says which calls this caller makes, so that four small state spaces are
  explored in one run instead of their product. `Plan` is `scheduleGossipSync`, `Sync` and `Drop` are the
  transport that serves a plan; times are ticks left or elapsed. A score is a sum over the outcomes of a peer of what
  each counts for (`OutcomeDelta`, `EventDelta`).
* **RepositoryRecords.** `duty` again: *follow* fetches a pull request and its review apart, collects the outcome and
  digests it; *recall* keeps digests, facts and packs and retrieves within a budget, where what is sorted has its
  place from the number of those ahead of it; *screen* asks the gate again after each finding; *read* gives the
  kernel a text; *seal* edits, hashes, seals, signs and writes documents; *rehearse* runs suites. A line of a text has the indent and dashes the scanner sees and the column of
  its key, which is the parser's business: behind `-   ` or `- - ` the two differ. A line of a block scalar is a line like
  the others, as it is to the scanner. The scanner's frames are a function of the indentation, which determines their order on its stack; `files` and `sealed` have the
  places that are written and sealed for their domains.

## 3. Runs

| run | instance | distinct states | question |
|---|---|---|---|
| `runtime_one` | 1 process, 3 target modes, 1 repository, 1 cooldown, 2 signals, 3 audit rows | 1.4 M | does one process keep the stop latch, the chain of audit rows and the downgrade rules through any calls, crashes and restarts? |
| `runtime_many` | 2 processes, 2 target modes, 2 signals, 2 audit rows | 0.15 M | what survives stale reads: lane and matrix agree, kill switch is hard (that the newest audit row tells the row survives too, and is proved instead) |
| `runtime_kill` | 2 processes | to the first violation | a sentence of the operations guide the code does not keep (section 6) |
| `inbox` | 2 servers, 2 workers, 2 deliveries, 2 bodies, one server and one worker that die, an operator who reopens orphans | 95 k | races, redeliveries, conflicts and crashes against the ledger, and does every delivery settle? |
| `webhook_server` | 2 requests out of all those differing from a good one in at most two respects, kill requests, other routes | 0.23 M | answers, handoff, kill route |
| `governor` | 3 authorizations, 2 budgets, 2-step backoff | 11 k | lane, spacing, retry-after, progress |
| `chain` | a class A change whose caller passes the runtime to the checkpoint alone, a class C change whose caller passes it to the governor alone; lists of at most 2 collected records, contradicting or twice the same | 0.12 M | approvals and scope of what is queued; what does a stop let through? does a ready change get through? |
| `forging_chain` | 5 issues and 3 candidates of one task, 2 plans, 2 outputs out of 4; 274 inputs of the demo, each differing in one respect from the default or from an approved class B bug | 63 k | mixed manifests: approval of elevated runs, governance files, scope; is a demo that answers ready cleared by people, scope and every gate? |
| `mutation_review` | 1 agent, 8 requests to the mutators, 4 reviewers with 3 independence keys, 3 policies of which 1 is valid, 2 merges | 78 k | unanimity of independent reviewers, flagged expansions, approvals over merges |
| `mutation_transport` | 2 requests, 4 reports of checks, 5 receipts of 3 people of whom 2 must approve | 0.21 M | is what reaches the bundle checked and approved as it is, and do good checks make a ready ledger? |
| `federation` | 3 repositories, 3 treaties, 2 changes of the world, the code's weights, windows of 2 ticks | 0.14 M | do boundary and gossip agree, are syncs spaced and is who is first served, what does a worse history look like, are refusals shown? |
| `records` | 2 pushes, 5 changes, 3 memory values of 4 texts, 5 findings, texts of 4 lines, documents of the kinds a shadow run is about | 0.50 M | outcomes, contexts, gate, duplicates (nested dashes and distant keys included), seals, shadow runs |

Why the bounds are enough. Two processes are what a stale read needs, and the operators compare one read with one
write; two servers let one insert and one lose the race and see a duplicate. Two signals are the threshold, and a
window of one tick with two more ticks lets signals fall in, on the edge of and out of it; three audit rows let a
stop be entered, left and entered again. Two deliveries order the claim query, and two bodies make a conflict. Two
requests interleave chunks and fill a queue of one. Three authorizations let one hold the lane, one wait and one
overtake; budgets of one and two requests per window run out separately. Two plans of a task are what mixing
needs; the candidates differ in class, risk and scope, and the outputs in what the matchers disagree on. Two merges
let a route be given away and taken back. Two transport requests let an approval outlive the one it was given for,
two receipts are what the policy of two people needs, and the reports have one optional failing check, one list
where all count, one with a required check missing and one that reuses a derived check's name. Two partners of the
local repository compete for one slot, with one link between themselves that the local one has no part in. A push
between the two reads of a dossier is what makes it inconsistent; four lines hold an item, a nested key and the
duplicate after them; five findings cross every threshold of the default policy. The values that the cfg files bound (`MaxNow`, `MaxEvents`, `MaxSignals`, `MaxCount`,
`MaxQueued` and `MaxRecords` of the chain, `MaxRequests`, `MaxReceipts`, `MaxPlans`,
`MaxOutputs`, `MaxReviews`, `MaxMerged`, `MaxChanges`, `MaxHead`, `MaxValues`, `MaxLines`) appear in guards under these names; counters of `EventInbox` stop at `MaxCount` instead of blocking. `MaxQueued` of the server is the
code's own parameter.

Each property has a mutant: a definition of the module changed as a slip in the code would (an exclusive
threshold, a reset on restart, a stored gate preferred to the present one, the newest delivery dropped), with
which its run must fail. Deadlock is checked except in `forging_chain`, `mutation_review` and `records`, whose callers
may be done.

### Fairness

* `EventInbox`: workers keep polling and finish what they claimed unless they die first, and time passes. Nothing
  asks GitHub to deliver, nor the operator to sweep. `EveryDeliverySettles` is stated for runs in which retryable
  failures stop and no claim of a dead worker is left alone for ever.
* `WebhookServer`: due callbacks run, as the event loop guarantees, and a client that stays sends its chunks and
  its end. A client may leave and the process may die: the properties say so in their right-hand sides.
* `RateGovernor`: the caller asks again when `execute_after` has come, the worker takes entries, time passes.
  GitHub may limit and workers may die as long as they stop some day (`Calm`).
* `TransportChain`: the caller calls a stage whenever the stage would let the change through. Operators, people
  and the rate limit owe nothing.
* `MutationTransport`: the caller calls every stage again until its manifest is up to date, and gates that pass are
  reported some time. Nobody owes a request, a report of checks or a receipt: `GoodChecksAreReady` starts from
  checks that last.
* `Federation`: time passes, the caller plans when a plan is due and serves what is due. `FirstInLineSyncs` is stated
  for a partner that stays allowed and first.
* `ForgingChain`, `MutationReview`, `RepositoryRecords`: none; only safety is stated.

## 4. Proofs

All theorems hold for every value of the constants that satisfies the modules' `ASSUME`s: any number of
processes, servers, workers, requests, authorizations, changes and people, any delays, caps and limits.

* **`RuntimeMode_proofs`**: for any number of processes, type correctness, `LaneAgrees`, `KillSwitchStops`,
  `AuditDescribesState`, `ChangesAudited`. `IInv` is type correctness, that a running process has a row, and
  the *shape* of rows and of requests in flight: a request that engages the kill switch asks for `halted` and an
  acknowledgement, and the lane is what `LaneOpen` says. A stale read cannot break it because a transition takes
  none of these from the row it read. For one process, the audit chain, `LatchedStops`, `DowngradesLower`,
  `RepeatedSignalsClose`, and that the controller implements `StopLatch`: what moves the row is always the commit of
  a call whose demand (`Demanded`) allows the move. `SingleInv` adds that what the call in
  progress has read is still the row, which is exactly what a second process destroys.
* **`GitHubApp_proofs`**, the two halves of the app. The inbox: type correctness, `LocksMeanProcessing` and
  `HandedOnOnce` with any sweeps; `ClaimsAreExclusive` and that the inbox implements `DeliveryLedger` as long as no
  claim that is still processed is reopened (`Sweeping # "expired"`). The invariants tie the row's lock to the
  worker's hold, and a server that forwards to a row that exists and was not passed on. The server:
  type correctness with its bounds; `OnlyAcceptedAreHandedOn`, by an invariant that follows a request from waiting
  for its body, over a callback, to a good delivery handed on once; `KillAnswersAreTrue`; `AnswersAreReported`, for
  which `AInv` says that a body being read is that of its request and that nothing is due for a request that has
  not arrived.
* **`RateGovernor_proofs`**: type correctness and, each under `ASSUME ~Resubmitting`, `OneEntryHolds`,
  `WritesSpaced`, `RetryAfterHonoured`: the caller does not ask again for an authorization whose entry is
  outstanding, which line 237 of `run.ts` would admit (section 6). The invariant says that an entry's lock outlasts its wait, that the lane
  carries it, and that what GitHub asked for is covered by the stored cooldown, the observation or the wait.
* **`TransportChain_proofs`**: type correctness; `QueuedIsApproved`, for lists with any records in them twice;
  `StopsAreKept`, for callers that pass the runtime to the checkpoint, to the governor or to both. Its invariant says
  that while the controller refuses, a change whose caller passes the runtime to the checkpoint holds an
  authorization only if it held one when the refusal began, and that such a change is `standing`.
* **`ForgingChain_proofs`**, for any issues, candidates, scopes, commands and outputs: `ElevatedAreApproved`,
  `GovernanceIsKept`, `ComposedStaysInScope`. `IInv` follows a manifest from stage to stage: elevated work carries
  the demand for a person from the plan into the worktree plan and, as an approval, into the sandbox request; the
  governance patterns are in every immutable scope; a passed report has the class, risk and scope of both its plan
  and its request. No part of it relates manifests that are held at the same time, which is why plans made again
  cannot break it. A lemma shows that on directories the auditor's matcher and the harness's agree.
  `DemosAreCleared` is the same question asked of the demo's one call, for any input: which stage rules out what,
  one lemma each, although no stage sees both spellings of a gate. `DemoLeavesTheChainAlone` carries the theorems on
  the chain over to the demo's specification.
* **`MutationChain_proofs`**, the two halves of the mutation chain. Up to the request: `AlwaysUnanimous`, from
  `ReviewInv` (every reviewer of a routing is eligible, any two are independent, and a guard that accepts fits its
  reviews); `ExpansionsFlagged` and `ApprovalsKept`, for patches of any length, by induction over their operations
  (what holds of a document after the first n of them holds after the next). From the request on: type correctness
  and `BundledWasApproved`. `TransportInv` says that every manifest the caller holds was ready when it was made and
  carries what made it so; two lemmas turn the code's way of counting (checks found by name, approvers without
  their `@`) into what `WellChecked` and `AgreedOn` ask for.
* **`Federation_proofs`**: `GatesAlwaysAgree`, because a score below the boundary's limit comes with an action the
  plan heeds, whoever computed it; `SyncsAlwaysSpaced`, whose invariant says that what is left until a scheduled sync
  and what passed since the last one make up an interval; `RefusalsAreAlwaysShown`; `WorseNeverLooksBetter`. The last
  one is about sums over finite sets: they are built up element by element (`SumsExist`, `SumsAgree`), the
  order does not matter (`SumTakesAny`), so more elements that count for nothing or less make a sum fall (`SumFalls`).
* **`RepositoryRecords_proofs`**: `OutcomesAreFacts` (`FollowInv`: what a dossier holds was true some time, and
  closing and fault are on record for good); `GatesOnlyHarden` (more findings have a stricter strictest action);
  `SealsAlwaysTell` (`FilesInv`: a document lies where its kind belongs, and what was sealed is what was hashed);
  `ShadowRunsAreOfWhatIsRead`; `DuplicatesAreAlwaysFound`, by induction over the lines of a text (`ScannerKnows`: the
  keys of the open frames are, but for keys behind several spaces or a second dash, the keys that a next line could
  share a mapping with);
  `ContextsLeaveNothingOut`, for shelves, packs and budgets of any size. `RecallInv` says that what is kept was made
  by the package's functions, each value under an id of its own, so that two candidates have one name only if they
  are records of two packs (`NamesTell`). Candidates with different names are in a strict total order, in which the
  number of those ahead is a place that one candidate has (`PlacesAreTaken`); what is selected of the first n is of
  them, in their order, and what was passed over costs more than was left (`SelectionIs`).

Theorems of `TypeOK`, `ServerTypeOK`, `EveryChangeIsAudited`, `LastEventDescribesState`, `LatchedStopNeedsAck`,
`DowngradeOnlyLowers` and `LockedExactlyWhileProcessing`, and `DemoLeavesTheChainAlone`, are about definitions no run
lists: they are proved for every instance, follow from or underlie the ones the runs check, and TLC agreed before
they were proved.

Induction over data: the library's induction theorems take an operator, which no prover here can instantiate. Where
data is indexed by numbers (the operations of a patch, the lines of a text, the size of a set) the proofs take
the least counterexample instead: `LeastOf` gives it, and the step of the induction refutes it. That a function
defined by recursion up to a number exists, which unfolding its definition needs, is proved in the same way
(`RecursionExists`).

Only model-checked: every liveness property (`EveryDeliverySettles`, `EveryAuthorizationIsWritten`,
`ReadyChangesAreQueued`, `AcceptedAreHandedOn`, `GoodChecksAreReady`, `FirstInLineSyncs`), because fairness and
ENABLED are out of the prover's reach. The property `runtime_kill` checks is refuted. Every safety property of a
passing run is a theorem.

## 5. What the models assume

* SQLite: a statement or an immediate transaction is atomic and durable; `busy_timeout` never runs out.
* The caller of the governor stores a dispatch at once, forgets a window when it ends, and its worker sends an
  entry or gives it up before the entry's lock ends.
* The caller of the chain makes each controller call at once (its statements are `RuntimeMode`'s business), and
  drops the records of a change when one of them makes the approval fail. People give records as often as they
  like, and the caller may pass one of the list as the single one too.
* The rate limit is open or closed in the chain; lanes, budgets and cooldowns are `RateGovernor`'s. The chain's
  governor leaves out its timing for the same reason.
* Whoever merges a mutation's pull request merges it only if the documents are still those of the dry run: a
  conflict in the service's words.
* The callers in `Federation` and `RepositoryRecords` are models: the packages persist nothing, and the sources hold
  no program that calls them again. What they do between calls is any change of the world in the bounds.
* The caller of the mutation chain starts no second execution plan for what is already on its way, and gives up
  receipts that will not do.
* In the `webhook_server` run the kill route is configured. `startFromEnvironment` configures neither a
  controller nor a token, so that server answers 404 there.

## 6. Where code and documents disagree

A run with a counterexample:

* `runtime_kill`: `docs/ops/runtime-mode.md:45` says restore is not automatic; a rate-limit downgrade decided on an
  earlier read writes `killSwitchEngaged: false` over a kill switch another process engaged (`runtime-mode.ts:318`).

Shown by earlier runs, or by the ones above with a constant changed:

* `docs/ops/runtime-mode.md:60` says a restore from a stop without `human_ack=true` is rejected; a stop entered
  through `setMode` carries no acknowledgement flag (`runtime-mode.ts:294`) and is left without. `StopLatch` calls
  such a stop *parked*. And a `setMode` to `halted` or `quarantine`, which needs no acknowledgement, takes flag and
  kill switch off a latched stop (lines 292-294), which the next call then leaves without one: `StopLatch` allows it
  (`Park` has no guard, and `ImplementsStopLatch` fails if it is given one).
* `packages/rate-governor/README.md:51`, "one repository has at most one mutating lane": asked again for an
  authorization whose entry is outstanding, the governor queues a second one with a second lock (`run.ts:237`;
  `OneEntryHoldsTheLane` fails with `Resubmitting = TRUE`).
* `docs/specs/t023-validation-report.md:79`, "Human gate preserved": the composer never compares the class and merge
  gate of the plan with the audit's (`pr-composer/src/run.ts:475`), so the audit of a class B plan and the same plan
  made again with class A give a pull request that asks for no human.
* `docs/specs/evolution-guard.md:49` has the guard decide on the proposal that was reviewed; it compares ids and
  targets, not the digest of the documents (`evolution-guard.ts:255`), so after a merge the reviews of one
  mutation carry the same mutation of changed documents. `RequestsAreUnanimous` is stated without that.

Seen while modelling, without a run: `packages/approval-checkpoint/README.md:47` asks for two approvals of a class
C change, and two records of one owner, or one passed both as `humanApproval` and in `humanApprovals`
(`forge-demo/src/run.ts:321`), count as two (`approval-checkpoint/src/run.ts:422`), so `WritesAreApproved` asks for
records, not for people; an
approval of an older ledger is planned although the present ledger of the same request is blocked
(`transport-execution-plan.ts:267` compares the request, not the ledger); approvers are compared with their case
(`approval-receipt-verifier.ts:545`), GitHub logins are not; the row of a dead worker is never claimed again
(`event-inbox.ts:281`); a late worker's mark moves a row that was reopened and settled by another
(`event-inbox.ts:317`); the fourth backoff step's `requires_human_ack` is read nowhere (`rate-governor/src/run.ts:176`); the governor without a
`runtime` argument trusts the stored gate (`run.ts:51`), so that what was authorized before a stop is queued during it,
and ignores the runtime's cooldown (`run.ts:236`); the 413 of `docs/specs/t007-validation-report.md:34` reaches no
client, as the request is destroyed before it is written (`server.ts:222`), and `AnswersFollowTheReport` claims nothing
of such a body but that it is not answered;
`docs/ops/runtime-mode.md:47` describes a restore route `server.ts` does not have;
`canonical.rs:285` leaves strings such as `.inf`, `0x10` and `%x` plain, which `docs/specs/forge-v1.md:425` says
round-trip exactly; `forge-v1.md:46` and `:500` forbid duplicate keys at every level, and the
scanner, which puts the frame of an item two columns behind its dash (`source.rs:110`) but trims what follows
(`source.rs:124`), misses those of a first key behind several spaces (`-   k: 1`, `    k: 2`) or behind a second
dash (the YAML library behind it, which is not modelled, may still refuse them); it does not take a dash alone on its
line for an item, and reads the lines of a block scalar as keys, and so refuses valid documents as having duplicate
keys; an absent hash counts as valid, and a first signature added after hashing breaks the seal;
an outcome of a closed pull request whose answer leaves `merged` out is collected as unknown and refused by its
own validation (`outcomes.ts:614`); a lineage pack of a treaty that expired afterwards is still composed from
(`cross-pr.ts:198`), and the gossip plan asks for neither the treaty's term nor the score; the demonstration reports
`candidate_registered` whatever the boundary decided (`distributed-evolution.ts:528`); the files an output changes
are counted by the output itself (`auditor/src/run.ts:357`); the phrase `rce` is found in "source"
(`planner/src/intake.ts:242`); nobody reads the decision of the security gate, and no clean audit passes its bridge.

## 7. Not modelled, and the plan

Left out for good: formatting and wording of bodies and reports, hash arithmetic, the validation of single fields
(formats, lengths, required keys) beyond what decides a gate, environment, limits and mounts of the sandbox, the
estimate of tokens, `startFromEnvironment` and logging handoffs, the report the demo writes, the SQL migrations (the statements of the migration strings in the sources),
command-line drivers, and the generated and root-level copies.

Modelled for breadth, with no property that depends on them: the export, composition and comparison steps of
`Federation` as steps of their own (`RefusalsAreShown` and the demonstration chain use the operators behind them), and
the commit trailers among the evidence of `EvaluationRecords`.

Planned, in this order:

1. Type correctness of `ForgingChain` and `MutationReview`.
2. The composition of the two halves of the mutation chain, and of `ForgingChain` with `TransportChain`, whose set
   `Sound` then becomes the composer's result.
