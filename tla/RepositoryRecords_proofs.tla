----------------------- MODULE RepositoryRecords_proofs -----------------------
(* What holds of the records for any pull requests, documents, texts, policies *)
(* and changes of the world between the calls.                                 *)
EXTENDS RepositoryRecords, FiniteSetTheorems, SequenceTheorems, NaturalsInduction,
        WellFoundedInduction, TLAPS

(***************************************************************************)
(* Outcomes                                                                *)
(***************************************************************************)
(* A pull request is merged or reverted for good, and what becomes of a head   *)
(* is on record.                                                               *)
PullTyped ==
  /\ pull \in [state : {"open", "closed"}, merged : BOOLEAN, head : Nat, mergeCommit : Nat,
               review : [outcome : {"unknown", "approved", "changes_requested"}, commit : Nat], revert : Nat]
  /\ facts \in [closed : SUBSET Nat, faulted : SUBSET Nat]
PullOnRecord ==
  /\ pull.merged => pull.state = "closed"
  /\ pull.revert # 0 => pull.merged
  /\ pull.state = "closed" /\ ~pull.merged => pull.head \in facts.closed
  /\ pull.review.outcome = "changes_requested" => pull.review.commit \in facts.faulted

(* The pieces of a dossier were all true some time.                            *)
ShownType ==
  [formed : {TRUE}, state : {"open", "closed"}, merged : {"yes", "no", "unsaid"}, head : Nat,
   mergeCommit : Nat, mergedAt : BOOLEAN, closedAt : BOOLEAN]
DossierTyped ==
  dossier \in [pr : SUBSET ShownType,
               review : [outcome : {"unknown", "approved", "changes_requested"}, commit : Nat],
               revert : SUBSET [commit : Nat, pr : {{}}],
               quarantine : SUBSET [on : {TRUE}, reasons : {{"found"}}],
               stale : SUBSET [on : {TRUE}, reason : {"idle"}]]
DossierWasTrue ==
  /\ \A pr \in dossier.pr :
       /\ pr.merged = "yes" => pull.merged
       /\ pr.state = "closed" /\ ~pr.mergedAt => pr.head \in facts.closed
  /\ dossier.review.outcome = "changes_requested" /\ dossier.review.commit # 0 =>
       dossier.review.commit \in facts.faulted
  /\ dossier.revert # {} => pull.merged /\ pull.revert # 0

(* An outcome stays true, and an episode is of its outcome.                    *)
OutcomeWasTrue ==
  outcome # None =>
    LET head == outcome.sections.source.pr.head IN
    /\ outcome.outcome = "rejected" => head \in facts.closed \cap facts.faulted
    /\ outcome.outcome = "merged" => pull.merged
    /\ outcome.outcome = "reverted" => pull.merged /\ pull.revert # 0
    /\ outcome.outcome # "accepted"
EpisodeIsOfOutcome ==
  episode \notin {None, Refused} => outcome # None /\ episode.type = EpisodeType(outcome.outcome)

FollowInv ==
  PullTyped /\ PullOnRecord /\ DossierTyped /\ DossierWasTrue /\ OutcomeWasTrue /\ EpisodeIsOfOutcome

LEMMA FollowInit == ASSUME Init PROVE FollowInv
<1> USE DEF Init
<1>1. PullTyped
  BY DEF PullTyped, OpenPull
<1>2. PullOnRecord
  BY DEF PullOnRecord, OpenPull
<1>3. DossierTyped
  BY DEF DossierTyped, NoReview
<1>4. DossierWasTrue
  BY DEF DossierWasTrue, NoReview
<1>5. OutcomeWasTrue /\ EpisodeIsOfOutcome
  BY DEF OutcomeWasTrue, EpisodeIsOfOutcome
<1> QED
  BY <1>1, <1>2, <1>3, <1>4, <1>5 DEF FollowInv

(* What happens to the pull request leaves what was said of it true.           *)
Onward(next) ==
  /\ next \in [state : {"open", "closed"}, merged : BOOLEAN, head : Nat, mergeCommit : Nat,
               review : [outcome : {"unknown", "approved", "changes_requested"}, commit : Nat], revert : Nat]
  /\ pull.merged => next.merged
  /\ next.merged => next.state = "closed"
  /\ pull.revert # 0 => next.revert # 0
  /\ next.revert # 0 => next.merged

LEMMA LiveFollows ==
  ASSUME FollowInv, NEW next, Onward(next), Live(next)
  PROVE  FollowInv'
<1> USE DEF Live
<1>1. /\ pull' = next /\ UNCHANGED <<dossier, outcome, episode>>
      /\ facts'.closed = facts.closed \cup IF next.state = "closed" /\ ~next.merged THEN {next.head} ELSE {}
      /\ facts'.faulted = facts.faulted \cup
           IF next.review.outcome = "changes_requested" THEN {next.review.commit} ELSE {}
      /\ facts' \in [closed : SUBSET Nat, faulted : SUBSET Nat]
  <2>1. facts \in [closed : SUBSET Nat, faulted : SUBSET Nat] /\ next.head \in Nat /\ next.review.commit \in Nat
    BY DEF FollowInv, PullTyped, Onward
  <2> QED
    BY <2>1
<1>2. facts.closed \subseteq facts'.closed /\ facts.faulted \subseteq facts'.faulted
  BY <1>1
<1>3. PullTyped' /\ PullOnRecord'
  BY <1>1 DEF PullTyped, PullOnRecord, Onward
<1>4. DossierTyped' /\ EpisodeIsOfOutcome'
  BY <1>1 DEF FollowInv, DossierTyped, EpisodeIsOfOutcome
<1>5. pull.merged => pull'.merged
  BY <1>1 DEF Onward
<1>6. pull.revert # 0 => pull'.revert # 0
  BY <1>1 DEF Onward
<1>7. DossierWasTrue'
  BY <1>1, <1>2, <1>5, <1>6 DEF FollowInv, DossierWasTrue
<1>8. OutcomeWasTrue'
  BY <1>1, <1>2, <1>5, <1>6 DEF FollowInv, OutcomeWasTrue
<1> QED
  BY <1>3, <1>4, <1>7, <1>8 DEF FollowInv

LEMMA PullLives ==
  ASSUME FollowInv,
         \/ Push \/ Close \/ Reopen \/ Merge \/ Revert
         \/ \E verdict \in {"approved", "changes_requested"} : Review(verdict)
  PROVE  FollowInv'
<1> USE RecordsAreBounded DEF FollowInv, PullTyped, PullOnRecord, Onward
<1>1. CASE Push
  BY <1>1, LiveFollows DEF Push
<1>2. CASE Close
  BY <1>2, LiveFollows DEF Close
<1>3. CASE Reopen
  BY <1>3, LiveFollows DEF Reopen
<1>4. CASE Merge
  <2> DEFINE next == [pull EXCEPT !.state = "closed", !.merged = TRUE, !.mergeCommit = MaxHead + 1]
  <2>1. Live(next)
    BY <1>4 DEF Merge
  <2>2. MaxHead + 1 \in Nat /\ next.state = "closed" /\ next.revert = pull.revert /\ next.merged
    OBVIOUS
  <2>3. Onward(next)
    BY <2>2
  <2> QED
    BY <2>1, <2>3, LiveFollows
<1>5. CASE Revert
  BY <1>5, LiveFollows DEF Revert
<1>6. ASSUME NEW verdict \in {"approved", "changes_requested"}, Review(verdict) PROVE FollowInv'
  BY <1>6, LiveFollows DEF Review
<1> QED
  BY <1>1, <1>2, <1>3, <1>4, <1>5, <1>6

(* A piece that is fetched is true at that moment.                             *)
LEMMA FetchFollows ==
  ASSUME FollowInv,
         \/ \E listed \in BOOLEAN : FetchPr(listed)
         \/ \E named \in BOOLEAN : FetchReview(named)
         \/ FetchRevert \/ Quarantine \/ CallStale
  PROVE  FollowInv'
<1>1. UNCHANGED <<pull, facts, outcome, episode>>
  BY DEF FetchPr, FetchReview, FetchRevert, Quarantine, CallStale, Fetched
<1>2. PullTyped' /\ PullOnRecord' /\ OutcomeWasTrue' /\ EpisodeIsOfOutcome'
  BY <1>1 DEF FollowInv, PullTyped, PullOnRecord, OutcomeWasTrue, EpisodeIsOfOutcome
<1>3. DossierTyped' /\ DossierWasTrue'
  <2> USE <1>1 DEF FollowInv, DossierTyped, DossierWasTrue, Fetched
  <2>1. ASSUME NEW listed \in BOOLEAN, FetchPr(listed) PROVE DossierTyped' /\ DossierWasTrue'
    <3>1. /\ Shown(listed) \in ShownType
          /\ Shown(listed).merged = "yes" => pull.merged
          /\ Shown(listed).state = "closed" /\ ~Shown(listed).mergedAt => Shown(listed).head \in facts.closed
      BY DEF Shown, ShownType, PullTyped, PullOnRecord
    <3>2. dossier' = [dossier EXCEPT !.pr = {Shown(listed)}]
      BY <2>1 DEF FetchPr
    <3> QED
      BY <3>1, <3>2
  <2>2. ASSUME NEW named \in BOOLEAN, FetchReview(named) PROVE DossierTyped' /\ DossierWasTrue'
    BY <2>2 DEF FetchReview, PullTyped, PullOnRecord
  <2>3. CASE FetchRevert
    <3>1. dossier' = [dossier EXCEPT !.revert = {[commit |-> pull.revert, pr |-> {}]}] /\ pull.revert # 0
      BY <2>3 DEF FetchRevert
    <3>2. [commit |-> pull.revert, pr |-> {}] \in [commit : Nat, pr : {{}}]
      BY DEF PullTyped
    <3> QED
      BY <3>1, <3>2 DEF PullOnRecord
  <2>4. CASE Quarantine
    <3>1. dossier' = [dossier EXCEPT !.quarantine = {[on |-> TRUE, reasons |-> {"found"}]}]
      BY <2>4 DEF Quarantine
    <3>2. [on |-> TRUE, reasons |-> {"found"}] \in [on : {TRUE}, reasons : {{"found"}}]
      OBVIOUS
    <3> QED
      BY <3>1, <3>2
  <2>5. CASE CallStale
    <3>1. dossier' = [dossier EXCEPT !.stale = {[on |-> TRUE, reason |-> "idle"]}]
      BY <2>5 DEF CallStale
    <3>2. [on |-> TRUE, reason |-> "idle"] \in [on : {TRUE}, reason : {"idle"}]
      OBVIOUS
    <3> QED
      BY <3>1, <3>2
  <2> QED
    BY <2>1, <2>2, <2>3, <2>4, <2>5
<1> QED
  BY <1>2, <1>3 DEF FollowInv

(* An outcome that is collected is what the pieces say.                        *)
LEMMA CollectFollows == ASSUME FollowInv, Collect PROVE FollowInv'
<1> DEFINE pr == Input.source.pr
           head == outcome'.sections.source.pr.head
<1>1. /\ UNCHANGED <<pull, facts, dossier>> /\ episode' = None
      /\ outcome' = CollectMergeOutcome(Input) /\ dossier.pr # {}
  BY DEF Collect
<1>2. PullTyped' /\ PullOnRecord' /\ DossierTyped' /\ DossierWasTrue' /\ EpisodeIsOfOutcome'
  BY <1>1 DEF FollowInv, PullTyped, PullOnRecord, DossierTyped, DossierWasTrue, EpisodeIsOfOutcome
<1>3. pr \in dossier.pr /\ pr \in ShownType
  BY <1>1 DEF Input, FollowInv, DossierTyped
<1>4. CASE ~InputIsValid(Input)
  <2>1. outcome'.outcome = "unknown"
    BY <1>1, <1>4 DEF CollectMergeOutcome
  <2>2. OutcomeWasTrue'
    BY <2>1 DEF OutcomeWasTrue
  <2> QED
    BY <2>2, <1>2 DEF FollowInv
<1>5. CASE InputIsValid(Input)
  <2>1. outcome'.outcome = ResolveOutcome(Input) /\ outcome'.sections = Sections(Input)
    BY <1>1, <1>5 DEF CollectMergeOutcome
  <2>2. head = pr.head
    BY <2>1, <1>3 DEF Sections, NormalizedPr, Input, ShownType
  <2>3. PrIsValid(pr)
    BY <1>5 DEF InputIsValid, SourceIsValid
  <2>4. outcome'.outcome = "rejected" => head \in facts.closed \cap facts.faulted
    <3> HAVE outcome'.outcome = "rejected"
    <3>1. IsRejected(Input.review, pr)
      BY <2>1 DEF ResolveOutcome
    <3>2. Input.review = dossier.review
      BY DEF Input
    <3> QED
      BY <1>3, <2>2, <2>3, <3>1, <3>2 DEF IsRejected, PrIsValid, FollowInv, DossierWasTrue, DossierTyped
  <2>5. outcome'.outcome = "merged" => pull.merged
    <3> HAVE outcome'.outcome = "merged"
    <3>1. IsMerged(pr)
      BY <2>1 DEF ResolveOutcome
    <3> QED
      BY <1>3, <3>1 DEF IsMerged, FollowInv, DossierWasTrue
  <2>6. outcome'.outcome = "reverted" => pull.merged /\ pull.revert # 0
    <3> HAVE outcome'.outcome = "reverted"
    <3>1. Input.revert # {}
      BY <2>1 DEF ResolveOutcome
    <3> QED
      BY <3>1 DEF Input, FollowInv, DossierWasTrue
  <2>7. outcome'.outcome # "accepted"
    BY <2>1 DEF ResolveOutcome
  <2>8. pull' = pull /\ facts' = facts
    BY <1>1
  <2>9. OutcomeWasTrue'
    BY <2>4, <2>5, <2>6, <2>7, <2>8 DEF OutcomeWasTrue
  <2> QED
    BY <2>9, <1>2 DEF FollowInv
<1> QED
  BY <1>2, <1>4, <1>5 DEF FollowInv

LEMMA DigestFollows == ASSUME FollowInv, Digest PROVE FollowInv'
<1>1. /\ UNCHANGED <<pull, facts, dossier, outcome>> /\ outcome # None
      /\ episode' = CreateDigest([id |-> outcome.sections.source.pr.head, formed |-> TRUE,
                                  type |-> EpisodeType(outcome.outcome), reliability |-> "high",
                                  text |-> CHOOSE t \in Texts : t # Blank])
  BY DEF Digest
<1>2. PullTyped' /\ PullOnRecord' /\ DossierTyped' /\ DossierWasTrue' /\ OutcomeWasTrue'
  BY <1>1 DEF FollowInv, PullTyped, PullOnRecord, DossierTyped, DossierWasTrue, OutcomeWasTrue
<1>3. EpisodeIsOfOutcome'
  BY <1>1 DEF EpisodeIsOfOutcome, CreateDigest
<1> QED
  BY <1>2, <1>3 DEF FollowInv

LEMMA FollowStep == ASSUME FollowInv, [Next]_vars PROVE FollowInv'
<1>1. CASE Follow
  BY <1>1, PullLives, FetchFollows, CollectFollows, DigestFollows DEF Follow
<1>2. CASE UNCHANGED followed
  <2>1. UNCHANGED <<pull, facts, dossier, outcome, episode>>
    BY <1>2 DEF followed
  <2>2. PullTyped' /\ PullOnRecord' /\ DossierTyped'
    BY <2>1 DEF FollowInv, PullTyped, PullOnRecord, DossierTyped
  <2>3. DossierWasTrue' /\ OutcomeWasTrue' /\ EpisodeIsOfOutcome'
    BY <2>1 DEF FollowInv, DossierWasTrue, OutcomeWasTrue, EpisodeIsOfOutcome
  <2> QED
    BY <2>2, <2>3 DEF FollowInv
<1>3. Follow \/ UNCHANGED followed
  <2>1. Remembering => UNCHANGED followed
    BY DEF Remembering, Remember, Note, Archive, Shelve, Recall
  <2>2. Screening => UNCHANGED followed
    BY DEF Screening, Report, SetRuntime, SetRate, Screen
  <2>3. Reading => UNCHANGED followed
    BY DEF Reading, ReadText
  <2>4. Committing \/ Sealing \/ Rehearsing => UNCHANGED followed
    BY DEF Committing, Write, Sealing, Edit, Hash, Seal, Sign, Put, Rehearsing, Rehearse
  <2> QED
    BY <2>1, <2>2, <2>3, <2>4 DEF Next, vars
<1> QED
  BY <1>1, <1>2, <1>3

(* OutcomeIsFactual: however late and in whatever order the pieces of a dossier *)
(* are fetched (outcomes.ts), what an outcome says of its head was true of it, *)
(* and no episode is called accepted without a merge.                          *)
THEOREM OutcomesAreFacts == Spec => []OutcomeIsFactual
<1>1. Init => FollowInv
  BY FollowInit
<1>2. FollowInv /\ [Next]_vars => FollowInv'
  BY FollowStep
<1>3. FollowInv => OutcomeIsFactual
  BY DEF FollowInv, OutcomeWasTrue, EpisodeIsOfOutcome, OutcomeIsFactual, EpisodeType
<1> QED
  BY <1>1, <1>2, <1>3, PTL DEF Spec

(***************************************************************************)
(* The gate                                                                *)
(***************************************************************************)
(* The strictest of some decisions is the highest of their ranks, and it is    *)
(* not milder than that of fewer.                                              *)
LEMMA StrictestIs ==
  ASSUME NEW S \in SUBSET Decisions
  PROVE  /\ Strictest(S) \in Decisions
         /\ \A e \in S : Rank(e) <= Rank(Strictest(S))
         /\ Strictest(S) = "pass" \/ Strictest(S) \in S
<1> DEFINE Top(d) == \A e \in S : Rank(e) <= Rank(d)
<1>1. Rank("pass") = 0 /\ Rank("hold") = 1 /\ Rank("block") = 2 /\ Rank("quarantine") = 3
  BY DEF Rank
<1>2. \E d \in S \cup {"pass"} : Top(d)
  <2>1. CASE "quarantine" \in S
    BY <1>1, <2>1 DEF Decisions
  <2>2. CASE "quarantine" \notin S /\ "block" \in S
    BY <1>1, <2>2 DEF Decisions
  <2>3. CASE "quarantine" \notin S /\ "block" \notin S /\ "hold" \in S
    BY <1>1, <2>3 DEF Decisions
  <2>4. CASE S \subseteq {"pass"}
    BY <1>1, <2>4
  <2> QED
    BY <2>1, <2>2, <2>3, <2>4 DEF Decisions
<1>3. Strictest(S) \in S \cup {"pass"} /\ Top(Strictest(S))
  <2>1. Strictest(S) = CHOOSE d \in S \cup {"pass"} : Top(d)
    BY DEF Strictest
  <2> HIDE DEF Top
  <2> QED
    BY <2>1, <1>2, Zenon
<1> QED
  BY <1>3 DEF Decisions

LEMMA StricterOfMore ==
  ASSUME NEW S \in SUBSET Decisions, NEW T \in SUBSET Decisions, S \subseteq T
  PROVE  Strictness[Strictest(T)] >= Strictness[Strictest(S)]
<1>1. \A d \in Decisions : Strictness[d] = Rank(d) /\ Rank(d) \in Nat
  BY DEF Decisions, Strictness, Rank
<1>2. Rank("pass") = 0
  BY DEF Rank
<1>3. Strictest(S) \in Decisions /\ Strictest(T) \in Decisions
  BY StrictestIs
<1>4. CASE Strictest(S) = "pass"
  BY <1>1, <1>2, <1>3, <1>4
<1>5. CASE Strictest(S) \in S
  BY <1>1, <1>3, <1>5, StrictestIs
<1> QED
  BY <1>4, <1>5, StrictestIs

(* What an evaluation decides: the strictest of its findings and boundaries,   *)
(* or nothing where the bridge or the artifact is refused.                     *)
Decided(found, run, rates, enforced) == EvaluateGate(Bridge(found, TRUE), run, rates, enforced, "B").decision
Refusing(found) ==
  \/ found = {}
  \/ \E f \in found : ~FindingIsValid(f, TRUE) \/ Result(f).severity \notin ForgeSeverities \/ Result(f).rule = <<>>
Weights(found, run, rates, enforced) ==
  {DecideFinding(Result(f)) : f \in found} \cup Boundaries(run, rates, enforced)

LEMMA WeightsAreDecisions ==
  ASSUME NEW found, NEW run, NEW rates, NEW enforced
  PROVE  Weights(found, run, rates, enforced) \in SUBSET Decisions
<1>1. \A r : {c.decision : c \in Reasons(r)} \in SUBSET Decisions
  BY DEF Reasons
<1>2. \A r : DecideFinding(r) \in Decisions
  BY <1>1, StrictestIs DEF DecideFinding
<1>3. Boundaries(run, rates, enforced) \subseteq Decisions
  BY DEF Boundaries
<1> QED
  BY <1>2, <1>3 DEF Weights

LEMMA DecidedIs ==
  ASSUME NEW found, NEW run, NEW rates, NEW enforced
  PROVE  Decided(found, run, rates, enforced) =
           IF Refusing(found) THEN "invalid" ELSE Strictest(Weights(found, run, rates, enforced))
<1> DEFINE artifact == Bridge(found, TRUE)
           results == {Result(f) : f \in found}
<1>1. CASE found = {} \/ \E f \in found : ~FindingIsValid(f, TRUE)
  <2>1. artifact.status = "invalid"
    BY <1>1 DEF Bridge
  <2>2. ~ArtifactIsValid(artifact)
    BY <2>1 DEF ArtifactIsValid
  <2> QED
    BY <1>1, <2>2 DEF Decided, EvaluateGate, Refusing
<1>2. CASE ~(found = {} \/ \E f \in found : ~FindingIsValid(f, TRUE))
  <2>1. /\ artifact.status = "ready" /\ artifact.results = results
        /\ artifact.count = Cardinality(results) /\ artifact.severities = CountOf(results)
    BY <1>2 DEF Bridge
  <2>2. DOMAIN artifact.severities = ForgeSeverities
    BY <2>1 DEF CountOf
  <2>3. ArtifactIsValid(artifact) <=> ~Refusing(found)
    <3>1. ArtifactIsValid(artifact) <=> \A r \in results : r.severity \in ForgeSeverities /\ r.rule # <<>>
      BY <2>1, <2>2 DEF ArtifactIsValid
    <3> QED
      BY <3>1, <1>2 DEF Refusing
  <2>4. CASE Refusing(found)
    BY <2>3, <2>4 DEF Decided, EvaluateGate
  <2>5. CASE ~Refusing(found)
    <3> DEFINE decided == [r \in artifact.results |-> DecideFinding(r)]
               bounds == Boundaries(run, rates, enforced)
               decision == Aggregate({decided[r] : r \in artifact.results}, bounds)
    <3>1. {decided[r] : r \in artifact.results} \cup bounds = Weights(found, run, rates, enforced)
      BY <2>1 DEF Weights
    <3>2. decision = Strictest(Weights(found, run, rates, enforced)) /\ decision \in Decisions
      BY <3>1, WeightsAreDecisions, StrictestIs DEF Aggregate
    <3> HIDE DEF decision, decided, bounds
    <3>3. Policy.class[decision] \in Classes /\ "B" \in Classes
      BY <3>2, PolicyIsWellFormed DEF PolicyIsValid, Classes
    <3>4. DecisionReadsBack(DecisionManifest(decision, decided, bounds, "B"))
      BY <3>3 DEF DecisionReadsBack, DecisionManifest
    <3>5. Decided(found, run, rates, enforced) = DecisionManifest(decision, decided, bounds, "B").decision
      BY <3>4, <2>3, <2>5 DEF Decided, EvaluateGate, decision, decided, bounds
    <3>6. DecisionManifest(decision, decided, bounds, "B").decision = decision
      BY DEF DecisionManifest
    <3> QED
      BY <3>2, <3>5, <3>6, <2>5
  <2> QED
    BY <2>4, <2>5
<1> QED
  BY <1>1, <1>2

IsRate(r) == r = [status |-> r.status, dispatch |-> r.dispatch, cooldown |-> r.cooldown]
(* More findings, a kill and a cooldown only make boundaries and weights more. *)
LEMMA HardenedWeighsMore ==
  ASSUME NEW m, NEW n, Hardened(m, n),
         IsRate(m.rate)
  PROVE  /\ Refusing(m.findings) => Refusing(n.findings)
         /\ Weights(m.findings, m.runtime, m.rate, m.enforced)
              \subseteq Weights(n.findings, n.runtime, n.rate, n.enforced)
<1>1. m.findings # {} /\ m.findings \subseteq n.findings
  BY DEF Hardened
<1>2. n.rate.status = m.rate.status /\ n.rate.dispatch = m.rate.dispatch /\ (m.rate.cooldown => n.rate.cooldown)
  BY DEF Hardened, IsRate
<1>3. /\ m.enforced => n.enforced
      /\ n.runtime.mode = m.runtime.mode /\ (m.runtime.killed => n.runtime.killed)
  BY DEF Hardened
<1>4. Boundaries(m.runtime, m.rate, m.enforced) \subseteq Boundaries(n.runtime, n.rate, n.enforced)
  BY <1>2, <1>3 DEF Boundaries
<1> QED
  BY <1>1, <1>4 DEF Refusing, Weights

(* A gate is what was decided of what it was asked.                            *)
GateInv ==
  /\ IsRate(rate)
  /\ gate # None =>
       /\ IsRate(gate.rate)
       /\ gate.decided = Decided(gate.findings, gate.runtime, gate.rate, gate.enforced)

LEMMA ScreenedOnly ==
  ASSUME [Next]_vars
  PROVE  \/ \E enforced \in BOOLEAN : Screen(enforced)
         \/ gate' = gate /\ (rate' = rate \/ rate' \in Rates)
<1>1. CASE duty = "screen" /\ Screening
  BY <1>1 DEF Screening, Report, SetRuntime, SetRate
<1>2. CASE UNCHANGED screened
  BY <1>2 DEF screened
<1>3. (duty = "screen" /\ Screening) \/ UNCHANGED screened
  <2>1. Remembering => UNCHANGED screened
    BY DEF Remembering, Remember, Note, Archive, Shelve, Recall
  <2>2. Follow => UNCHANGED screened
    BY DEF Follow, Push, Close, Reopen, Merge, Revert, Review, Live, FetchPr, FetchReview, FetchRevert,
           Quarantine, CallStale, Fetched, Collect, Digest
  <2>3. Reading => UNCHANGED screened
    BY DEF Reading, ReadText
  <2>4. Committing \/ Sealing \/ Rehearsing => UNCHANGED screened
    BY DEF Committing, Write, Sealing, Edit, Hash, Seal, Sign, Put, Rehearsing, Rehearse
  <2> QED
    BY <2>1, <2>2, <2>3, <2>4 DEF Next, vars
<1> QED
  BY <1>1, <1>2, <1>3

LEMMA GateStep == ASSUME GateInv, [Next]_vars PROVE GateInv'
<1>1. ASSUME NEW enforced \in BOOLEAN, Screen(enforced) PROVE GateInv'
  BY <1>1 DEF Screen, GateInv, Decided
<1>2. CASE gate' = gate /\ (rate' = rate \/ rate' \in Rates)
  BY <1>2, RatesAreStates DEF GateInv, IsRate
<1> QED
  BY <1>1, <1>2, ScreenedOnly

(* GateNeverSoftens: with more findings, the runtime killed or the rate cooling*)
(* down, an evaluation (security-gates.ts) is as strict as the one before.     *)
THEOREM GatesOnlyHarden == Spec => GateNeverSoftens
<1>1. Init => GateInv
  BY DEF Init, GateInv, IsRate
<1>2. GateInv /\ [Next]_vars => GateInv'
  BY GateStep
<1>3. GateInv /\ [Next]_vars =>
        [gate # None /\ Hardened(gate, gate') => Strictness[gate'.decided] >= Strictness[gate.decided]]_gate
  <2> SUFFICES ASSUME GateInv, [Next]_vars, gate # None, gate' # gate, Hardened(gate, gate')
               PROVE  Strictness[gate'.decided] >= Strictness[gate.decided]
    OBVIOUS
  <2> DEFINE old == Weights(gate.findings, gate.runtime, gate.rate, gate.enforced)
             new == Weights(gate.findings, gate.runtime, gate.rate, gate.enforced)'
  <2>1. gate.decided = IF Refusing(gate.findings) THEN "invalid" ELSE Strictest(old)
    BY DecidedIs DEF GateInv
  <2>2. PICK enforced \in BOOLEAN : Screen(enforced)
    BY ScreenedOnly
  <2>3. gate'.decided = Decided(gate'.findings, gate'.runtime, gate'.rate, gate'.enforced)
    BY <2>2 DEF Screen, Decided
  <2>4. gate'.decided = IF Refusing(gate'.findings) THEN "invalid" ELSE Strictest(new)
    BY <2>3, DecidedIs
  <2>5. (Refusing(gate.findings) => Refusing(gate'.findings)) /\ old \subseteq new
    BY HardenedWeighsMore DEF GateInv
  <2>6. old \in SUBSET Decisions /\ new \in SUBSET Decisions
    BY WeightsAreDecisions
  <2> HIDE DEF old, new
  <2>7. Strictness[Strictest(new)] >= Strictness[Strictest(old)]
    BY <2>5, <2>6, StricterOfMore
  <2>8. Strictest(old) \in Decisions /\ Strictest(new) \in Decisions
    BY <2>6, StrictestIs
  <2>9. Strictness["invalid"] = 4 /\ \A d \in Decisions : Strictness[d] \in 0..3
    BY DEF Strictness, Decisions
  <2> QED
    BY <2>1, <2>4, <2>5, <2>7, <2>8, <2>9
<1> QED
  BY <1>1, <1>2, <1>3, PTL DEF Spec, GateNeverSoftens

(***************************************************************************)
(* Documents and seals                                                     *)
(***************************************************************************)
(* What is emitted tells the type: only strings are quoted, and a string that  *)
(* could be read as something else is.                                         *)
LEMMA EmittedTells ==
  ASSUME NEW v, NEW w, IsScalar(v), IsScalar(w)
  PROVE  Emitted(v) = Emitted(w) <=> [v EXCEPT !.text = Nfc[@]] = [w EXCEPT !.text = Nfc[@]]
<1>1. /\ v \in [type : Types, text : DOMAIN Nfc] /\ w \in [type : Types, text : DOMAIN Nfc]
  BY DEF IsScalar
<1>2. /\ Emitted(v) = Emitted(w) <=>
           (/\ Nfc[v.text] = Nfc[w.text]
            /\ (v.type = "string" /\ ~IsPlainSafe(Nfc[v.text])) <=> (w.type = "string" /\ ~IsPlainSafe(Nfc[w.text])))
  BY Zenon DEF Emitted
<1>3. [v EXCEPT !.text = Nfc[@]] = [w EXCEPT !.text = Nfc[@]] <=> v.type = w.type /\ Nfc[v.text] = Nfc[w.text]
  BY <1>1
<1>4. ASSUME Nfc[v.text] = Nfc[w.text],
             (v.type = "string" /\ ~IsPlainSafe(Nfc[v.text])) <=> (w.type = "string" /\ ~IsPlainSafe(Nfc[w.text]))
      PROVE  v.type = w.type
  BY <1>1, <1>4, NumbersAreNoWords DEF IsScalar, IsPlainSafe, Words, Types
<1> QED
  BY <1>2, <1>3, <1>4

(* A document as it was read.                                                  *)
IsRead(doc) ==
  /\ "extensions" \in DOMAIN doc => \A key \in DOMAIN doc.extensions : IsScalar(doc.extensions[key])
  /\ "integrity" \in DOMAIN doc => DOMAIN doc.integrity = {"canonical_hash", "signatures"}
Stands(doc) == CommonKeys \subseteq DOMAIN doc /\ IsRead(doc)

(* Two documents have one canonical form if they have one content.             *)
LEMMA CanonicalTells ==
  ASSUME NEW d, NEW e, Stands(d), Stands(e)
  PROVE  Canonical(d) = Canonical(e) <=> Content(d) = Content(e)
<1>1. "extensions" \in DOMAIN d /\ "extensions" \in DOMAIN e
  BY DEF Stands, CommonKeys
<1> DEFINE SameIntegrity ==
             "integrity" \in DOMAIN d =>
               /\ d.integrity.canonical_hash # {} <=> e.integrity.canonical_hash # {}
               /\ d.integrity.signatures # {} <=> e.integrity.signatures # {}
           SameExtensions ==
             /\ DOMAIN d.extensions = DOMAIN e.extensions
             /\ \A k \in DOMAIN d.extensions :
                  [d.extensions[k] EXCEPT !.text = Nfc[@]] = [e.extensions[k] EXCEPT !.text = Nfc[@]]
           SameRest == \A key \in DOMAIN d \ {"integrity", "extensions"} : d[key] = e[key]
           Same == DOMAIN d = DOMAIN e /\ SameIntegrity /\ SameExtensions /\ SameRest
           Part(doc, key) ==
             CASE key = "integrity" ->
                    [canonical_hash |-> doc.integrity.canonical_hash # {}, signatures |-> doc.integrity.signatures # {}]
               [] key = "extensions" -> [k \in DOMAIN doc.extensions |-> [doc.extensions[k] EXCEPT !.text = Nfc[@]]]
               [] OTHER -> doc[key]
           Form(doc, key) ==
             IF key = "extensions" THEN [k \in DOMAIN doc.extensions |-> Emitted(doc.extensions[k])]
             ELSE IF key = "integrity"
             THEN [canonical_hash |-> {"zero" : hash \in doc.integrity.canonical_hash},
                   signatures |-> {{} : list \in doc.integrity.signatures}]
             ELSE doc[key]
<1>2. Content(d) = Content(e) <=> Same
  <2>1. Content(d) = [key \in DOMAIN d |-> Part(d, key)] /\ Content(e) = [key \in DOMAIN e |-> Part(e, key)]
    BY DEF Content
  <2> HIDE DEF Part
  <2>2. Content(d) = Content(e) <=> DOMAIN d = DOMAIN e /\ \A key \in DOMAIN d : Part(d, key) = Part(e, key)
    BY <2>1
  <2>3. Part(d, "integrity") = Part(e, "integrity") <=>
          /\ d.integrity.canonical_hash # {} <=> e.integrity.canonical_hash # {}
          /\ d.integrity.signatures # {} <=> e.integrity.signatures # {}
    BY DEF Part
  <2>4. Part(d, "extensions") = Part(e, "extensions") <=> SameExtensions
    BY DEF Part
  <2>5. \A key : key \notin {"integrity", "extensions"} => Part(d, key) = d[key] /\ Part(e, key) = e[key]
    BY DEF Part
  <2> QED
    BY <2>2, <2>3, <2>4, <2>5, <1>1
<1>3. Canonical(d) = Canonical(e) <=> Same
  <2>1. ASSUME NEW doc, "extensions" \in DOMAIN doc
        PROVE  Canonical(doc) = [key \in DOMAIN doc |-> Form(doc, key)]
    BY <2>1 DEF Canonical, NormalizedForHash
  <2>2. Canonical(d) = [key \in DOMAIN d |-> Form(d, key)] /\ Canonical(e) = [key \in DOMAIN e |-> Form(e, key)]
    BY <2>1, <1>1
  <2> HIDE DEF Form
  <2>3. Canonical(d) = Canonical(e) <=> DOMAIN d = DOMAIN e /\ \A key \in DOMAIN d : Form(d, key) = Form(e, key)
    BY <2>2
  <2>4. Form(d, "integrity") = Form(e, "integrity") <=>
          /\ d.integrity.canonical_hash # {} <=> e.integrity.canonical_hash # {}
          /\ d.integrity.signatures # {} <=> e.integrity.signatures # {}
    BY DEF Form
  <2>5. Form(d, "extensions") = Form(e, "extensions") <=> SameExtensions
    <3>1. ASSUME DOMAIN d.extensions = DOMAIN e.extensions, NEW k \in DOMAIN d.extensions
          PROVE  Emitted(d.extensions[k]) = Emitted(e.extensions[k]) <=>
                   [d.extensions[k] EXCEPT !.text = Nfc[@]] = [e.extensions[k] EXCEPT !.text = Nfc[@]]
      BY <3>1, <1>1, EmittedTells DEF Stands, IsRead
    <3>2. Form(d, "extensions") = Form(e, "extensions") <=>
            /\ DOMAIN d.extensions = DOMAIN e.extensions
            /\ \A k \in DOMAIN d.extensions : Emitted(d.extensions[k]) = Emitted(e.extensions[k])
      BY DEF Form
    <3> QED
      BY <3>1, <3>2
  <2>6. \A key : key \notin {"integrity", "extensions"} => Form(d, key) = d[key] /\ Form(e, key) = e[key]
    BY DEF Form
  <2> QED
    BY <2>3, <2>4, <2>5, <2>6, <1>1
<1> QED
  BY <1>2, <1>3

(* What lies in the repository was accepted where it lies, whatever was edited,*)
(* sealed or signed since; and a sealed document holds the hash it was sealed  *)
(* with.                                                                       *)
IsSuiteAt(doc, place) ==
  /\ doc.kind = "eval_suite" /\ doc.suite_name = place.stem
  /\ \A i \in DOMAIN doc.tasks : \A grader \in doc.tasks[i].graders :
       \E k \in DOMAIN doc.graders : doc.graders[k].id = grader
IsResultAt(doc, place) == doc.kind = "eval_result" /\ doc.result_name = place.stem
LiesRightly(doc, place) ==
  /\ Stands(doc)
  /\ place.dirs = SuiteDirectories =>
       {"suite_name", "tasks", "graders"} \subseteq DOMAIN doc /\ IsSuiteAt(doc, place)
  /\ place.dirs = ResultDirectories => "result_name" \in DOMAIN doc /\ IsResultAt(doc, place)
FilesLieRightly == \A place \in DOMAIN files : LiesRightly(files[place], place)
HashedStands == hashed # None => Stands(hashed)
SealsAreKept ==
  \A place \in DOMAIN sealed :
    /\ place \in DOMAIN files /\ Stands(sealed[place])
    /\ "integrity" \in DOMAIN files[place]
    /\ files[place].integrity.canonical_hash = {Canonical(sealed[place])}
FilesInv == FilesLieRightly /\ HashedStands /\ SealsAreKept

(* A document that changes in nothing but its extensions and its integrity     *)
(* section lies as rightly as before.                                          *)
LEMMA StillLiesRightly ==
  ASSUME NEW doc, NEW new, NEW place, LiesRightly(doc, place), IsRead(new),
         DOMAIN doc \subseteq DOMAIN new,
         \A key \in DOMAIN doc \ {"extensions", "integrity"} : new[key] = doc[key]
  PROVE  LiesRightly(new, place)
<1>1. Stands(new)
  BY DEF Stands, LiesRightly
<1>2. "kind" \in DOMAIN doc /\ new.kind = doc.kind
  BY DEF LiesRightly, Stands, CommonKeys
<1>3. ASSUME place.dirs = SuiteDirectories
      PROVE  {"suite_name", "tasks", "graders"} \subseteq DOMAIN new /\ IsSuiteAt(new, place)
  <2>1. {"suite_name", "tasks", "graders"} \subseteq DOMAIN doc /\ IsSuiteAt(doc, place)
    BY <1>3 DEF LiesRightly
  <2>2. new.suite_name = doc.suite_name /\ new.tasks = doc.tasks /\ new.graders = doc.graders
    BY <2>1
  <2> QED
    BY <1>2, <2>1, <2>2 DEF IsSuiteAt
<1>4. ASSUME place.dirs = ResultDirectories PROVE "result_name" \in DOMAIN new /\ IsResultAt(new, place)
  BY <1>2, <1>4 DEF LiesRightly, IsResultAt
<1> QED
  BY <1>1, <1>3, <1>4 DEF LiesRightly

(* A path is a suffix of itself.                                               *)
LEMMA SuffixOfItself == ASSUME NEW S, NEW s \in Seq(S) PROVE IsSuffix(s, s)
<1>1. Reverse(s) \in Seq(S) /\ Len(Reverse(s)) \in Nat
  BY DEF Reverse
<1> QED
  BY <1>1 DEF IsSuffix, IsPrefix

(* Where the paths of suites and results end.                                  *)
LEMMA PathsEnd ==
  /\ SuiteDirectories \in Seq({".forge", "evals", "results"})
  /\ ResultDirectories \in Seq({".forge", "evals", "results"})
  /\ <<".forge">> \o <<"evals">> = SuiteDirectories
  /\ <<".forge">> \o <<"evals", "results">> = ResultDirectories
<1> DEFINE S == {".forge", "evals", "results"}
           f == <<".forge">>  e == <<"evals">>  r == <<"evals", "results">>
<1>1. f \in Seq(S) /\ Len(f) = 1 /\ f[1] = ".forge"
  OBVIOUS
<1>2. e \in Seq(S) /\ Len(e) = 1 /\ e[1] = "evals"
  OBVIOUS
<1>3. r \in Seq(S) /\ Len(r) = 2 /\ r[1] = "evals" /\ r[2] = "results"
  OBVIOUS
<1>4. SuiteDirectories \in Seq(S) /\ ResultDirectories \in Seq(S)
  BY DEF SuiteDirectories, ResultDirectories, Base
<1>5. /\ Len(SuiteDirectories) = 2 /\ SuiteDirectories[1] = ".forge" /\ SuiteDirectories[2] = "evals"
  BY DEF SuiteDirectories, Base
<1>6. /\ Len(ResultDirectories) = 3 /\ ResultDirectories[1] = ".forge" /\ ResultDirectories[2] = "evals"
      /\ ResultDirectories[3] = "results"
  BY DEF ResultDirectories, Base
<1> HIDE DEF f, e, r, S
<1>7. f \o e = SuiteDirectories
  <2>1. f \o e \in Seq(S) /\ Len(f \o e) = 2 /\ (f \o e)[1] = ".forge" /\ (f \o e)[2] = "evals"
    BY <1>1, <1>2, ConcatProperties
  <2>2. \A i \in 1..2 : (f \o e)[i] = SuiteDirectories[i]
    BY <2>1, <1>5
  <2> QED
    BY <2>1, <2>2, <1>4, <1>5, SeqEqual
<1>8. f \o r = ResultDirectories
  <2>1. /\ f \o r \in Seq(S) /\ Len(f \o r) = 3
        /\ (f \o r)[1] = ".forge" /\ (f \o r)[2] = "evals" /\ (f \o r)[3] = "results"
    <3>1. f \o r \in Seq(S) /\ Len(f \o r) = 3
      BY <1>1, <1>3, ConcatProperties
    <3>2. \A i \in 1..(Len(f) + Len(r)) : (f \o r)[i] = IF i <= Len(f) THEN f[i] ELSE r[i - Len(f)]
      BY <1>1, <1>3, ConcatProperties
    <3>3. (f \o r)[1] = f[1]
      BY <1>1, <1>3, <3>2
    <3>4. (f \o r)[2] = r[1]
      BY <1>1, <1>3, <3>2
    <3>5. (f \o r)[3] = r[2]
      BY <1>1, <1>3, <3>2
    <3> QED
      BY <1>1, <1>3, <3>1, <3>3, <3>4, <3>5
  <2>2. \A i \in 1..3 : (f \o r)[i] = ResultDirectories[i]
    BY <2>1, <1>6
  <2> QED
    BY <2>1, <2>2, <1>4, <1>6, SeqEqual
<1> QED
  BY <1>4, <1>7, <1>8 DEF f, e, r, S

(* What is accepted at the path of a suite or of a result is one.              *)
LEMMA AcceptedLiesRightly ==
  ASSUME NEW place, NEW doc \in Documents, Accepts([defects |-> {}, lines |-> <<>>, document |-> doc], place),
         doc.kind = "eval_suite" =>
           place.dirs = SuiteDirectories /\ SuiteIsValid(SuiteOf(doc), {place.stem}, TRUE)
  PROVE  LiesRightly(doc, place)
<1>1. ShapeIsValid(doc) /\ PlaceIsValid(doc, place)
  BY DEF Accepts, IsParsed
<1>2. Stands(doc)
  BY <1>1, DocumentsAreRead DEF ShapeIsValid, Stands, IsRead
<1>3. ASSUME place.dirs = SuiteDirectories
      PROVE  {"suite_name", "tasks", "graders"} \subseteq DOMAIN doc /\ IsSuiteAt(doc, place)
  <2>1. Lies(place, <<"evals">>)
    BY <1>3, PathsEnd, SuffixOfItself DEF Lies
  <2>2. doc.kind = "eval_suite" /\ doc.suite_name = place.stem
    BY <1>1, <2>1 DEF PlaceIsValid, IsNamed
  <2>3. {"suite_name", "tasks", "graders"} \subseteq DOMAIN doc
    BY <1>1, <2>2 DEF ShapeIsValid, KeysOf
  <2>4. TasksAreValid(doc.tasks, doc.graders, TRUE)
    BY <2>2 DEF SuiteIsValid, SuiteOf
  <2>5. \A i \in DOMAIN doc.tasks : doc.tasks[i].graders \subseteq {doc.graders[k].id : k \in DOMAIN doc.graders}
    BY <2>4 DEF TasksAreValid, Ids
  <2> QED
    BY <2>2, <2>3, <2>5 DEF IsSuiteAt
<1>4. ASSUME place.dirs = ResultDirectories PROVE "result_name" \in DOMAIN doc /\ IsResultAt(doc, place)
  <2>1. Lies(place, <<"evals", "results">>)
    BY <1>4, PathsEnd, SuffixOfItself DEF Lies
  <2>2. doc.kind = "eval_result" /\ doc.result_name = place.stem
    BY <1>1, <2>1 DEF PlaceIsValid, IsNamed
  <2> QED
    BY <1>1, <2>2 DEF ShapeIsValid, KeysOf, IsResultAt
<1> QED
  BY <1>2, <1>3, <1>4 DEF LiesRightly

LEMMA WriteKeeps == ASSUME FilesInv, NEW place \in Places, NEW doc \in Documents, Write(place, doc) PROVE FilesInv'
<1>1. /\ place \notin DOMAIN files /\ files' = With(files, place, doc)
      /\ UNCHANGED <<hashed, sealed>> /\ LiesRightly(doc, place)
  BY AcceptedLiesRightly DEF Write, Put
<1>2. DOMAIN files' = DOMAIN files \cup {place} /\ files'[place] = doc
      /\ \A p \in DOMAIN files : files'[p] = files[p]
  BY <1>1 DEF With
<1>3. FilesLieRightly' /\ HashedStands'
  BY <1>1, <1>2 DEF FilesInv, FilesLieRightly, HashedStands
<1>4. SealsAreKept'
  BY <1>1, <1>2 DEF FilesInv, SealsAreKept
<1> QED
  BY <1>3, <1>4 DEF FilesInv

(* A document that replaces one and keeps its hash leaves the seals.           *)
LEMMA PutKeeps ==
  ASSUME FilesInv, NEW place \in DOMAIN files, NEW new, Put(place, new), IsRead(new), UNCHANGED <<hashed, sealed>>,
         DOMAIN new = DOMAIN files[place],
         \A key \in DOMAIN new \ {"extensions", "integrity"} : new[key] = files[place][key],
         "integrity" \in DOMAIN new => new.integrity.canonical_hash = files[place].integrity.canonical_hash
  PROVE  FilesInv'
<1>1. /\ DOMAIN files' = DOMAIN files /\ files'[place] = new
      /\ \A p \in DOMAIN files : p # place => files'[p] = files[p]
  BY DEF Put, With
<1>2. LiesRightly(new, place)
  BY StillLiesRightly DEF FilesInv, FilesLieRightly
<1>3. FilesLieRightly' /\ HashedStands'
  BY <1>1, <1>2 DEF FilesInv, FilesLieRightly, HashedStands
<1>4. SealsAreKept'
  BY <1>1 DEF FilesInv, SealsAreKept
<1> QED
  BY <1>3, <1>4 DEF FilesInv

LEMMA EditKeeps == ASSUME FilesInv, NEW place \in Places, NEW value \in Values, Edit(place, value) PROVE FilesInv'
<1> DEFINE doc == files[place]
           new == [doc EXCEPT !.extensions = [key \in DOMAIN @ |-> value]]
<1>1. place \in DOMAIN files /\ Put(place, new) /\ UNCHANGED <<hashed, sealed>>
  BY DEF Edit
<1>2. Stands(doc)
  BY <1>1 DEF FilesInv, FilesLieRightly, LiesRightly
<1>3. DOMAIN new = DOMAIN doc /\ \A key \in DOMAIN new \ {"extensions"} : new[key] = doc[key]
  OBVIOUS
<1>4. "extensions" \in DOMAIN doc => new.extensions = [key \in DOMAIN doc.extensions |-> value]
  OBVIOUS
<1>5. IsRead(new)
  BY <1>2, <1>3, <1>4, DocumentsAreRead DEF Stands, IsRead
<1> QED
  BY <1>1, <1>3, <1>5, PutKeeps

LEMMA SignKeeps == ASSUME FilesInv, NEW place \in Places, Sign(place) PROVE FilesInv'
<1> DEFINE doc == files[place]
           new == [doc EXCEPT !.integrity.signatures = {{"signer"} \cup UNION @}]
<1>1. place \in DOMAIN files /\ Put(place, new) /\ UNCHANGED <<hashed, sealed>> /\ "integrity" \in DOMAIN doc
  BY DEF Sign
<1>2. Stands(doc)
  BY <1>1 DEF FilesInv, FilesLieRightly, LiesRightly
<1>3. DOMAIN new = DOMAIN doc /\ \A key \in DOMAIN new \ {"integrity"} : new[key] = doc[key]
  OBVIOUS
<1>4. /\ DOMAIN new.integrity = {"canonical_hash", "signatures"}
      /\ new.integrity.canonical_hash = doc.integrity.canonical_hash
  BY <1>1, <1>2 DEF Stands, IsRead
<1>5. IsRead(new)
  BY <1>2, <1>3, <1>4 DEF Stands, IsRead
<1> QED
  BY <1>1, <1>3, <1>4, <1>5, PutKeeps

LEMMA SealKeeps == ASSUME FilesInv, NEW place \in Places, Seal(place) PROVE FilesInv'
<1> DEFINE doc == Sectioned(files[place])
           new == [doc EXCEPT !.integrity.canonical_hash = {Canonical(hashed)}]
<1>1. /\ place \in DOMAIN files /\ files' = With(files, place, new) /\ UNCHANGED hashed
      /\ sealed' = With(sealed, place, hashed) /\ Stands(hashed)
  BY DEF Seal, Put, FilesInv, HashedStands
<1>2. LiesRightly(files[place], place)
  BY <1>1 DEF FilesInv, FilesLieRightly
<1>3. /\ DOMAIN doc = DOMAIN files[place] \cup {"integrity"}
      /\ \A key \in DOMAIN files[place] \ {"integrity"} : doc[key] = files[place][key]
      /\ DOMAIN doc.integrity = {"canonical_hash", "signatures"}
  BY <1>2 DEF Sectioned, LiesRightly, Stands, IsRead
<1>4. /\ DOMAIN new = DOMAIN doc /\ \A key \in DOMAIN new \ {"integrity"} : new[key] = doc[key]
      /\ DOMAIN new.integrity = {"canonical_hash", "signatures"}
      /\ new.integrity.canonical_hash = {Canonical(hashed)}
  BY <1>3
<1> HIDE DEF doc, new
<1>5. IsRead(new)
  BY <1>2, <1>3, <1>4 DEF LiesRightly, Stands, IsRead
<1>6. LiesRightly(new, place)
  BY <1>2, <1>3, <1>4, <1>5, StillLiesRightly
<1>7. /\ DOMAIN files' = DOMAIN files /\ files'[place] = new
      /\ \A p \in DOMAIN files : p # place => files'[p] = files[p]
  BY <1>1 DEF With
<1>8. FilesLieRightly' /\ HashedStands'
  BY <1>1, <1>6, <1>7 DEF FilesInv, FilesLieRightly, HashedStands
<1>9. SealsAreKept'
  <2>1. /\ DOMAIN sealed' = DOMAIN sealed \cup {place} /\ sealed'[place] = hashed
        /\ \A p \in DOMAIN sealed : p # place => sealed'[p] = sealed[p]
    BY <1>1 DEF With
  <2> QED
    BY <1>1, <1>3, <1>4, <1>7, <2>1 DEF FilesInv, SealsAreKept
<1> QED
  BY <1>8, <1>9 DEF FilesInv

LEMMA FilesStep == ASSUME FilesInv, [Next]_vars PROVE FilesInv'
<1>1. CASE Committing
  BY <1>1, WriteKeeps DEF Committing
<1>2. CASE Sealing
  <2>1. ASSUME NEW place \in Places, Hash(place) PROVE FilesInv'
    BY <2>1 DEF Hash, FilesInv, FilesLieRightly, HashedStands, SealsAreKept, LiesRightly
  <2> QED
    BY <1>2, <2>1, EditKeeps, SealKeeps, SignKeeps DEF Sealing
<1>3. CASE UNCHANGED <<files, hashed, sealed>>
  BY <1>3 DEF FilesInv, FilesLieRightly, HashedStands, SealsAreKept
<1>4. Committing \/ Sealing \/ UNCHANGED <<files, hashed, sealed>>
  <2>1. Remembering => UNCHANGED committed
    BY DEF Remembering, Remember, Note, Archive, Shelve, Recall
  <2>2. Follow => UNCHANGED committed
    BY DEF Follow, Push, Close, Reopen, Merge, Revert, Review, Live, FetchPr, FetchReview, FetchRevert,
           Quarantine, CallStale, Fetched, Collect, Digest
  <2>3. Reading \/ Screening => UNCHANGED committed
    BY DEF Reading, ReadText, Screening, Report, SetRuntime, SetRate, Screen
  <2>4. Rehearsing => UNCHANGED <<files, hashed, sealed>>
    BY DEF Rehearsing, Rehearse
  <2> QED
    BY <2>1, <2>2, <2>3, <2>4 DEF Next, vars, committed
<1> QED
  BY <1>1, <1>2, <1>3, <1>4

LEMMA FilesAlways == Spec => []FilesInv
<1>1. Init => FilesInv
  BY DEF Init, FilesInv, FilesLieRightly, HashedStands, SealsAreKept
<1>2. FilesInv /\ [Next]_vars => FilesInv'
  BY FilesStep
<1> QED
  BY <1>1, <1>2, PTL DEF Spec

(* SealsTellTheTruth: what the kernel says of a seal (hash.rs) tells whether   *)
(* the document is still what was hashed, whatever edits, seals and signatures *)
(* came since and whichever document the hash was taken of.                    *)
THEOREM SealsAlwaysTell == Spec => []SealsTellTheTruth
<1>1. FilesInv => SealsTellTheTruth
  <2> SUFFICES ASSUME FilesInv, NEW place \in DOMAIN sealed
               PROVE  VerifyIntegrity(files[place]) = "valid" <=> Content(files[place]) = Content(sealed[place])
    BY DEF SealsTellTheTruth
  <2>1. Stands(files[place]) /\ Stands(sealed[place])
    BY DEF FilesInv, FilesLieRightly, LiesRightly, SealsAreKept
  <2>2. VerifyIntegrity(files[place]) = "valid" <=> Canonical(sealed[place]) = Canonical(files[place])
    BY DEF FilesInv, SealsAreKept, VerifyIntegrity
  <2> QED
    BY <2>1, <2>2, CanonicalTells
<1> QED
  BY <1>1, FilesAlways, PTL

(* What a shadow run refers to was where suites and results lie.               *)
ShadowInv ==
  shadow # None /\ shadow.status = "ready" =>
    /\ shadow.suite.dirs = SuiteDirectories /\ shadow.suite.name = shadow.suite.stem
    /\ shadow.baseline.dirs = ResultDirectories /\ shadow.baseline.name = shadow.baseline.stem

LEMMA ShadowStep == ASSUME ShadowInv, [Next]_vars PROVE ShadowInv'
<1>1. CASE Rehearsing
  BY <1>1 DEF Rehearsing, Rehearse, ShadowInv, RunShadow, RefsAreValid
<1>2. CASE UNCHANGED shadow
  BY <1>2 DEF ShadowInv
<1>3. Rehearsing \/ UNCHANGED shadow
  <2>1. Remembering => UNCHANGED committed
    BY DEF Remembering, Remember, Note, Archive, Shelve, Recall
  <2>2. Follow => UNCHANGED committed
    BY DEF Follow, Push, Close, Reopen, Merge, Revert, Review, Live, FetchPr, FetchReview, FetchRevert,
           Quarantine, CallStale, Fetched, Collect, Digest
  <2>3. Reading \/ Screening => UNCHANGED committed
    BY DEF Reading, ReadText, Screening, Report, SetRuntime, SetRate, Screen
  <2>4. Committing \/ Sealing => UNCHANGED shadow
    BY DEF Committing, Write, Sealing, Edit, Hash, Seal, Sign, Put
  <2> QED
    BY <2>1, <2>2, <2>3, <2>4 DEF Next, vars, committed
<1> QED
  BY <1>1, <1>2, <1>3

(* ShadowRunsNameWhatTheKernelReads: where a shadow run is ready (shadow-run.ts)*)
(* the kernel (validate.rs) and the suite's validator (eval-suite.ts) have     *)
(* accepted under its references what it takes them for.                       *)
THEOREM ShadowRunsAreOfWhatIsRead == Spec => []ShadowRunsNameWhatTheKernelReads
<1>1. Init => ShadowInv
  BY DEF Init, ShadowInv
<1>2. ShadowInv /\ [Next]_vars => ShadowInv'
  BY ShadowStep
<1>3. FilesInv /\ ShadowInv => ShadowRunsNameWhatTheKernelReads
  BY DEF FilesInv, FilesLieRightly, LiesRightly, IsSuiteAt, IsResultAt, ShadowInv, ShadowRunsNameWhatTheKernelReads
<1> QED
  BY <1>1, <1>2, <1>3, FilesAlways, PTL DEF Spec

(***************************************************************************)
(* Duplicate keys                                                          *)
(***************************************************************************)
(* A set of natural numbers that is not empty has a least one.                 *)
LEMMA LeastOf ==
  ASSUME NEW T \in SUBSET Nat, T # {}
  PROVE  \E n \in T : \A k \in T : n <= k
<1> DEFINE R == {ss \in Nat \X Nat : ss[1] < ss[2]}
<1>1. IsWellFoundedOn(R, Nat)
  BY NatLessThanWellFounded, Zenon DEF OpToRel
<1> HIDE DEF R
<1>2. PICK n \in T : \A k \in T : ~(<<k, n>> \in R)
  BY <1>1, WFMin
<1>3. \A k \in T : ~(k < n)
  BY <1>2 DEF R
<1> QED
  BY <1>3

(* The scanner has a state after each line, computed from the one before.      *)
Start == [frames |-> [i \in {} |-> {}], duplicate |-> FALSE]
LEMMA ScansAre ==
  ASSUME NEW lines, Len(lines) \in Nat
  PROVE  Scans(lines) =
           [n \in 0..Len(lines) |-> IF n = 0 THEN Start ELSE ScanLine(Scans(lines)[n - 1], lines[n])]
<1> DEFINE Is(f, m) == f = [n \in 0..m |-> IF n = 0 THEN Start ELSE ScanLine(f[n - 1], lines[n])]
           Lacking(m) == ~ \E f : Is(f, m)
           Lengths == {m \in Nat : Lacking(m)}
<1>1. Lengths = {}
  <2> SUFFICES ASSUME Lengths # {} PROVE FALSE
    OBVIOUS
  <2>1. PICK m \in Lengths : \A k \in Lengths : m <= k
    BY LeastOf
  <2>2. m \in Nat /\ m # 0
    <3> DEFINE first == [n \in 0..0 |-> Start]
    <3>1. Is(first, 0)
      OBVIOUS
    <3> QED
      BY <3>1
  <2>3. m - 1 \in Nat /\ m - 1 \notin Lengths
    <3> HIDE DEF Lengths
    <3> QED
      BY <2>1, <2>2
  <2>4. PICK f : Is(f, m - 1)
    BY <2>3
  <2>5. \A n \in 0..(m - 1) : f[n] = IF n = 0 THEN Start ELSE ScanLine(f[n - 1], lines[n])
    BY <2>4
  <2> DEFINE g == [n \in 0..m |-> IF n = m THEN ScanLine(f[m - 1], lines[m]) ELSE f[n]]
  <2>6. \A n \in 0..m : g[n] = IF n = 0 THEN Start ELSE ScanLine(g[n - 1], lines[n])
    <3> TAKE n \in 0..m
    <3>1. CASE n = m
      BY <3>1, <2>2
    <3>2. CASE n # m
      BY <3>2, <2>2, <2>5
    <3> QED
      BY <3>1, <3>2
  <2>7. Is(g, m)
    BY <2>6
  <2> QED
    BY <2>7, <2>1
<1>2. PICK f : Is(f, Len(lines))
  BY <1>1
<1>3. Scans(lines) = CHOOSE any : Is(any, Len(lines))
  BY DEF Scans, Start
<1> HIDE DEF Is
<1>4. Is(Scans(lines), Len(lines))
  BY <1>2, <1>3
<1> QED
  BY <1>4 DEF Is

(* A line as the scanner sees it, what parts two of a column for it, the keys  *)
(* that are open in a column after a line, and the duplicates up to one.       *)
IsLine(line) ==
  /\ line.indent \in Nat /\ line.column \in Nat /\ line.dash \in ItemDashes \cup {"none", "alone"}
  /\ line.key = {} \/ \E key \in line.key : line.key = {key}
  /\ line.dash = "none" => line.column = line.indent
  /\ line.dash = "alone" => line.key = {}
Separates(line, column) == line.dash # "alone" /\ Parts(line, column)
OpenKey(lines, n, column, key) ==
  \E i \in 1..n :
    /\ KeyRead(lines[i]) = {key} /\ FrameOf(lines[i]) = column
    /\ \A k \in i + 1..n : ~Separates(lines[k], column)
Repeats(lines, i, j) ==
  /\ KeyRead(lines[i]) # {} /\ KeyRead(lines[i]) = KeyRead(lines[j])
  /\ FrameOf(lines[i]) = FrameOf(lines[j]) /\ lines[j].dash = "none"
  /\ \A k \in i + 1..j - 1 : ~Separates(lines[k], FrameOf(lines[j]))
Repeated(lines, n) == \E j \in 1..n : \E i \in 1..j - 1 : Repeats(lines, i, j)
KeysAt(frames, column) == IF column \in DOMAIN frames THEN frames[column] ELSE {}

(* What one line does to the frames.                                           *)
Advances(F, D, line, new) ==
  /\ new = [frames |-> new.frames, duplicate |-> new.duplicate]
  /\ DOMAIN new.frames \subseteq Nat /\ new.duplicate \in BOOLEAN
  /\ \A c \in Nat : \A key :
       key \in KeysAt(new.frames, c) <=>
         \/ key \in KeysAt(F, c) /\ ~Separates(line, c)
         \/ KeyRead(line) = {key} /\ FrameOf(line) = c
  /\ new.duplicate <=>
       D \/ (line.dash = "none" /\ \E key : KeyRead(line) = {key} /\ key \in KeysAt(F, FrameOf(line)))

(* Each line advances the scanner that way.                                    *)
LEMMA LineAdvances ==
  ASSUME NEW F, DOMAIN F \subseteq Nat, NEW D \in BOOLEAN, NEW line, IsLine(line)
  PROVE  Advances(F, D, line, ScanLine([frames |-> F, duplicate |-> D], line))
<1> DEFINE scan == [frames |-> F, duplicate |-> D]
           new == ScanLine(scan, line)
<1>0. KeyRead(line) = {} \/ \E x : KeyRead(line) = {x}
  BY DEF KeyRead, IsLine
<1>1. ASSUME NEW G, DOMAIN G \subseteq Nat, NEW c \in DOMAIN G, NEW keys
      PROVE  WithKey([scan EXCEPT !.frames = G], c, keys) =
               [frames |-> [G EXCEPT ![c] = @ \cup keys],
                duplicate |-> D \/ (keys # {} /\ keys \subseteq G[c])]
  BY DEF WithKey
<1>2. CASE line.dash \in ItemDashes
  <2> DEFINE c == line.indent + 2
             kept == KeepUpTo(F, line.indent + 1)
             G == Opened(kept, c)
  <2>1. DOMAIN kept = {j \in DOMAIN F : j <= line.indent + 1} /\ \A j \in DOMAIN kept : kept[j] = F[j]
    BY DEF KeepUpTo
  <2>2. DOMAIN G = DOMAIN kept \cup {c} /\ G[c] = {} /\ \A j \in DOMAIN kept : j # c => G[j] = kept[j]
    BY DEF Opened
  <2>3. DOMAIN G \subseteq Nat /\ c \in DOMAIN G /\ c \in Nat
    BY <2>1, <2>2 DEF IsLine
  <2>4. new = WithKey([scan EXCEPT !.frames = G], c, KeyRead(line))
    BY <1>2 DEF ScanLine, FrameOf
  <2> HIDE DEF G, kept
  <2>5. new = [frames |-> [G EXCEPT ![c] = KeyRead(line)], duplicate |-> D]
    BY <1>1, <2>2, <2>3, <2>4
  <2>6. FrameOf(line) = c /\ \A k \in Nat : Separates(line, k) <=> c <= k
    BY <1>2 DEF FrameOf, ItemDashes, Separates, Parts
  <2>7. ASSUME NEW k \in Nat, NEW key
        PROVE  key \in KeysAt(new.frames, k) <=>
                 \/ key \in KeysAt(F, k) /\ ~Separates(line, k)
                 \/ KeyRead(line) = {key} /\ FrameOf(line) = k
    <3>1. CASE k = c
      BY <1>0, <3>1, <2>3, <2>5, <2>6 DEF KeysAt
    <3>2. CASE k # c
      <4>1. k \in DOMAIN G <=> k \in DOMAIN F /\ k < c
        BY <3>2, <2>1, <2>2 DEF IsLine
      <4>2. k \in DOMAIN G => G[k] = F[k]
        BY <3>2, <2>1, <2>2
      <4> QED
        BY <3>2, <4>1, <4>2, <2>3, <2>5, <2>6 DEF KeysAt
    <3> QED
      BY <3>1, <3>2
  <2> HIDE DEF new
  <2> QED
    BY <1>2, <2>3, <2>5, <2>7 DEF new, Advances, ItemDashes
<1>3. CASE line.dash \notin ItemDashes /\ line.key = {}
  <2>1. new = scan
    BY <1>3 DEF ScanLine
  <2>2. \A k \in Nat : ~Separates(line, k)
    BY <1>3 DEF Separates, Parts, IsLine
  <2>3. KeyRead(line) = {}
    BY <1>3 DEF KeyRead
  <2> QED
    BY <1>3, <2>1, <2>2, <2>3 DEF KeysAt, Advances
<1>4. CASE line.dash = "none" /\ line.key # {}
  <2> DEFINE c == line.indent
             kept == KeepUpTo(F, c)
             G == IF c \in DOMAIN kept THEN kept ELSE Opened(kept, c)
  <2>1. DOMAIN kept = {j \in DOMAIN F : j <= c} /\ \A j \in DOMAIN kept : kept[j] = F[j]
    BY DEF KeepUpTo
  <2>2. DOMAIN G = DOMAIN kept \cup {c} /\ \A j \in DOMAIN kept : j # c => G[j] = F[j]
    BY <2>1 DEF Opened
  <2>3. DOMAIN G \subseteq Nat /\ c \in DOMAIN G /\ c \in Nat
    BY <2>1, <2>2 DEF IsLine
  <2>4. G[c] = KeysAt(F, c)
    BY <2>1, <2>3 DEF Opened, KeysAt
  <2>5. new = WithKey([scan EXCEPT !.frames = G], c, line.key)
    BY <1>4 DEF ScanLine, ItemDashes
  <2> HIDE DEF G, kept
  <2>6. new = [frames |-> [G EXCEPT ![c] = KeysAt(F, c) \cup line.key], duplicate |-> D \/ line.key \subseteq KeysAt(F, c)]
    BY <1>1, <1>4, <2>3, <2>4, <2>5
  <2>7. FrameOf(line) = c /\ KeyRead(line) = line.key /\ \A k \in Nat : Separates(line, k) <=> c < k
    BY <1>4 DEF FrameOf, KeyRead, Separates, Parts, ItemDashes
  <2>8. PICK x : line.key = {x}
    BY <1>0, <1>4, <2>7
  <2>9. ASSUME NEW k \in Nat, NEW key
        PROVE  key \in KeysAt(new.frames, k) <=>
                 \/ key \in KeysAt(F, k) /\ ~Separates(line, k)
                 \/ KeyRead(line) = {key} /\ FrameOf(line) = k
    <3>1. CASE k = c
      <4>1. new.frames[c] = KeysAt(F, c) \cup {x} /\ c \in DOMAIN new.frames
        BY <2>3, <2>6, <2>8
      <4> QED
        BY <3>1, <4>1, <2>3, <2>7, <2>8 DEF KeysAt
    <3>2. CASE k # c
      <4>1. k \in DOMAIN G <=> k \in DOMAIN F /\ k < c
        BY <3>2, <2>1, <2>2, <2>3
      <4>2. k \in DOMAIN G => G[k] = F[k]
        BY <3>2, <2>2
      <4> QED
        BY <3>2, <4>1, <4>2, <2>3, <2>6, <2>7 DEF KeysAt
    <3> QED
      BY <3>1, <3>2
  <2> HIDE DEF new
  <2>10. new.duplicate <=> D \/ \E key : KeyRead(line) = {key} /\ key \in KeysAt(F, FrameOf(line))
    BY <2>6, <2>7, <2>8
  <2>11. new = [frames |-> new.frames, duplicate |-> new.duplicate]
    BY <2>6
  <2>12. DOMAIN new.frames \subseteq Nat
    BY <2>3, <2>6
  <2>13. new.duplicate \in BOOLEAN
    BY <2>6
  <2> QED
    BY <1>4, <2>9, <2>10, <2>11, <2>12, <2>13 DEF new, Advances
<1> QED
  BY <1>2, <1>3, <1>4 DEF IsLine, ItemDashes

(* What one line does to the keys that are open and to the duplicates.         *)
LEMMA OpenAfterLine ==
  ASSUME NEW lines, NEW n \in Nat \ {0}, NEW c, NEW key
  PROVE  OpenKey(lines, n, c, key) <=>
           \/ OpenKey(lines, n - 1, c, key) /\ ~Separates(lines[n], c)
           \/ KeyRead(lines[n]) = {key} /\ FrameOf(lines[n]) = c
<1>1. ASSUME OpenKey(lines, n, c, key)
      PROVE  \/ OpenKey(lines, n - 1, c, key) /\ ~Separates(lines[n], c)
             \/ KeyRead(lines[n]) = {key} /\ FrameOf(lines[n]) = c
  <2>1. PICK i \in 1..n : /\ KeyRead(lines[i]) = {key} /\ FrameOf(lines[i]) = c
                          /\ \A k \in i + 1..n : ~Separates(lines[k], c)
    BY <1>1 DEF OpenKey
  <2>2. CASE i = n
    BY <2>1, <2>2
  <2>3. CASE i # n
    <3>1. i \in 1..n - 1 /\ n \in i + 1..n /\ \A k \in i + 1..n - 1 : k \in i + 1..n
      BY <2>3
    <3> QED
      BY <2>1, <3>1 DEF OpenKey
  <2> QED
    BY <2>2, <2>3
<1>2. ASSUME OpenKey(lines, n - 1, c, key), ~Separates(lines[n], c) PROVE OpenKey(lines, n, c, key)
  <2>1. PICK i \in 1..n - 1 : /\ KeyRead(lines[i]) = {key} /\ FrameOf(lines[i]) = c
                              /\ \A k \in i + 1..n - 1 : ~Separates(lines[k], c)
    BY <1>2 DEF OpenKey
  <2>2. i \in 1..n /\ \A k \in i + 1..n : k \in i + 1..n - 1 \/ k = n
    OBVIOUS
  <2> QED
    BY <1>2, <2>1, <2>2 DEF OpenKey
<1>3. ASSUME KeyRead(lines[n]) = {key}, FrameOf(lines[n]) = c PROVE OpenKey(lines, n, c, key)
  <2>1. n \in 1..n /\ n + 1..n = {}
    OBVIOUS
  <2> QED
    BY <1>3, <2>1 DEF OpenKey
<1> QED
  BY <1>1, <1>2, <1>3

LEMMA RepeatedAfterLine ==
  ASSUME NEW lines, NEW n \in Nat \ {0}, IsLine(lines[n])
  PROVE  Repeated(lines, n) <=>
           \/ Repeated(lines, n - 1)
           \/ lines[n].dash = "none" /\ \E key : KeyRead(lines[n]) = {key} /\ OpenKey(lines, n - 1, FrameOf(lines[n]), key)
<1>1. Repeated(lines, n) <=> Repeated(lines, n - 1) \/ \E i \in 1..n - 1 : Repeats(lines, i, n)
  <2>1. 1..n = 1..n - 1 \cup {n}
    OBVIOUS
  <2> QED
    BY <2>1 DEF Repeated
<1> QED
  BY <1>1 DEF Repeats, OpenKey, IsLine, KeyRead

(* After every line the frames hold the keys that are open, and the scanner has*)
(* found the duplicates there are: there is no first line after which not.     *)
LEMMA ScannerKnows ==
  ASSUME NEW lines, Len(lines) \in Nat, \A i \in 1..Len(lines) : IsLine(lines[i])
  PROVE  HasDuplicates(lines) <=> Repeated(lines, Len(lines))
<1> DEFINE scan == Scans(lines)
           Knows(n) ==
             /\ scan[n] = [frames |-> scan[n].frames, duplicate |-> scan[n].duplicate]
             /\ DOMAIN scan[n].frames \subseteq Nat /\ scan[n].duplicate \in BOOLEAN
             /\ \A c \in Nat : \A key : key \in KeysAt(scan[n].frames, c) <=> OpenKey(lines, n, c, key)
             /\ scan[n].duplicate <=> Repeated(lines, n)
           Ignorant == {n \in 0..Len(lines) : ~Knows(n)}
<1>1. \A n \in 0..Len(lines) : scan[n] = IF n = 0 THEN Start ELSE ScanLine(scan[n - 1], lines[n])
  BY ScansAre
<1> HIDE DEF scan
<1>2. Ignorant = {}
  <2> SUFFICES ASSUME Ignorant # {} PROVE FALSE
    OBVIOUS
  <2>1. PICK n \in Ignorant : \A k \in Ignorant : n <= k
    <3>1. Ignorant \in SUBSET Nat
      OBVIOUS
    <3> HIDE DEF Ignorant
    <3> QED
      BY <3>1, LeastOf
  <2>2. n \in 0..Len(lines)
    OBVIOUS
  <2>3. CASE n = 0
    <3>1. scan[0] = Start
      BY <1>1
    <3>2. \A c, key : key \notin KeysAt(Start.frames, c) /\ ~OpenKey(lines, 0, c, key)
      BY DEF Start, KeysAt, OpenKey
    <3>3. ~Repeated(lines, 0)
      BY DEF Repeated
    <3>4. Start = [frames |-> Start.frames, duplicate |-> Start.duplicate] /\ DOMAIN Start.frames = {}
          /\ Start.duplicate = FALSE
      BY DEF Start
    <3>5. Knows(0)
      BY <3>1, <3>2, <3>3, <3>4
    <3> QED
      BY <2>3, <3>5
  <2>4. CASE n # 0
    <3>1. n \in Nat \ {0} /\ n - 1 \in 0..Len(lines) /\ n - 1 \notin Ignorant /\ n \in 1..Len(lines)
      BY <2>1, <2>2, <2>4
    <3>2. Knows(n - 1)
      BY <3>1
    <3> DEFINE F == scan[n - 1].frames  D == scan[n - 1].duplicate
    <3>3. scan[n] = ScanLine([frames |-> F, duplicate |-> D], lines[n]) /\ IsLine(lines[n])
      BY <1>1, <2>2, <2>4, <3>1, <3>2
    <3>4. DOMAIN F \subseteq Nat /\ D \in BOOLEAN
      BY <3>2
    <3> HIDE DEF F, D
    <3>5. Advances(F, D, lines[n], scan[n])
      BY <3>3, <3>4, LineAdvances
    <3>6. \A c \in Nat : \A key : key \in KeysAt(F, c) <=> OpenKey(lines, n - 1, c, key)
      BY <3>2 DEF F
    <3>7. D <=> Repeated(lines, n - 1)
      BY <3>2 DEF D
    <3>8. FrameOf(lines[n]) \in Nat
      BY <3>3 DEF IsLine, FrameOf
    <3>9. \A c \in Nat : \A key : key \in KeysAt(scan[n].frames, c) <=> OpenKey(lines, n, c, key)
      BY <3>1, <3>5, <3>6, OpenAfterLine DEF Advances
    <3>10. scan[n].duplicate <=> Repeated(lines, n)
      BY <3>1, <3>3, <3>5, <3>6, <3>7, <3>8, RepeatedAfterLine DEF Advances
    <3>11. Knows(n)
      BY <3>5, <3>9, <3>10 DEF Advances
    <3> QED
      BY <3>11, <2>1
  <2> QED
    BY <2>3, <2>4
<1>3. Knows(Len(lines))
  <2>1. Len(lines) \in 0..Len(lines)
    OBVIOUS
  <2> QED
    BY <1>2, <2>1
<1> QED
  BY <1>3 DEF HasDuplicates, scan

(* A text was read line by line.                                               *)
TextInv ==
  text # None =>
    /\ Len(text.lines) \in Nat /\ DOMAIN text.lines = 1..Len(text.lines)
    /\ \A i \in 1..Len(text.lines) : IsLine(text.lines[i])
    /\ text.duplicate = HasDuplicates(text.lines)

LEMMA TextStep == ASSUME TextInv, [Next]_vars PROVE TextInv'
<1>1. CASE Reading
  <2>1. PICK n \in 0..MaxLines : \E lines \in [1..n -> SourceLines] : ReadText(lines)
    BY <1>1 DEF Reading
  <2>2. PICK lines \in [1..n -> SourceLines] : ReadText(lines)
    BY <2>1
  <2>3. n \in Nat /\ Len(lines) = n
    BY RecordsAreBounded
  <2>4. \A line \in SourceLines : IsLine(line)
    BY LinesAreLines DEF IsLine
  <2>5. text' = [lines |-> lines, duplicate |-> HasDuplicates(lines)]
    BY <2>2 DEF ReadText
  <2> QED
    BY <2>3, <2>4, <2>5 DEF TextInv
<1>2. CASE UNCHANGED text
  BY <1>2 DEF TextInv
<1>3. Reading \/ UNCHANGED text
  <2>1. Remembering => UNCHANGED text
    BY DEF Remembering, Remember, Note, Archive, Shelve, Recall
  <2>2. Follow => UNCHANGED text
    BY DEF Follow, Push, Close, Reopen, Merge, Revert, Review, Live, FetchPr, FetchReview, FetchRevert,
           Quarantine, CallStale, Fetched, Collect, Digest
  <2>3. Screening => UNCHANGED text
    BY DEF Screening, Report, SetRuntime, SetRate, Screen
  <2>4. Committing \/ Sealing \/ Rehearsing => UNCHANGED text
    BY DEF Committing, Write, Sealing, Edit, Hash, Seal, Sign, Put, Rehearsing, Rehearse
  <2> QED
    BY <2>1, <2>2, <2>3, <2>4 DEF Next, vars
<1> QED
  BY <1>1, <1>2, <1>3

(* DuplicatesAreFound: in texts of any length, no two equal keys of one mapping *)
(* pass the scanner (source.rs) but where the first stands behind more than one*)
(* space after its dash or behind a second dash, and it refuses no other texts *)
(* than those with such a key or a dash alone on its line.                     *)
THEOREM DuplicatesAreAlwaysFound == Spec => []DuplicatesAreFound
<1>1. Init => TextInv
  BY DEF Init, TextInv
<1>2. TextInv /\ [Next]_vars => TextInv'
  BY TextStep
<1>3. TextInv => DuplicatesAreFound
  <2> SUFFICES ASSUME TextInv, text # None PROVE DuplicatesAreFound
    BY DEF DuplicatesAreFound
  <2> DEFINE lines == text.lines
  <2>1. DOMAIN lines = 1..Len(lines) /\ Len(lines) \in Nat /\ \A i \in DOMAIN lines : IsLine(lines[i])
    BY DEF TextInv
  <2>2. text.duplicate <=> Repeated(lines, Len(lines))
    BY ScannerKnows DEF TextInv
  <2>3. \A i \in DOMAIN lines :
          IsPlaced(lines[i]) => KeyRead(lines[i]) = lines[i].key /\ FrameOf(lines[i]) = lines[i].column
    BY <2>1 DEF IsPlaced, KeyRead, FrameOf, IsLine, ItemDashes
  <2>4. ASSUME NEW i \in DOMAIN lines, NEW j \in DOMAIN lines, ShareMapping(lines, i, j), IsPlaced(lines[i])
        PROVE  text.duplicate
    <3>1. IsPlaced(lines[j])
      BY <2>4 DEF ShareMapping, IsPlaced
    <3>2. Repeats(lines, i, j) /\ i < j
      BY <2>3, <2>4, <3>1 DEF ShareMapping, Repeats, Separates
    <3>3. j \in 1..Len(lines) /\ i \in 1..j - 1
      BY <3>2, <2>1
    <3> QED
      BY <2>2, <3>2, <3>3 DEF Repeated
  <2>5. ASSUME text.duplicate, \A k \in DOMAIN lines : IsPlaced(lines[k])
        PROVE  \E i, j \in DOMAIN lines : ShareMapping(lines, i, j)
    <3>1. PICK j \in 1..Len(lines) : \E i \in 1..j - 1 : Repeats(lines, i, j)
      BY <2>2, <2>5 DEF Repeated
    <3>2. PICK i \in 1..j - 1 : Repeats(lines, i, j)
      BY <3>1
    <3>3. i \in DOMAIN lines /\ j \in DOMAIN lines /\ i < j /\ \A k \in i + 1..j - 1 : k \in DOMAIN lines
      BY <2>1
    <3>4. \A k \in DOMAIN lines : lines[k].dash # "alone"
      BY <2>5 DEF IsPlaced
    <3>5. ShareMapping(lines, i, j)
      BY <2>3, <2>5, <3>2, <3>3, <3>4 DEF ShareMapping, Repeats, Separates
    <3> QED
      BY <3>3, <3>5
  <2> QED
    BY <2>4, <2>5 DEF DuplicatesAreFound
<1> QED
  BY <1>1, <1>2, <1>3, PTL DEF Spec

(***************************************************************************)
(* Contexts                                                                *)
(***************************************************************************)
(* What is computed step by step has a function of its steps.                  *)
Recurses(f, N, base, step) ==
  f = [n \in 0..N |-> IF n = 0 THEN base ELSE step[<<f[n - 1], n>>]]
LEMMA RecursionExists ==
  ASSUME NEW N \in Nat, NEW A, NEW base \in A, NEW step \in [A \X (1..N) -> A]
  PROVE  \E f \in [0..N -> A] : Recurses(f, N, base, step)
<1> DEFINE Lacking(m) == ~ \E f \in [0..m -> A] : Recurses(f, m, base, step)
           Lengths == {m \in Nat : m <= N /\ Lacking(m)}
<1>1. Lengths = {}
  <2> SUFFICES ASSUME Lengths # {} PROVE FALSE
    OBVIOUS
  <2>1. PICK m \in Lengths : \A k \in Lengths : m <= k
    BY LeastOf
  <2>2. m \in Nat /\ m # 0 /\ m <= N
    <3> DEFINE first == [n \in 0..0 |-> base]
    <3>1. first \in [0..0 -> A] /\ Recurses(first, 0, base, step)
      BY DEF Recurses
    <3> QED
      BY <3>1
  <2>3. m - 1 \in Nat /\ m - 1 <= N /\ m - 1 \notin Lengths
    <3> HIDE DEF Lengths
    <3> QED
      BY <2>1, <2>2
  <2>4. PICK f \in [0..(m - 1) -> A] : Recurses(f, m - 1, base, step)
    BY <2>3
  <2>5. \A n \in 0..(m - 1) : f[n] = IF n = 0 THEN base ELSE step[<<f[n - 1], n>>]
    BY <2>4 DEF Recurses
  <2> DEFINE g == [n \in 0..m |-> IF n = m THEN step[<<f[m - 1], m>>] ELSE f[n]]
  <2>6. step[<<f[m - 1], m>>] \in A
    BY <2>2
  <2>7. g \in [0..m -> A]
    BY <2>2, <2>6
  <2>8. \A n \in 0..m : g[n] = IF n = 0 THEN base ELSE step[<<g[n - 1], n>>]
    <3> TAKE n \in 0..m
    <3>0. (n = m => g[n] = step[<<f[m - 1], m>>]) /\ (n # m => g[n] = f[n]) /\ (n # 0 => g[n - 1] = f[n - 1])
      BY <2>2
    <3> HIDE DEF g
    <3>1. CASE n = m
      BY <3>0, <3>1, <2>2
    <3>2. CASE n # m
      <4>1. n \in 0..(m - 1)
        BY <3>2, <2>2
      <4>2. f[n] = IF n = 0 THEN base ELSE step[<<f[n - 1], n>>]
        BY <4>1, <2>5
      <4> QED
        BY <3>0, <3>2, <4>2
    <3> QED
      BY <3>1, <3>2
  <2>9. Recurses(g, m, base, step)
    BY <2>8 DEF Recurses
  <2> QED
    BY <2>7, <2>9, <2>1
<1> QED
  BY <1>1

(* In a strict total order each place is taken, by one element.                *)
LEMMA PlacesAreTaken ==
  ASSUME NEW S, IsFiniteSet(S), NEW ahead \in [S -> SUBSET S],
         \A i \in S : i \notin ahead[i],
         \A i, j \in S : i # j => i \in ahead[j] \/ j \in ahead[i],
         \A i, j \in S : i \in ahead[j] => ahead[i] \subseteq ahead[j]
  PROVE  /\ \A n \in 1..Cardinality(S) : \E i \in S : Cardinality(ahead[i]) = n - 1
         /\ \A i \in S : Cardinality(ahead[i]) \in Nat /\ Cardinality(ahead[i]) + 1 \in 1..Cardinality(S)
         /\ \A i, j \in S : Cardinality(ahead[i]) = Cardinality(ahead[j]) => i = j
         /\ \A i, j \in S : Cardinality(ahead[i]) < Cardinality(ahead[j]) => i \in ahead[j]
<1> DEFINE C == Cardinality(S)
           place == [i \in S |-> Cardinality(ahead[i]) + 1]
<1>0. C \in Nat
  BY FS_CardinalityType
<1>1. \A i \in S : IsFiniteSet(ahead[i]) /\ Cardinality(ahead[i]) \in Nat
  BY FS_Subset, FS_CardinalityType
<1>2. ASSUME NEW i \in S PROVE Cardinality(ahead[i]) <= C - 1
  <2>1. IsFiniteSet(S \ {i}) /\ Cardinality(S \ {i}) = C - 1
    BY FS_RemoveElement
  <2>2. ahead[i] \in SUBSET (S \ {i})
    OBVIOUS
  <2> QED
    BY <2>1, <2>2, FS_Subset
<1>3. ASSUME NEW i \in S, NEW j \in S, i \in ahead[j] PROVE Cardinality(ahead[i]) < Cardinality(ahead[j])
  <2>1. ahead[i] \in SUBSET ahead[j] /\ ahead[i] # ahead[j]
    BY <1>3
  <2>2. Cardinality(ahead[i]) <= Cardinality(ahead[j]) /\ Cardinality(ahead[i]) # Cardinality(ahead[j])
    BY <2>1, <1>1, FS_Subset
  <2> QED
    BY <2>2, <1>1
<1>4. \A i, j \in S : Cardinality(ahead[i]) = Cardinality(ahead[j]) => i = j
  BY <1>1, <1>3
<1>5. \A i, j \in S : Cardinality(ahead[i]) < Cardinality(ahead[j]) => i \in ahead[j]
  BY <1>1, <1>3
<1>6. \A i \in S : Cardinality(ahead[i]) + 1 \in 1..C
  BY <1>0, <1>1, <1>2
<1>7. \A n \in 1..C : \E i \in S : Cardinality(ahead[i]) = n - 1
  <2>1. place \in [S -> 1..C]
    BY <1>6
  <2>2. \A i, j \in S : place[i] = place[j] => i = j
    BY <1>1, <1>4
  <2>3. place \in Injection(S, 1..C)
    BY <2>1, <2>2 DEF Injection, IsInjective
  <2>4. IsFiniteSet(1..C) /\ Cardinality(1..C) = C
    BY <1>0, FS_Interval
  <2> HIDE DEF place
  <2>5. place \in Surjection(S, 1..C)
    BY <2>3, <2>4, FS_Injection
  <2>6. \A n \in 1..C : \E i \in S : place[i] = n
    BY <2>5 DEF Surjection
  <2> QED
    BY <2>6, <1>1 DEF place
<1> QED
  BY <1>1, <1>4, <1>5, <1>6, <1>7

(* What a retrieval handles: a summary, and a name of a kind.                  *)
Items ==
  [kind : {"archive_record", "episode_digest"}, id : {<<a>> : a \in Nat}, text : Texts]
    \cup [kind : {"working_memory_fact"}, id : {<<a, b>> : a \in Nat, b \in Nat}, text : Texts]
NamesDiffer(items) == \A i, j \in 1..Len(items) : Name(items[i]) = Name(items[j]) => i = j

LEMMA ItemsAre ==
  ASSUME NEW x \in Items
  PROVE  /\ x.text \in Texts /\ x.kind \in {"archive_record", "episode_digest", "working_memory_fact"}
         /\ KindOrder(x.kind) \in Nat
         /\ x.kind # "working_memory_fact" => \E a \in Nat : x.id = <<a>>
         /\ x.kind = "working_memory_fact" => \E a, b \in Nat : x.id = <<a, b>>
         /\ Cost[x.text] \in Nat
  BY TextsAreCosted DEF Items, KindOrder

(* Ids of a kind are ordered.                                                  *)
LEMMA IdsAreOrdered ==
  ASSUME NEW x \in Items, NEW y \in Items, x.kind = y.kind
  PROVE  /\ ~(IdBefore(x.id, y.id) /\ IdBefore(y.id, x.id))
         /\ x.id = y.id \/ IdBefore(x.id, y.id) \/ IdBefore(y.id, x.id)
         /\ \A z \in Items : z.kind = x.kind /\ IdBefore(x.id, y.id) /\ IdBefore(y.id, z.id) => IdBefore(x.id, z.id)
<1>1. CASE x.kind = "working_memory_fact"
  <2> DEFINE Facts == {a \in Items : a.kind = "working_memory_fact"}
  <2>1. ASSUME NEW a \in Facts
        PROVE  a.id = <<a.id[1], a.id[2]>> /\ a.id[1] \in Nat /\ a.id[2] \in Nat /\ Len(a.id) = 2
    BY ItemsAre
  <2>2. \A a, b \in Facts : IdBefore(a.id, b.id) <=>
          a.id[1] < b.id[1] \/ (a.id[1] = b.id[1] /\ a.id[2] < b.id[2])
    BY <2>1 DEF IdBefore
  <2>3. x \in Facts /\ y \in Facts /\ \A a \in Items : a.kind = x.kind => a \in Facts
    BY <1>1
  <2> HIDE DEF Facts
  <2>4. x.id = y.id \/ IdBefore(x.id, y.id) \/ IdBefore(y.id, x.id)
    BY <2>1, <2>2, <2>3
  <2>5. \A a \in Facts : IdBefore(x.id, y.id) /\ IdBefore(y.id, a.id) => IdBefore(x.id, a.id)
    BY <2>1, <2>2, <2>3
  <2>6. ~(IdBefore(x.id, y.id) /\ IdBefore(y.id, x.id))
    BY <2>1, <2>2, <2>3
  <2> QED
    BY <2>3, <2>4, <2>5, <2>6
<1>2. CASE x.kind # "working_memory_fact"
  BY <1>2, ItemsAre DEF IdBefore
<1> QED
  BY <1>1, <1>2
LEMMA NamesAreOrdered ==
  ASSUME NEW x \in Items, NEW y \in Items
  PROVE  /\ ~(NameBefore(x, y) /\ NameBefore(y, x))
         /\ Name(x) # Name(y) => NameBefore(x, y) \/ NameBefore(y, x)
         /\ \A z \in Items : NameBefore(x, y) /\ NameBefore(y, z) => NameBefore(x, z)
<1>1. \A k, l \in {"archive_record", "episode_digest", "working_memory_fact"} : KindOrder(k) = KindOrder(l) => k = l
  BY DEF KindOrder
<1>2. ~(NameBefore(x, y) /\ NameBefore(y, x))
  BY <1>1, ItemsAre, IdsAreOrdered DEF NameBefore
<1>3. Name(x) # Name(y) => NameBefore(x, y) \/ NameBefore(y, x)
  <2>1. CASE x.kind = y.kind
    BY <2>1, IdsAreOrdered DEF NameBefore, Name
  <2>2. CASE x.kind # y.kind
    BY <2>2, <1>1, ItemsAre DEF NameBefore
  <2> QED
    BY <2>1, <2>2
<1>4. ASSUME NEW z \in Items, NameBefore(x, y), NameBefore(y, z) PROVE NameBefore(x, z)
  <2>1. CASE x.kind = y.kind /\ y.kind = z.kind
    BY <2>1, <1>4, IdsAreOrdered, ItemsAre DEF NameBefore
  <2>2. CASE ~(x.kind = y.kind /\ y.kind = z.kind)
    BY <2>2, <1>1, <1>4, ItemsAre DEF NameBefore
  <2> QED
    BY <2>1, <2>2
<1> QED
  BY <1>2, <1>3, <1>4
LEMMA RanksAreOrdered ==
  ASSUME NEW x \in Items, NEW y \in Items, NEW query \in DOMAIN Relevance
  PROVE  /\ ~(RanksAhead(x, y, query) /\ RanksAhead(y, x, query))
         /\ Name(x) # Name(y) => RanksAhead(x, y, query) \/ RanksAhead(y, x, query)
         /\ \A z \in Items : RanksAhead(x, y, query) /\ RanksAhead(y, z, query) => RanksAhead(x, z, query)
<1>1. \A a \in Items : Relevance[query][a.text] \in Nat
  BY ItemsAre, TextsAreCosted
<1>2. ~(RanksAhead(x, y, query) /\ RanksAhead(y, x, query))
  BY <1>1, NamesAreOrdered DEF RanksAhead
<1>3. Name(x) # Name(y) => RanksAhead(x, y, query) \/ RanksAhead(y, x, query)
  BY <1>1, NamesAreOrdered DEF RanksAhead
<1>4. ASSUME NEW z \in Items, RanksAhead(x, y, query), RanksAhead(y, z, query)
      PROVE  RanksAhead(x, z, query)
  BY <1>1, <1>4, NamesAreOrdered DEF RanksAhead
<1> QED
  BY <1>2, <1>3, <1>4

LEMMA RankedAre ==
  ASSUME NEW items \in Seq(Items), NamesDiffer(items), NEW query \in DOMAIN Relevance
  PROVE  LET ranked == RankedFor(items, query) IN
         /\ ranked \in Seq(Items) /\ Len(ranked) = Len(items) /\ NamesDiffer(ranked)
         /\ \A i \in 1..Len(items) : \E n \in 1..Len(items) : ranked[n] = items[i]
         /\ \A m, n \in 1..Len(items) : m < n => RanksAhead(ranked[m], ranked[n], query)
         /\ \A n \in 1..Len(items) : \E i \in 1..Len(items) : ranked[n] = items[i]
<1> DEFINE S == DOMAIN items
           ahead == [i \in S |-> {j \in S : RanksAhead(items[j], items[i], query)}]
           at(n) == CHOOSE i \in S : Cardinality({j \in S : RanksAhead(items[j], items[i], query)}) = n - 1
           ranked == RankedFor(items, query)
<1>1. Len(items) \in Nat /\ S = 1..Len(items) /\ \A i \in S : items[i] \in Items
  BY LenProperties, ElementOfSeq
<1>2. IsFiniteSet(S) /\ Cardinality(S) = Len(items)
  BY <1>1, FS_Interval
<1>3. /\ \A n \in S : \E i \in S : Cardinality(ahead[i]) = n - 1
      /\ \A i \in S : Cardinality(ahead[i]) \in Nat /\ Cardinality(ahead[i]) + 1 \in S
      /\ \A i, j \in S : Cardinality(ahead[i]) = Cardinality(ahead[j]) => i = j
      /\ \A i, j \in S : Cardinality(ahead[i]) < Cardinality(ahead[j]) => i \in ahead[j]
  <2>1. ahead \in [S -> SUBSET S]
    OBVIOUS
  <2>2. \A i \in S : i \notin ahead[i]
    BY <1>1, RanksAreOrdered
  <2>3. \A i, j \in S : i # j => i \in ahead[j] \/ j \in ahead[i]
    BY <1>1, RanksAreOrdered DEF NamesDiffer
  <2>4. \A i, j \in S : i \in ahead[j] => ahead[i] \subseteq ahead[j]
    BY <1>1, RanksAreOrdered
  <2> HIDE DEF ahead
  <2>5. /\ \A n \in 1..Cardinality(S) : \E i \in S : Cardinality(ahead[i]) = n - 1
        /\ \A i \in S : Cardinality(ahead[i]) \in Nat /\ Cardinality(ahead[i]) + 1 \in 1..Cardinality(S)
        /\ \A i, j \in S : Cardinality(ahead[i]) = Cardinality(ahead[j]) => i = j
        /\ \A i, j \in S : Cardinality(ahead[i]) < Cardinality(ahead[j]) => i \in ahead[j]
    BY <1>2, <2>1, <2>2, <2>3, <2>4, PlacesAreTaken
  <2> QED
    BY <1>2, <2>5
<1>4. \A n \in S : at(n) \in S /\ Cardinality(ahead[at(n)]) = n - 1
  <2>1. \A n \in S : \E i \in S : Cardinality({j \in S : RanksAhead(items[j], items[i], query)}) = n - 1
    BY <1>3
  <2> QED
    BY <2>1
<1>5. ranked = [n \in S |-> items[at(n)]]
  BY DEF RankedFor
<1> HIDE DEF S, ahead, at, ranked
<1>6. ranked \in Seq(Items) /\ Len(ranked) = Len(items)
  BY <1>1, <1>4, <1>5
<1>7. \A m, n \in S : at(m) = at(n) => m = n
  <2> SUFFICES ASSUME NEW m \in S, NEW n \in S, at(m) = at(n) PROVE m = n
    OBVIOUS
  <2>1. m \in Int /\ n \in Int
    BY <1>1
  <2>2. Cardinality(ahead[at(m)]) = m - 1 /\ Cardinality(ahead[at(n)]) = n - 1
    BY <1>4
  <2>3. m - 1 = n - 1
    BY <2>2
  <2> QED
    BY <2>1, <2>3
<1>8. NamesDiffer(ranked)
  BY <1>1, <1>4, <1>5, <1>6, <1>7 DEF NamesDiffer
<1>9. \A i \in S : \E n \in S : ranked[n] = items[i]
  <2> TAKE i \in S
  <2> DEFINE n == Cardinality(ahead[i]) + 1
  <2>1. n \in S
    BY <1>3
  <2>2. Cardinality(ahead[at(n)]) = n - 1 /\ at(n) \in S
    BY <2>1, <1>4
  <2>3. Cardinality(ahead[i]) = n - 1
    BY <1>3, <1>1
  <2>4. at(n) = i
    BY <2>2, <2>3, <1>3
  <2> QED
    BY <2>1, <2>4, <1>5
<1>10. \A m, n \in S : m < n => RanksAhead(ranked[m], ranked[n], query)
  <2> SUFFICES ASSUME NEW m \in S, NEW n \in S, m < n PROVE RanksAhead(ranked[m], ranked[n], query)
    OBVIOUS
  <2>1. at(m) \in S /\ at(n) \in S /\ Cardinality(ahead[at(m)]) < Cardinality(ahead[at(n)])
    <3>1. m \in Int /\ n \in Int
      BY <1>1
    <3>2. Cardinality(ahead[at(m)]) = m - 1 /\ Cardinality(ahead[at(n)]) = n - 1 /\ at(m) \in S /\ at(n) \in S
      BY <1>4
    <3> QED
      BY <3>1, <3>2
  <2>2. at(m) \in ahead[at(n)]
    BY <2>1, <1>3
  <2> QED
    BY <2>1, <2>2, <1>5 DEF ahead
<1>11. \A n \in S : \E i \in S : ranked[n] = items[i]
  BY <1>4, <1>5
<1> QED
  BY <1>1, <1>6, <1>8, <1>9, <1>10, <1>11 DEF ranked

(* What 0 is in, and each number up to N if the one before is, all these are in.*)
LEMMA HandedOn ==
  ASSUME NEW N \in Nat, NEW T, 0 \in T, \A n \in 1..N : n - 1 \in T => n \in T
  PROVE  \A n \in 0..N : n \in T
<1> DEFINE Wrong == {n \in 0..N : n \notin T}
<1>1. Wrong = {}
  <2> SUFFICES ASSUME Wrong # {} PROVE FALSE
    OBVIOUS
  <2>1. PICK m \in Wrong : \A k \in Wrong : m <= k
    <3>1. Wrong \in SUBSET Nat
      OBVIOUS
    <3> HIDE DEF Wrong
    <3> QED
      BY <3>1, LeastOf
  <2>2. m \in 1..N
    BY <2>1
  <2>3. m - 1 \in 0..N /\ m - 1 \notin Wrong
    <3>1. m - 1 \in 0..N /\ m \in Nat
      BY <2>2
    <3> HIDE DEF Wrong
    <3> QED
      BY <2>1, <3>1
  <2> QED
    BY <2>1, <2>2, <2>3
<1> QED
  BY <1>1

(* The tokens of a sequence are those of its parts.                            *)
Summed(f, items) == f = [n \in 0..Len(items) |-> IF n = 0 THEN 0 ELSE f[n - 1] + Cost[items[n].text]]
LEMMA TokensAreSummed ==
  ASSUME NEW items \in Seq(Items)
  PROVE  \E f \in [0..Len(items) -> Nat] : Summed(f, items) /\ Tokens(items) = f[Len(items)]
<1> DEFINE N == Len(items)
           step == [x \in Nat \X (1..N) |-> x[1] + Cost[items[x[2]].text]]
<1>1. N \in Nat /\ \A n \in 1..N : items[n] \in Items
  BY LenProperties, ElementOfSeq
<1>2. step \in [Nat \X (1..N) -> Nat]
  BY <1>1, ItemsAre
<1> HIDE DEF step
<1>3. PICK f \in [0..N -> Nat] : Recurses(f, N, 0, step)
  BY <1>1, <1>2, RecursionExists
<1>4. \A n \in 0..N : f[n] = IF n = 0 THEN 0 ELSE step[<<f[n - 1], n>>]
  BY <1>3 DEF Recurses
<1>5. \A n \in 0..N : f[n] = IF n = 0 THEN 0 ELSE f[n - 1] + Cost[items[n].text]
  <2> TAKE n \in 0..N
  <2>1. CASE n = 0
    BY <2>1, <1>4
  <2>2. CASE n # 0
    <3>1. n \in 1..N /\ f[n - 1] \in Nat
      BY <2>2, <1>1
    <3>2. <<f[n - 1], n>> \in Nat \X (1..N)
      BY <3>1
    <3>3. step[<<f[n - 1], n>>] = f[n - 1] + Cost[items[n].text]
      BY <3>2 DEF step
    <3> QED
      BY <2>2, <3>3, <1>4
  <2> QED
    BY <2>1, <2>2
<1>6. Summed(f, items)
  BY <1>5 DEF Summed
<1> DEFINE g == CHOOSE any : Summed(any, items)
<1>7. Summed(g, items)
  BY <1>6
<1>8. Tokens(items) = g[N]
  BY DEF Tokens, Summed
<1> HIDE DEF g
<1>9. g \in [0..N -> Nat]
  <2>1. \A n \in 0..N : g[n] = IF n = 0 THEN 0 ELSE g[n - 1] + Cost[items[n].text]
    BY <1>7 DEF Summed
  <2> DEFINE Typed == {n \in 0..N : g[n] \in Nat}
  <2>2. 0 \in Typed
    BY <1>1, <2>1
  <2>3. \A n \in 1..N : n - 1 \in Typed => n \in Typed
    <3> SUFFICES ASSUME NEW n \in 1..N, n - 1 \in Typed PROVE n \in Typed
      OBVIOUS
    <3>1. n - 1 \in 0..N /\ g[n - 1] \in Nat /\ n # 0 /\ n \in 0..N
      BY <1>1
    <3>2. Cost[items[n].text] \in Nat
      BY <1>1, ItemsAre
    <3>3. g[n] = g[n - 1] + Cost[items[n].text]
      BY <3>1, <2>1
    <3> QED
      BY <3>1, <3>2, <3>3
  <2> HIDE DEF Typed
  <2>4. \A n \in 0..N : n \in Typed
    BY <1>1, <2>2, <2>3, HandedOn
  <2> QED
    BY <2>4, <1>7 DEF Typed, Summed
<1> QED
  BY <1>7, <1>8, <1>9

LEMMA TokensAdd ==
  ASSUME NEW items \in Seq(Items), NEW x \in Items
  PROVE  Tokens(items) \in Nat /\ Tokens(Append(items, x)) = Tokens(items) + Cost[x.text]
<1> DEFINE N == Len(items)
           more == Append(items, x)
<1>1. /\ N \in Nat /\ more \in Seq(Items) /\ Len(more) = N + 1 /\ more[N + 1] = x
      /\ \A n \in 1..N : more[n] = items[n]
  BY LenProperties
<1>2. PICK f \in [0..N -> Nat] : Summed(f, items) /\ Tokens(items) = f[N]
  BY TokensAreSummed
<1> HIDE DEF more
<1>3. PICK g \in [0..N + 1 -> Nat] : Summed(g, more) /\ Tokens(more) = g[N + 1]
  BY <1>1, TokensAreSummed
<1>4. /\ \A n \in 0..N : f[n] = IF n = 0 THEN 0 ELSE f[n - 1] + Cost[items[n].text]
      /\ \A n \in 0..N + 1 : g[n] = IF n = 0 THEN 0 ELSE g[n - 1] + Cost[more[n].text]
  BY <1>1, <1>2, <1>3 DEF Summed
<1> DEFINE Same == {n \in 0..N : f[n] = g[n]}
<1>5. 0 \in Same
  BY <1>1, <1>4
<1>6. \A n \in 1..N : n - 1 \in Same => n \in Same
  <2> SUFFICES ASSUME NEW n \in 1..N, n - 1 \in Same PROVE n \in Same
    OBVIOUS
  <2>1. n - 1 \in 0..N /\ n # 0 /\ n \in 0..N /\ n \in 0..N + 1 /\ f[n - 1] = g[n - 1]
    BY <1>1
  <2>2. more[n] = items[n]
    BY <1>1
  <2> QED
    BY <2>1, <2>2, <1>4
<1> HIDE DEF Same
<1>7. \A n \in 0..N : n \in Same
  BY <1>1, <1>5, <1>6, HandedOn
<1>8. f[N] = g[N]
  BY <1>1, <1>7 DEF Same
<1>9. g[N + 1] = g[N] + Cost[x.text]
  <2>1. N + 1 \in 0..N + 1 /\ N + 1 # 0 /\ (N + 1) - 1 = N
    BY <1>1
  <2>2. g[N + 1] = g[(N + 1) - 1] + Cost[more[N + 1].text]
    BY <2>1, <1>4
  <2> QED
    BY <2>1, <2>2, <1>1
<1> QED
  BY <1>1, <1>2, <1>3, <1>8, <1>9 DEF more
LEMMA NoTokens == Tokens(<<>>) = 0
<1>1. <<>> \in Seq(Items) /\ Len(<<>>) = 0
  BY EmptySeq
<1>2. PICK f \in [0..0 -> Nat] : Summed(f, <<>>) /\ Tokens(<<>>) = f[0]
  BY <1>1, TokensAreSummed
<1> QED
  BY <1>1, <1>2 DEF Summed

(* What is selected of the first n candidates fits, keeps their order, and     *)
(* what is left out costs more than is left.                                   *)
SelectedOf(selected, items, budget, n) ==
  /\ selected \in Seq(Items) /\ Len(selected) <= n /\ Tokens(selected) <= budget
  /\ \A i \in 1..Len(selected) : \E k \in 1..n : selected[i] = items[k]
  /\ \A i, j \in 1..Len(selected) : i < j => \E k, l \in 1..n : k < l /\ selected[i] = items[k] /\ selected[j] = items[l]
  /\ \A k \in 1..n : \/ \E i \in 1..Len(selected) : selected[i] = items[k]
                     \/ Tokens(selected) + Cost[items[k].text] > budget
Taken(before, item, budget) ==
  IF Tokens(before) + Cost[item.text] <= budget THEN Append(before, item) ELSE before

LEMMA SelectsNone ==
  ASSUME NEW items, NEW budget \in Nat
  PROVE  SelectedOf(<<>>, items, budget, 0)
<1>1. <<>> \in Seq(Items) /\ Len(<<>>) = 0
  BY EmptySeq
<1> QED
  BY <1>1, NoTokens DEF SelectedOf
LEMMA SelectsOneMore ==
  ASSUME NEW items \in Seq(Items), NEW budget \in Nat, NEW n \in 1..Len(items), NEW before,
         SelectedOf(before, items, budget, n - 1)
  PROVE  SelectedOf(Taken(before, items[n], budget), items, budget, n)
<1> DEFINE x == items[n]
           N == Len(before)
<1>1. n \in Nat /\ x \in Items /\ Cost[x.text] \in Nat
  <2>1. Len(items) \in Nat /\ x \in Items
    BY LenProperties, ElementOfSeq
  <2> QED
    BY <2>1, ItemsAre
<1>2. before \in Seq(Items) /\ N \in Nat /\ N <= n - 1 /\ Tokens(before) \in Nat /\ Tokens(before) <= budget
  BY <1>1, LenProperties, TokensAdd DEF SelectedOf
<1>3. \A i \in 1..N : \E k \in 1..n - 1 : before[i] = items[k]
  BY DEF SelectedOf
<1>4. \A i, j \in 1..N : i < j => \E k, l \in 1..n - 1 : k < l /\ before[i] = items[k] /\ before[j] = items[l]
  BY DEF SelectedOf
<1>5. \A k \in 1..n - 1 : (\E i \in 1..N : before[i] = items[k]) \/ Tokens(before) + Cost[items[k].text] > budget
  BY DEF SelectedOf
<1>6. CASE Tokens(before) + Cost[x.text] > budget
  <2>1. Taken(before, x, budget) = before
    BY <1>1, <1>2, <1>6 DEF Taken
  <2>0. \A k \in 1..n - 1 : k \in 1..n
    BY <1>1
  <2>2. \A i \in 1..N : \E k \in 1..n : before[i] = items[k]
    BY <2>0, <1>3
  <2>3. \A i, j \in 1..N : i < j => \E k, l \in 1..n : k < l /\ before[i] = items[k] /\ before[j] = items[l]
    BY <2>0, <1>4
  <2>4. \A k \in 1..n : (\E i \in 1..N : before[i] = items[k]) \/ Tokens(before) + Cost[items[k].text] > budget
    <3> TAKE k \in 1..n
    <3>1. CASE k = n
      BY <3>1, <1>6
    <3>2. CASE k # n
      <4>1. k \in 1..n - 1
        BY <3>2, <1>1
      <4> QED
        BY <4>1, <1>5
    <3> QED
      BY <3>1, <3>2
  <2>5. N <= n
    BY <1>1, <1>2
  <2> QED
    BY <1>2, <2>1, <2>2, <2>3, <2>4, <2>5 DEF SelectedOf
<1>7. CASE Tokens(before) + Cost[x.text] <= budget
  <2> DEFINE s == Append(before, x)
  <2>1. Taken(before, x, budget) = s
    BY <1>7 DEF Taken
  <2>2. s \in Seq(Items) /\ Len(s) = N + 1 /\ s[N + 1] = x /\ \A i \in 1..N : s[i] = before[i]
    BY <1>1, <1>2
  <2>3. Tokens(s) = Tokens(before) + Cost[x.text]
    BY <1>1, <1>2, TokensAdd
  <2> HIDE DEF s
  <2>4. \A i \in 1..N + 1 : i \in 1..N \/ i = N + 1
    BY <1>2
  <2>5. \A i \in 1..N + 1 : \E k \in 1..n : s[i] = items[k]
    <3> TAKE i \in 1..N + 1
    <3>1. CASE i \in 1..N
      BY <3>1, <1>1, <1>3, <2>2
    <3>2. CASE i = N + 1
      BY <3>2, <1>1, <2>2
    <3> QED
      BY <3>1, <3>2, <2>4
  <2>6. \A i, j \in 1..N + 1 : i < j => \E k, l \in 1..n : k < l /\ s[i] = items[k] /\ s[j] = items[l]
    <3> SUFFICES ASSUME NEW i \in 1..N + 1, NEW j \in 1..N + 1, i < j
                 PROVE  \E k, l \in 1..n : k < l /\ s[i] = items[k] /\ s[j] = items[l]
      OBVIOUS
    <3>1. i \in 1..N
      BY <1>2
    <3>2. CASE j \in 1..N
      <4>1. PICK k, l \in 1..n - 1 : k < l /\ before[i] = items[k] /\ before[j] = items[l]
        BY <3>1, <3>2, <1>4
      <4>2. k \in 1..n /\ l \in 1..n
        BY <1>1
      <4> QED
        BY <4>1, <4>2, <3>1, <3>2, <2>2
    <3>3. CASE j = N + 1
      <4>1. PICK k \in 1..n - 1 : before[i] = items[k]
        BY <3>1, <1>3
      <4>2. k \in 1..n /\ n \in 1..n /\ k < n
        BY <1>1
      <4> QED
        BY <4>1, <4>2, <3>1, <3>3, <2>2
    <3> QED
      BY <3>2, <3>3, <2>4
  <2>7. \A k \in 1..n : (\E i \in 1..N + 1 : s[i] = items[k]) \/ Tokens(s) + Cost[items[k].text] > budget
    <3> TAKE k \in 1..n
    <3>1. CASE k = n
      BY <3>1, <2>2, <1>2
    <3>2. CASE k # n
      <4>1. k \in 1..n - 1
        BY <3>2, <1>1
      <4>2. CASE \E i \in 1..N : before[i] = items[k]
        <5>1. PICK i \in 1..N : before[i] = items[k]
          BY <4>2
        <5>2. i \in 1..N + 1 /\ s[i] = items[k]
          BY <5>1, <2>2, <1>2
        <5> QED
          BY <5>2
      <4>3. CASE Tokens(before) + Cost[items[k].text] > budget
        <5>1. Cost[items[k].text] \in Nat
          BY ElementOfSeq, ItemsAre
        <5>2. Tokens(s) \in Nat /\ Tokens(s) >= Tokens(before)
          BY <1>1, <1>2, <2>3
        <5> QED
          BY <4>3, <5>1, <5>2, <1>2
      <4> QED
        BY <4>1, <4>2, <4>3, <1>5
    <3> QED
      BY <3>1, <3>2
  <2> QED
    BY <1>1, <1>2, <1>7, <2>1, <2>2, <2>3, <2>5, <2>6, <2>7 DEF SelectedOf
<1> QED
  BY <1>1, <1>2, <1>6, <1>7

Selects(f, items, budget) ==
  f = [n \in 0..Len(items) |-> IF n = 0 THEN <<>> ELSE Taken(f[n - 1], items[n], budget)]
LEMMA SelectionIs ==
  ASSUME NEW items \in Seq(Items), NEW budget \in Nat
  PROVE  SelectedOf(SelectWithinBudget(items, budget), items, budget, Len(items))
<1> DEFINE N == Len(items)
           step == [x \in Seq(Items) \X (1..N) |-> Taken(x[1], items[x[2]], budget)]
<1>1. N \in Nat /\ \A n \in 1..N : items[n] \in Items
  BY LenProperties, ElementOfSeq
<1>2. \A s \in Seq(Items) : \A x \in Items : Taken(s, x, budget) \in Seq(Items)
  BY DEF Taken
<1>3. step \in [Seq(Items) \X (1..N) -> Seq(Items)]
  BY <1>1, <1>2
<1>4. <<>> \in Seq(Items)
  BY EmptySeq
<1> HIDE DEF step
<1>5. PICK f \in [0..N -> Seq(Items)] : Recurses(f, N, <<>>, step)
  BY <1>1, <1>3, <1>4, RecursionExists
<1>6. \A n \in 0..N : f[n] = IF n = 0 THEN <<>> ELSE Taken(f[n - 1], items[n], budget)
  <2>0. \A n \in 0..N : f[n] = IF n = 0 THEN <<>> ELSE step[<<f[n - 1], n>>]
    BY <1>5 DEF Recurses
  <2> TAKE n \in 0..N
  <2>1. CASE n = 0
    BY <2>0, <2>1
  <2>2. CASE n # 0
    <3>1. n \in 1..N /\ f[n - 1] \in Seq(Items)
      BY <2>2, <1>1
    <3>2. <<f[n - 1], n>> \in Seq(Items) \X (1..N)
      BY <3>1
    <3>3. step[<<f[n - 1], n>>] = Taken(f[n - 1], items[n], budget)
      BY <3>2 DEF step
    <3> QED
      BY <2>0, <2>2, <3>3
  <2> QED
    BY <2>1, <2>2
<1>7. Selects(f, items, budget)
  BY <1>6 DEF Selects
<1> DEFINE g == CHOOSE any : Selects(any, items, budget)
<1>8. Selects(g, items, budget)
  BY <1>7
<1>9. SelectWithinBudget(items, budget) = g[N]
  BY DEF SelectWithinBudget, Selects, Taken
<1> HIDE DEF g
<1>10. \A n \in 0..N : g[n] = IF n = 0 THEN <<>> ELSE Taken(g[n - 1], items[n], budget)
  BY <1>8 DEF Selects
<1> DEFINE Good == {n \in 0..N : SelectedOf(g[n], items, budget, n)}
<1>11. 0 \in Good
  BY <1>1, <1>10, SelectsNone
<1>12. \A n \in 1..N : n - 1 \in Good => n \in Good
  <2> SUFFICES ASSUME NEW n \in 1..N, n - 1 \in Good PROVE n \in Good
    OBVIOUS
  <2>1. n \in 0..N /\ n # 0
    BY <1>1
  <2>2. SelectedOf(Taken(g[n - 1], items[n], budget), items, budget, n)
    BY SelectsOneMore
  <2> QED
    BY <2>1, <2>2, <1>10
<1> HIDE DEF Good
<1>13. \A n \in 0..N : n \in Good
  BY <1>1, <1>11, <1>12, HandedOn
<1> QED
  BY <1>1, <1>9, <1>13 DEF Good

(* What sequences are joined to is what they have, each at a place of its own. *)
JoinedFrom(s, seqs, A, n) ==
  /\ s \in Seq(A)
  /\ \A i \in 1..Len(s) : \E a \in 1..n : \E k \in 1..Len(seqs[a]) : s[i] = seqs[a][k]
  /\ \A i, j \in 1..Len(s) : i # j =>
       \E a, b \in 1..n : \E k \in 1..Len(seqs[a]) : \E l \in 1..Len(seqs[b]) :
         (a # b \/ k # l) /\ s[i] = seqs[a][k] /\ s[j] = seqs[b][l]
LEMMA JoinsOneMore ==
  ASSUME NEW A, NEW seqs, NEW n \in Nat \ {0}, seqs[n] \in Seq(A), NEW s, JoinedFrom(s, seqs, A, n - 1)
  PROVE  JoinedFrom(s \o seqs[n], seqs, A, n)
<1> DEFINE t == seqs[n]
           u == s \o t
           L == Len(s)
           M == Len(t)
<1>1. s \in Seq(A) /\ L \in Nat /\ M \in Nat
  BY LenProperties DEF JoinedFrom
<1>2. u \in Seq(A) /\ Len(u) = L + M /\ \A i \in 1..L + M : u[i] = IF i <= L THEN s[i] ELSE t[i - L]
  BY <1>1, ConcatProperties
<1>3. \A i \in 1..L : \E a \in 1..n - 1 : \E k \in 1..Len(seqs[a]) : s[i] = seqs[a][k]
  BY DEF JoinedFrom
<1>4. \A i, j \in 1..L : i # j =>
        \E a, b \in 1..n - 1 : \E k \in 1..Len(seqs[a]) : \E l \in 1..Len(seqs[b]) :
          (a # b \/ k # l) /\ s[i] = seqs[a][k] /\ s[j] = seqs[b][l]
  BY DEF JoinedFrom
<1> HIDE DEF u
<1>5. \A i \in 1..L + M : (i \in 1..L /\ u[i] = s[i]) \/ (i - L \in 1..M /\ u[i] = t[i - L])
  <2> TAKE i \in 1..L + M
  <2>1. CASE i <= L
    <3>1. i \in 1..L
      BY <2>1, <1>1
    <3> QED
      BY <3>1, <2>1, <1>2
  <2>2. CASE ~(i <= L)
    <3>1. i - L \in 1..M
      BY <2>2, <1>1
    <3> QED
      BY <3>1, <2>2, <1>2
  <2> QED
    BY <2>1, <2>2
<1>6. \A a \in 1..n - 1 : a \in 1..n /\ a # n
  OBVIOUS
<1>7. n \in 1..n
  OBVIOUS
<1>8. \A i \in 1..L + M : \E a \in 1..n : \E k \in 1..Len(seqs[a]) : u[i] = seqs[a][k]
  BY <1>3, <1>5, <1>6, <1>7
<1>9. \A i, j \in 1..L + M : i # j =>
        \E a, b \in 1..n : \E k \in 1..Len(seqs[a]) : \E l \in 1..Len(seqs[b]) :
          (a # b \/ k # l) /\ u[i] = seqs[a][k] /\ u[j] = seqs[b][l]
  <2> SUFFICES ASSUME NEW i \in 1..L + M, NEW j \in 1..L + M, i # j
               PROVE  \E a, b \in 1..n : \E k \in 1..Len(seqs[a]) : \E l \in 1..Len(seqs[b]) :
                        (a # b \/ k # l) /\ u[i] = seqs[a][k] /\ u[j] = seqs[b][l]
    OBVIOUS
  <2>1. CASE i \in 1..L /\ u[i] = s[i] /\ j \in 1..L /\ u[j] = s[j]
    BY <2>1, <1>4, <1>6
  <2>2. CASE i \in 1..L /\ u[i] = s[i] /\ j - L \in 1..M /\ u[j] = t[j - L]
    <3>1. PICK a \in 1..n - 1 : \E k \in 1..Len(seqs[a]) : s[i] = seqs[a][k]
      BY <2>2, <1>3
    <3>2. PICK k \in 1..Len(seqs[a]) : s[i] = seqs[a][k]
      BY <3>1
    <3> QED
      BY <2>2, <3>2, <1>6, <1>7
  <2>3. CASE i - L \in 1..M /\ u[i] = t[i - L] /\ j \in 1..L /\ u[j] = s[j]
    <3>1. PICK b \in 1..n - 1 : \E l \in 1..Len(seqs[b]) : s[j] = seqs[b][l]
      BY <2>3, <1>3
    <3>2. PICK l \in 1..Len(seqs[b]) : s[j] = seqs[b][l]
      BY <3>1
    <3> QED
      BY <2>3, <3>2, <1>6, <1>7
  <2>4. CASE i - L \in 1..M /\ u[i] = t[i - L] /\ j - L \in 1..M /\ u[j] = t[j - L]
    <3>1. i - L # j - L
      BY <1>1
    <3> QED
      BY <2>4, <3>1, <1>7
  <2> QED
    BY <1>5, <2>1, <2>2, <2>3, <2>4
<1>10. JoinedFrom(u, seqs, A, n)
  BY <1>2, <1>8, <1>9 DEF JoinedFrom
<1> QED
  BY <1>10 DEF u

Joins(f, seqs) == f = [i \in 1..Len(seqs) |-> IF i = 1 THEN seqs[i] ELSE f[i - 1] \o seqs[i]]
LEMMA JoinsExist ==
  ASSUME NEW A, NEW seqs, Len(seqs) \in Nat, \A a \in 1..Len(seqs) : seqs[a] \in Seq(A)
  PROVE  \E f : Joins(f, seqs)
<1> DEFINE N == Len(seqs)
           step == [x \in Seq(A) \X (1..N) |-> x[1] \o seqs[x[2]]]
<1>1. step \in [Seq(A) \X (1..N) -> Seq(A)]
  BY ConcatProperties
<1>2. <<>> \in Seq(A)
  BY EmptySeq
<1> HIDE DEF step
<1>3. PICK f \in [0..N -> Seq(A)] : Recurses(f, N, <<>>, step)
  BY <1>1, <1>2, RecursionExists
<1>4. f[0] = <<>> /\ \A n \in 1..N : f[n] = f[n - 1] \o seqs[n]
  <2>0. \A n \in 0..N : f[n] = IF n = 0 THEN <<>> ELSE step[<<f[n - 1], n>>]
    BY <1>3 DEF Recurses
  <2>1. ASSUME NEW n \in 1..N PROVE f[n] = f[n - 1] \o seqs[n]
    <3>1. n \in 0..N /\ n # 0 /\ n - 1 \in 0..N
      OBVIOUS
    <3>2. <<f[n - 1], n>> \in Seq(A) \X (1..N)
      BY <3>1
    <3>3. step[<<f[n - 1], n>>] = f[n - 1] \o seqs[n]
      BY <3>2 DEF step
    <3> QED
      BY <2>0, <3>1, <3>3
  <2>2. f[0] = <<>>
    <3>1. 0 \in 0..N
      OBVIOUS
    <3> QED
      BY <2>0, <3>1
  <2> QED
    BY <2>1, <2>2
<1> DEFINE g == [i \in 1..N |-> f[i]]
<1>5. \A i \in 1..N : g[i] = IF i = 1 THEN seqs[i] ELSE g[i - 1] \o seqs[i]
  <2> TAKE i \in 1..N
  <2>1. CASE i = 1
    <3>1. f[1] = f[0] \o seqs[1] /\ seqs[1] \in Seq(A)
      BY <2>1, <1>4
    <3>2. f[1] = seqs[1]
      BY <3>1, <1>4, ConcatEmptySeq
    <3> QED
      BY <2>1, <3>2
  <2>2. CASE i # 1
    <3>1. i - 1 \in 1..N
      BY <2>2
    <3> QED
      BY <2>2, <3>1, <1>4
  <2> QED
    BY <2>1, <2>2
<1>6. Joins(g, seqs)
  BY <1>5 DEF Joins
<1> QED
  BY <1>6
LEMMA FlattenedIsJoined ==
  ASSUME NEW A, NEW seqs, Len(seqs) \in Nat \ {0}, \A a \in 1..Len(seqs) : seqs[a] \in Seq(A)
  PROVE  JoinedFrom(FlattenSeq(seqs), seqs, A, Len(seqs))
<1> DEFINE N == Len(seqs)
           f == CHOOSE any : Joins(any, seqs)
<1>1. Joins(f, seqs)
  BY JoinsExist
<1>2. FlattenSeq(seqs) = f[N]
  BY DEF FlattenSeq, Joins
<1> HIDE DEF f
<1>3. \A i \in 1..N : f[i] = IF i = 1 THEN seqs[i] ELSE f[i - 1] \o seqs[i]
  BY <1>1 DEF Joins
<1>4. JoinedFrom(seqs[1], seqs, A, 1)
  BY DEF JoinedFrom
<1> DEFINE Good == {n \in 0..N : n = 0 \/ JoinedFrom(f[n], seqs, A, n)}
<1>5. \A n \in 1..N : n - 1 \in Good => n \in Good
  <2> SUFFICES ASSUME NEW n \in 1..N, n - 1 \in Good PROVE n \in Good
    OBVIOUS
  <2>1. CASE n = 1
    BY <2>1, <1>3, <1>4
  <2>2. CASE n # 1
    <3>1. JoinedFrom(f[n - 1], seqs, A, n - 1) /\ n \in Nat \ {0}
      BY <2>2
    <3>2. JoinedFrom(f[n - 1] \o seqs[n], seqs, A, n)
      BY <3>1, JoinsOneMore
    <3> QED
      BY <2>2, <3>2, <1>3
  <2> QED
    BY <2>1, <2>2
<1>6. 0 \in Good
  OBVIOUS
<1> HIDE DEF Good
<1>7. \A n \in 0..N : n \in Good
  BY <1>5, <1>6, HandedOn
<1> QED
  BY <1>2, <1>7 DEF Good

(* A list of facts or records, and what is kept at a place of the shelf.       *)
IsList(s) == Len(s) \in Nat /\ s = [k \in 1..Len(s) |-> s[k]]
IsListed(s) == IsList(s) /\ DistinctIds(s) /\ \A k \in 1..Len(s) : s[k].id \in Nat /\ s[k].text \in Texts
OnShelf(i, v) ==
  \/ v.is = "digest" /\ v.id = i /\ v.text \in Texts \ {Blank}
  \/ v.is = "update" /\ v.id = i /\ IsListed(v.facts) /\ \A k \in 1..Len(v.facts) : v.facts[k].text # Blank
  \/ v.is = "pack" /\ IsListed(v.records)
IsShelf(s) == IsList(s) /\ \A i \in 1..Len(s) : OnShelf(i, s[i])

LEMMA ListsAre ==
  ASSUME NEW N \in Nat, NEW s, s = [k \in 1..N |-> s[k]]
  PROVE  Len(s) = N /\ DOMAIN s = 1..N /\ s \in Seq({s[k] : k \in 1..N})
<1> DEFINE S == {s[k] : k \in 1..N}
<1>1. \A k \in 1..N : s[k] \in S
  OBVIOUS
<1> HIDE DEF S
<1>2. s \in [1..N -> S]
  BY <1>1
<1>3. s \in Seq(S)
  BY <1>2
<1>4. Len(s) \in Nat /\ DOMAIN s = 1..Len(s) /\ DOMAIN s = 1..N
  BY <1>2, <1>3, LenProperties
<1> QED
  BY <1>3, <1>4 DEF S
LEMMA ListsGrow ==
  ASSUME NEW s, IsList(s), NEW v
  PROVE  /\ IsList(Append(s, v)) /\ Len(Append(s, v)) = Len(s) + 1 /\ Append(s, v)[Len(s) + 1] = v
         /\ \A k \in 1..Len(s) : Append(s, v)[k] = s[k]
<1> DEFINE S == {s[k] : k \in 1..Len(s)} \cup {v}
           t == Append(s, v)
<1>1. s \in Seq(S) /\ v \in S /\ Len(s) \in Nat
  <2>1. s \in Seq({s[k] : k \in 1..Len(s)})
    BY ListsAre DEF IsList
  <2> QED
    BY <2>1, SeqMonotonic DEF IsList
<1> HIDE DEF S
<1>2. /\ t \in Seq(S) /\ Len(t) = Len(s) + 1 /\ t[Len(s) + 1] = v
      /\ \A k \in 1..Len(s) : t[k] = s[k]
  BY <1>1
<1>3. t = [k \in 1..Len(t) |-> t[k]]
  BY <1>2, LenProperties
<1> QED
  BY <1>1, <1>2, <1>3 DEF IsList

(* The candidates of what is kept, whose names tell where they are from.       *)
NamedFrom(i, v, k, item) ==
  \/ v.is = "digest" /\ k = 1 /\ item.kind = "episode_digest" /\ item.id = <<i>> /\ item.text # Blank
  \/ v.is = "update" /\ item.kind = "working_memory_fact" /\ item.id = <<i, v.facts[k].id>> /\ item.text # Blank
       /\ k \in DOMAIN v.facts
  \/ v.is = "pack" /\ item.kind = "archive_record" /\ item.id = <<v.records[k].id>> /\ k \in DOMAIN v.records
LEMMA CandidatesAre ==
  ASSUME NEW i \in Nat, NEW v, OnShelf(i, v)
  PROVE  /\ Candidates(v) \in Seq(Items)
         /\ \A k \in 1..Len(Candidates(v)) : NamedFrom(i, v, k, Candidates(v)[k])
<1> DEFINE c == Candidates(v)
<1>1. CASE v.is = "digest" /\ v.id = i /\ v.text \in Texts \ {Blank}
  <2> DEFINE item == Item("episode_digest", <<v.id>>, v.text)
  <2>1. item \in Items
    BY <1>1 DEF Item, Items
  <2>2. item.kind = "episode_digest" /\ item.id = <<i>> /\ item.text # Blank
    BY <1>1 DEF Item
  <2>3. c = <<item>>
    BY <1>1 DEF Candidates
  <2> HIDE DEF item
  <2>4. c \in Seq(Items) /\ Len(c) = 1 /\ c[1] = item
    BY <2>1, <2>3
  <2>5. \A k \in 1..Len(c) : k = 1
    BY <2>4
  <2> HIDE DEF c
  <2>6. \A k \in 1..Len(c) : NamedFrom(i, v, k, c[k])
    BY <1>1, <2>2, <2>4, <2>5 DEF NamedFrom
  <2> QED
    BY <2>4, <2>6 DEF c
<1>2. CASE v.is = "update" /\ v.id = i /\ IsListed(v.facts) /\ \A k \in 1..Len(v.facts) : v.facts[k].text # Blank
  <2> DEFINE N == Len(v.facts)
             item(k) == Item("working_memory_fact", <<v.id, v.facts[k].id>>, v.facts[k].text)
  <2>1. N \in Nat /\ DOMAIN v.facts = 1..N
    BY <1>2 DEF IsListed, IsList
  <2>2. ASSUME NEW k \in 1..N
        PROVE  /\ item(k) \in Items
               /\ item(k).kind = "working_memory_fact" /\ item(k).id = <<i, v.facts[k].id>> /\ item(k).text # Blank
    <3>1. v.facts[k].id \in Nat /\ v.facts[k].text \in Texts /\ v.facts[k].text # Blank /\ v.id = i
      BY <1>2 DEF IsListed
    <3>2. <<v.id, v.facts[k].id>> \in {<<a, b>> : a \in Nat, b \in Nat}
      BY <3>1
    <3>3. item(k) \in Items
      BY <3>1, <3>2 DEF Item, Items
    <3> QED
      BY <3>1, <3>3 DEF Item
  <2>3. c = [k \in 1..N |-> item(k)]
    BY <1>2, <2>1 DEF Candidates
  <2> HIDE DEF item, N
  <2>4. c \in [1..N -> Items]
    BY <2>2, <2>3
  <2>5. c \in Seq(Items) /\ Len(c) = N
    BY <2>1, <2>4, LenProperties
  <2>6. \A k \in 1..N : c[k] = item(k)
    BY <2>3
  <2> HIDE DEF c
  <2>7. \A k \in 1..Len(c) : NamedFrom(i, v, k, c[k])
    BY <1>2, <2>1, <2>2, <2>5, <2>6 DEF NamedFrom
  <2> QED
    BY <2>5, <2>7 DEF c
<1>3. CASE v.is = "pack" /\ IsListed(v.records)
  <2> DEFINE N == Len(v.records)
             item(k) == Item("archive_record", <<v.records[k].id>>, v.records[k].text)
  <2>1. N \in Nat /\ DOMAIN v.records = 1..N
    BY <1>3 DEF IsListed, IsList
  <2>2. ASSUME NEW k \in 1..N
        PROVE  item(k) \in Items /\ item(k).kind = "archive_record" /\ item(k).id = <<v.records[k].id>>
    BY <1>3 DEF IsListed, Item, Items
  <2>3. c = [k \in 1..N |-> item(k)]
    BY <1>3, <2>1 DEF Candidates
  <2> HIDE DEF item, N
  <2>4. c \in [1..N -> Items]
    BY <2>2, <2>3
  <2>5. c \in Seq(Items) /\ Len(c) = N
    BY <2>1, <2>4, LenProperties
  <2>6. \A k \in 1..N : c[k] = item(k)
    BY <2>3
  <2> HIDE DEF c
  <2>7. \A k \in 1..Len(c) : NamedFrom(i, v, k, c[k])
    BY <1>3, <2>1, <2>2, <2>5, <2>6 DEF NamedFrom
  <2> QED
    BY <2>5, <2>7 DEF c
<1> QED
  BY <1>1, <1>2, <1>3 DEF OnShelf

(* Two candidates of one name are records of two packs.                        *)
InTwoPacks(v, w) ==
  /\ v.is = "pack" /\ w.is = "pack"
  /\ \E k \in DOMAIN v.records : \E l \in DOMAIN w.records : v.records[k].id = w.records[l].id
LEMMA NamesTell ==
  ASSUME NEW i \in Nat, NEW j \in Nat, NEW v, NEW w, OnShelf(i, v), OnShelf(j, w), i = j => v = w,
         NEW k, NEW l, i # j \/ k # l, NEW x, NEW y, NamedFrom(i, v, k, x), NamedFrom(j, w, l, y), Name(x) = Name(y)
  PROVE  i # j /\ InTwoPacks(v, w)
<1>1. x.kind = y.kind /\ x.id = y.id
  BY DEF Name
<1>2. CASE x.kind = "episode_digest"
  BY <1>1, <1>2 DEF NamedFrom
<1>3. CASE x.kind = "working_memory_fact"
  <2>1. v.is = "update" /\ w.is = "update" /\ i = j /\ v.facts[k].id = w.facts[l].id
        /\ k \in DOMAIN v.facts /\ l \in DOMAIN w.facts
    BY <1>1, <1>3 DEF NamedFrom
  <2>2. v = w /\ DistinctIds(v.facts)
    BY <2>1 DEF OnShelf, IsListed
  <2> QED
    BY <2>1, <2>2 DEF DistinctIds
<1>4. CASE x.kind = "archive_record"
  <2>1. v.is = "pack" /\ w.is = "pack" /\ v.records[k].id = w.records[l].id
        /\ k \in DOMAIN v.records /\ l \in DOMAIN w.records
    BY <1>1, <1>4 DEF NamedFrom
  <2>2. DistinctIds(v.records)
    BY <2>1 DEF OnShelf, IsListed
  <2> QED
    BY <2>1, <2>2 DEF DistinctIds, InTwoPacks
<1> QED
  BY <1>2, <1>3, <1>4 DEF NamedFrom

LEMMA ShelvesAre ==
  ASSUME NEW values, IsShelf(values), values # <<>>
  PROVE  LET items == AllCandidates(values) IN
         /\ items \in Seq(Items)
         /\ \A m, n \in 1..Len(items) : m # n /\ Name(items[m]) = Name(items[n]) =>
              \E i, j \in DOMAIN values : i # j /\ InTwoPacks(values[i], values[j])
<1> DEFINE N == Len(values)
           lists == [i \in 1..N |-> Candidates(values[i])]
           items == AllCandidates(values)
<1>1. N \in Nat /\ DOMAIN values = 1..N /\ \A i \in 1..N : OnShelf(i, values[i])
  BY DEF IsShelf, IsList
<1>2. N # 0
  <2>1. values \in Seq({values[i] : i \in 1..N})
    BY ListsAre DEF IsShelf, IsList
  <2> QED
    BY <2>1, EmptySeq
<1>3. \A i \in 1..N : lists[i] \in Seq(Items) /\ \A k \in 1..Len(lists[i]) : NamedFrom(i, values[i], k, lists[i][k])
  BY <1>1, CandidatesAre
<1>4. items = FlattenSeq(lists)
  BY <1>1 DEF AllCandidates
<1>5. Len(lists) = N
  BY <1>1
<1> HIDE DEF lists, items
<1>6. JoinedFrom(items, lists, Items, N)
  BY <1>1, <1>2, <1>3, <1>4, <1>5, FlattenedIsJoined
<1>7. ASSUME NEW m \in 1..Len(items), NEW n \in 1..Len(items), m # n, Name(items[m]) = Name(items[n])
      PROVE  \E i, j \in DOMAIN values : i # j /\ InTwoPacks(values[i], values[j])
  <2>1. PICK a, b \in 1..N : \E k \in 1..Len(lists[a]) : \E l \in 1..Len(lists[b]) :
          (a # b \/ k # l) /\ items[m] = lists[a][k] /\ items[n] = lists[b][l]
    BY <1>6, <1>7 DEF JoinedFrom
  <2>2. PICK k \in 1..Len(lists[a]), l \in 1..Len(lists[b]) :
          (a # b \/ k # l) /\ items[m] = lists[a][k] /\ items[n] = lists[b][l]
    BY <2>1
  <2>3. NamedFrom(a, values[a], k, items[m]) /\ NamedFrom(b, values[b], l, items[n])
    BY <2>2, <1>3
  <2>4. a # b /\ InTwoPacks(values[a], values[b])
    <3>1. a \in Nat /\ b \in Nat /\ OnShelf(a, values[a]) /\ OnShelf(b, values[b]) /\ (a # b \/ k # l)
      BY <1>1, <2>2
    <3>2. a = b => values[a] = values[b]
      OBVIOUS
    <3>3. Name(items[m]) = Name(items[n])
      BY <1>7
    <3> QED
      BY <2>3, <3>1, <3>2, <3>3, NamesTell
  <2> QED
    BY <2>4, <1>1
<1> QED
  BY <1>6, <1>7 DEF JoinedFrom, items

(* What is retrieved from a shelf is a context, unless the candidates are not  *)
(* valid; nothing that fits is left out of it.                                 *)
LEMMA ContextsAreMade ==
  ASSUME NEW items \in Seq(Items), CandidatesAreValid(items), NEW query \in DOMAIN Relevance, NEW budget \in Nat \ {0}
  PROVE  LET selected == SelectWithinBudget(RankedFor(items, query), budget)
             made == [query |-> query, budget |-> budget, items |-> selected, count |-> Len(items),
                         used |-> Tokens(selected), remaining |-> budget - Tokens(selected),
                         status |-> IF items = <<>> THEN "empty"
                                    ELSE IF Len(items) > Len(selected) THEN "truncated" ELSE "ok"]
         IN /\ ContextIsValid(made)
            /\ \A i \in 1..Len(items) : \/ \E n \in DOMAIN selected : selected[n] = items[i]
                                        \/ Cost[items[i].text] > budget - Tokens(selected)
<1> DEFINE N == Len(items)
           ranked == RankedFor(items, query)
           selected == SelectWithinBudget(ranked, budget)
           L == Len(selected)
           made == [query |-> query, budget |-> budget, items |-> selected, count |-> N,
                       used |-> Tokens(selected), remaining |-> budget - Tokens(selected),
                       status |-> IF items = <<>> THEN "empty"
                                  ELSE IF N > L THEN "truncated" ELSE "ok"]
<1>1. N \in Nat /\ DOMAIN items = 1..N /\ NamesDiffer(items) /\ \A i \in 1..N : items[i] \in Items /\ items[i].text # Blank
  BY LenProperties, ElementOfSeq DEF CandidatesAreValid, NamesDiffer
<1>2. /\ ranked \in Seq(Items) /\ Len(ranked) = N /\ NamesDiffer(ranked)
      /\ \A i \in 1..N : \E n \in 1..N : ranked[n] = items[i]
      /\ \A m, n \in 1..N : m < n => RanksAhead(ranked[m], ranked[n], query)
      /\ \A n \in 1..N : \E i \in 1..N : ranked[n] = items[i]
  BY <1>1, RankedAre
<1> HIDE DEF ranked
<1>3. SelectedOf(selected, ranked, budget, N)
  BY <1>2, SelectionIs
<1> HIDE DEF selected
<1>4. /\ selected \in Seq(Items) /\ L \in Nat /\ DOMAIN selected = 1..L /\ L <= N
      /\ Tokens(selected) \in Nat /\ Tokens(selected) <= budget
  <2>1. selected \in Seq(Items) /\ L <= N /\ Tokens(selected) <= budget
    BY <1>3 DEF SelectedOf
  <2>2. \E x \in Items : TRUE
    <3>1. [kind |-> "archive_record", id |-> <<0>>, text |-> Blank] \in Items
      BY TextsAreCosted DEF Items
    <3> QED
      BY <3>1
  <2> QED
    BY <2>1, <2>2, LenProperties, TokensAdd
<1>5. \A i \in 1..L : \E k \in 1..N : selected[i] = ranked[k]
  BY <1>3 DEF SelectedOf
<1>6. \A i, j \in 1..L : i < j => \E k, l \in 1..N : k < l /\ selected[i] = ranked[k] /\ selected[j] = ranked[l]
  BY <1>3 DEF SelectedOf
<1>7. \A k \in 1..N : (\E i \in 1..L : selected[i] = ranked[k]) \/ Tokens(selected) + Cost[ranked[k].text] > budget
  BY <1>3 DEF SelectedOf
<1>8. \A i, j \in 1..L : i < j => ~RanksAhead(selected[j], selected[i], query) /\ Name(selected[i]) # Name(selected[j])
  <2> SUFFICES ASSUME NEW i \in 1..L, NEW j \in 1..L, i < j
               PROVE  ~RanksAhead(selected[j], selected[i], query) /\ Name(selected[i]) # Name(selected[j])
    OBVIOUS
  <2>1. PICK k, l \in 1..N : k < l /\ selected[i] = ranked[k] /\ selected[j] = ranked[l]
    BY <1>6
  <2>2. RanksAhead(ranked[k], ranked[l], query) /\ ranked[k] \in Items /\ ranked[l] \in Items
    BY <2>1, <1>2, ElementOfSeq
  <2>3. Name(ranked[k]) # Name(ranked[l])
    BY <2>1, <1>2, <1>1 DEF NamesDiffer
  <2> QED
    BY <2>1, <2>2, <2>3, RanksAreOrdered
<1>9. CandidatesAreValid(selected)
  <2>1. \A i, j \in 1..L : Name(selected[i]) = Name(selected[j]) => i = j
    BY <1>4, <1>8
  <2>2. \A i \in 1..L : selected[i].text # Blank
    <3> TAKE i \in 1..L
    <3>1. PICK k \in 1..N : selected[i] = ranked[k]
      BY <1>5
    <3>2. PICK j \in 1..N : ranked[k] = items[j]
      BY <1>2
    <3> QED
      BY <3>1, <3>2, <1>1
  <2> QED
    BY <1>4, <2>1, <2>2 DEF CandidatesAreValid
<1>10. items = <<>> => N = 0
  BY EmptySeq
<1>11. ContextIsValid(made)
  <2>1. /\ made.budget = budget /\ made.used = Tokens(selected) /\ made.remaining = budget - Tokens(selected)
        /\ made.items = selected /\ made.query = query /\ made.count = N
        /\ made.status = IF items = <<>> THEN "empty" ELSE IF N > L THEN "truncated" ELSE "ok"
    OBVIOUS
  <2> HIDE DEF made
  <2>2. \A i, j \in DOMAIN selected : i < j => ~RanksAhead(selected[j], selected[i], query)
    BY <1>4, <1>8
  <2>3. budget > 0 /\ made.used + made.remaining = budget /\ made.remaining >= 0 /\ made.count >= L
    BY <2>1, <1>1, <1>4
  <2>4. (made.status = "empty" => N = 0) /\ (made.status = "ok" => N = L)
    <3>1. CASE items = <<>>
      BY <3>1, <2>1, <1>10
    <3>2. CASE items # <<>> /\ N > L
      BY <3>2, <2>1
    <3>3. CASE items # <<>> /\ ~(N > L)
      <4>1. N \in Nat /\ L \in Nat /\ L <= N
        BY <1>1, <1>4
      <4> HIDE DEF N, L
      <4>2. N = L
        BY <4>1, <3>3
      <4> QED
        BY <4>2, <3>3, <2>1
    <3> QED
      BY <3>1, <3>2, <3>3
  <2> QED
    BY <2>1, <2>2, <2>3, <2>4, <1>9 DEF ContextIsValid
<1>12. ASSUME NEW i \in 1..N
       PROVE  (\E n \in DOMAIN selected : selected[n] = items[i]) \/ Cost[items[i].text] > budget - Tokens(selected)
  <2>1. PICK n \in 1..N : ranked[n] = items[i]
    BY <1>2
  <2>2. (\E k \in 1..L : selected[k] = items[i]) \/ Tokens(selected) + Cost[items[i].text] > budget
    BY <2>1, <1>7
  <2>3. Cost[items[i].text] \in Nat
    BY <1>1, ItemsAre
  <2> QED
    BY <2>2, <2>3, <1>4
<1> QED
  BY <1>11, <1>12 DEF selected, ranked

(* NothingThatFitsIsLeftOut, of a retrieval.                                   *)
Complete(values, query, budget, found) ==
  LET candidates == ToSet(AllCandidates(values))
      packed(i) == {values[i].records[k].id : k \in DOMAIN values[i].records}
      packs == {i \in DOMAIN values : values[i].is = "pack"}
  IN IF found = Refused
     THEN \/ \E i, j \in packs : i # j /\ packed(i) \cap packed(j) # {}
          \/ \E item \in candidates : item.text = Blank
     ELSE \A item \in candidates \ ToSet(found.items) : Cost[item.text] > found.remaining
LEMMA RetrievalsAreComplete ==
  ASSUME NEW values, IsShelf(values), values # <<>>, NEW query \in DOMAIN Relevance, NEW budget \in Nat \ {0}
  PROVE  Complete(values, query, budget, Retrieve(values, query, budget))
<1> DEFINE items == AllCandidates(values)
           selected == SelectWithinBudget(RankedFor(items, query), budget)
           made == [query |-> query, budget |-> budget, items |-> selected, count |-> Len(items),
                       used |-> Tokens(selected), remaining |-> budget - Tokens(selected),
                       status |-> IF items = <<>> THEN "empty"
                                  ELSE IF Len(items) > Len(selected) THEN "truncated" ELSE "ok"]
           found == Retrieve(values, query, budget)
           packed(i) == {values[i].records[k].id : k \in DOMAIN values[i].records}
           packs == {i \in DOMAIN values : values[i].is = "pack"}
<1>1. /\ items \in Seq(Items) /\ DOMAIN items = 1..Len(items)
      /\ \A m, n \in 1..Len(items) : m # n /\ Name(items[m]) = Name(items[n]) =>
           \E i, j \in DOMAIN values : i # j /\ InTwoPacks(values[i], values[j])
  BY ShelvesAre, LenProperties
<1>2. found = IF CandidatesAreValid(items) /\ ContextIsValid(made) THEN made ELSE Refused
  BY DEF Retrieve
<1> HIDE DEF items, found
<1>3. CASE CandidatesAreValid(items)
  <2>1. /\ ContextIsValid(made)
        /\ \A i \in 1..Len(items) : \/ \E n \in DOMAIN selected : selected[n] = items[i]
                                    \/ Cost[items[i].text] > budget - Tokens(selected)
    BY <1>1, <1>3, ContextsAreMade
  <2> HIDE DEF selected
  <2>2. found = made
    BY <1>2, <1>3, <2>1
  <2>3. found # Refused
    <3>1. "query" \in DOMAIN made /\ "query" \notin DOMAIN Refused
      BY DEF Refused
    <3> QED
      BY <2>2, <3>1
  <2>4. found.items = selected /\ found.remaining = budget - Tokens(selected)
    BY <2>2
  <2>5. \A item \in ToSet(items) \ ToSet(selected) : Cost[item.text] > budget - Tokens(selected)
    BY <1>1, <2>1 DEF ToSet
  <2> QED
    BY <2>3, <2>4, <2>5 DEF Complete, items, found
<1>4. CASE ~CandidatesAreValid(items)
  <2>1. found = Refused
    BY <1>2, <1>4
  <2>2. (\E i, j \in packs : i # j /\ packed(i) \cap packed(j) # {}) \/ \E item \in ToSet(items) : item.text = Blank
    <3>1. CASE \E m, n \in 1..Len(items) : m # n /\ Name(items[m]) = Name(items[n])
      <4>1. PICK i, j \in DOMAIN values : i # j /\ InTwoPacks(values[i], values[j])
        BY <1>1, <3>1
      <4>2. i \in packs /\ j \in packs
        BY <4>1 DEF InTwoPacks
      <4>3. packed(i) \cap packed(j) # {}
        BY <4>1 DEF InTwoPacks
      <4> QED
        BY <4>1, <4>2, <4>3
    <3>2. CASE \E m \in 1..Len(items) : items[m].text = Blank
      BY <1>1, <3>2 DEF ToSet
    <3> QED
      BY <1>1, <1>4, <3>1, <3>2 DEF CandidatesAreValid
  <2> QED
    BY <2>1, <2>2 DEF Complete, items, found
<1> QED
  BY <1>3, <1>4

LEMMA IntervalsAre == ASSUME NEW N \in Nat PROVE IsFiniteSet(1..N) /\ Cardinality(1..N) = N
  BY FS_Interval
IsNumbered(s, N) == s = [k \in 1..N |-> s[k]] /\ \A k \in 1..N : s[k].id \in Nat
(* What is sorted, and what is kept of facts, is of what was given.            *)
LEMMA SortedAre ==
  ASSUME NEW N \in Nat, NEW records, IsNumbered(records, N)
  PROVE  /\ IsList(SortedById(records)) /\ Len(SortedById(records)) = N
         /\ \A n \in 1..N : \E i \in 1..N : SortedById(records)[n] = records[i]
<1> DEFINE S == DOMAIN records
           before(i) == {j \in S : records[j].id < records[i].id \/ (records[j].id = records[i].id /\ j < i)}
           ahead == [i \in S |-> before(i)]
           sorted == SortedById(records)
<1>0. S = 1..N /\ \A k \in 1..N : records[k].id \in Nat
  BY DEF IsNumbered
<1>1. IsFiniteSet(S) /\ Cardinality(S) = N
  <2> HIDE DEF S
  <2> QED
    BY <1>0, IntervalsAre
<1>2. \A n \in 1..Cardinality(S) : \E i \in S : Cardinality(ahead[i]) = n - 1
  <2> HIDE DEF S
  <2>1. ahead \in [S -> SUBSET S]
    OBVIOUS
  <2>2. \A i \in S : i \notin ahead[i]
    BY <1>0
  <2>3. \A i, j \in S : i # j => i \in ahead[j] \/ j \in ahead[i]
    BY <1>0
  <2>4. \A i, j \in S : i \in ahead[j] => ahead[i] \subseteq ahead[j]
    BY <1>0
  <2> HIDE DEF ahead
  <2> QED
    BY <1>1, <2>1, <2>2, <2>3, <2>4, PlacesAreTaken
<1>3. \A n \in 1..N : \E i \in S : Cardinality(before(i)) = n - 1
  <2> HIDE DEF S, before
  <2> QED
    BY <1>1, <1>2
<1>4. sorted = [n \in S |-> records[CHOOSE i \in S : Cardinality(before(i)) = n - 1]]
  BY DEF SortedById
<1> HIDE DEF sorted, ahead, before, S
<1>5. \A n \in 1..N : \E i \in 1..N : sorted[n] = records[i]
  BY <1>0, <1>3, <1>4
<1>6. sorted = [n \in 1..N |-> sorted[n]]
  BY <1>0, <1>4
<1>7. Len(sorted) = N
  BY <1>6, ListsAre
<1> QED
  BY <1>5, <1>6, <1>7 DEF IsList, sorted
LEMMA SortedIsListed ==
  ASSUME NEW N \in Nat, NEW records, IsNumbered(records, N), \A k \in 1..N : records[k].text \in Texts,
         DistinctIds(SortedById(records))
  PROVE  IsListed(SortedById(records))
<1> DEFINE sorted == SortedById(records)
<1>1. IsList(sorted) /\ Len(sorted) = N /\ \A n \in 1..N : \E i \in 1..N : sorted[n] = records[i]
  BY SortedAre
<1>2. \A i \in 1..N : records[i].id \in Nat /\ records[i].text \in Texts
  BY DEF IsNumbered
<1> HIDE DEF sorted
<1>3. \A n \in 1..N : sorted[n].id \in Nat /\ sorted[n].text \in Texts
  BY <1>1, <1>2
<1> QED
  BY <1>1, <1>3 DEF IsListed, sorted
LEMMA DedupedAre ==
  ASSUME NEW N \in Nat, NEW given, IsNumbered(given, N)
  PROVE  /\ IsList(Deduped(given))
         /\ \A n \in 1..Len(Deduped(given)) : \E i \in 1..N : Deduped(given)[n] = given[i]
<1> DEFINE S == {i \in DOMAIN given : \A j \in 1..i - 1 : given[j].id # given[i].id}
           before(i) == {j \in S : given[j].id < given[i].id}
           ahead == [i \in S |-> before(i)]
           kept == Deduped(given)
           M == Cardinality(S)
<1>0. /\ S \subseteq 1..N
      /\ \A i, j \in S : i # j => given[i].id # given[j].id
      /\ \A i \in S : given[i].id \in Nat
  <2>1. /\ S = {i \in 1..N : \A j \in 1..i - 1 : given[j].id # given[i].id}
        /\ \A k \in 1..N : given[k].id \in Nat
    BY DEF IsNumbered
  <2>2. \A i \in 1..N : \A j \in 1..N : j < i => j \in 1..i - 1
    OBVIOUS
  <2> HIDE DEF S
  <2>3. \A i, j \in S : i < j => given[i].id # given[j].id
    BY <2>1, <2>2
  <2>4. \A i, j \in S : i # j => i < j \/ j < i
    BY <2>1
  <2> QED
    BY <2>1, <2>3, <2>4
<1>1. IsFiniteSet(S) /\ M \in Nat
  <2>1. IsFiniteSet(1..N)
    BY IntervalsAre
  <2> HIDE DEF S
  <2> QED
    BY <1>0, <2>1, FS_Subset, FS_CardinalityType
<1>2. \A n \in 1..M : \E i \in S : Cardinality(ahead[i]) = n - 1
  <2> HIDE DEF S
  <2>1. ahead \in [S -> SUBSET S]
    OBVIOUS
  <2>2. \A i \in S : i \notin ahead[i]
    BY <1>0
  <2>3. \A i, j \in S : i # j => i \in ahead[j] \/ j \in ahead[i]
    BY <1>0
  <2>4. \A i, j \in S : i \in ahead[j] => ahead[i] \subseteq ahead[j]
    <3> SUFFICES ASSUME NEW i \in S, NEW j \in S, i \in ahead[j], NEW k \in ahead[i]
                 PROVE  k \in ahead[j]
      OBVIOUS
    <3>1. k \in S /\ given[k].id < given[i].id /\ given[i].id < given[j].id
      OBVIOUS
    <3> QED
      BY <3>1, <1>0
  <2> HIDE DEF ahead
  <2> QED
    BY <1>1, <2>1, <2>2, <2>3, <2>4, PlacesAreTaken
<1>3. \A n \in 1..M : \E i \in S : Cardinality(before(i)) = n - 1
  <2> HIDE DEF S, before
  <2> QED
    BY <1>2
<1>4. kept = [n \in 1..M |-> given[CHOOSE i \in S : Cardinality(before(i)) = n - 1]]
  BY DEF Deduped
<1> HIDE DEF kept, ahead, before, S, M
<1>5. \A n \in 1..M : \E i \in 1..N : kept[n] = given[i]
  BY <1>0, <1>3, <1>4
<1>6. kept = [n \in 1..M |-> kept[n]]
  BY <1>4
<1>7. Len(kept) = M
  BY <1>1, <1>6, ListsAre
<1> QED
  BY <1>1, <1>5, <1>6, <1>7 DEF IsList, kept

(* The shelf holds what was made by the functions, each under an id of its own,*)
(* and what was retrieved was retrieved from it.                               *)
RecallInv ==
  /\ IsShelf(shelf)
  /\ context # None =>
       /\ shelf # <<>> /\ context.query \in DOMAIN Relevance /\ context.budget \in Nat \ {0}
       /\ context.found = Retrieve(shelf, context.query, context.budget)

LEMMA ShelveKeeps ==
  ASSUME RecallInv, NEW v, Shelve(v), OnShelf(Len(shelf) + 1, v)
  PROVE  RecallInv'
<1>1. IsShelf(shelf')
  <2>1. shelf' = Append(shelf, v) /\ IsList(shelf) /\ \A k \in 1..Len(shelf) : OnShelf(k, shelf[k])
    BY DEF Shelve, RecallInv, IsShelf
  <2>2. /\ IsList(shelf') /\ Len(shelf') = Len(shelf) + 1 /\ shelf'[Len(shelf) + 1] = v
        /\ \A k \in 1..Len(shelf) : shelf'[k] = shelf[k]
    BY <2>1, ListsGrow
  <2>3. Len(shelf) \in Nat
    BY <2>1 DEF IsList
  <2>4. ASSUME NEW k \in 1..Len(shelf') PROVE OnShelf(k, shelf'[k])
    <3>1. CASE k = Len(shelf) + 1
      BY <3>1, <2>2
    <3>2. CASE k # Len(shelf) + 1
      <4>1. k \in 1..Len(shelf)
        BY <3>2, <2>2, <2>3
      <4> QED
        BY <4>1, <2>1, <2>2
    <3> QED
      BY <3>1, <3>2
  <2> QED
    BY <2>2, <2>4 DEF IsShelf
<1>2. context' = None
  BY DEF Shelve
<1> QED
  BY <1>1, <1>2 DEF RecallInv
LEMMA RememberKeeps == ASSUME RecallInv, NEW words \in Texts, Remember(words) PROVE RecallInv'
<1> DEFINE id == Len(shelf) + 1
           v == CreateDigest([id |-> id, formed |-> TRUE, type |-> "accepted", reliability |-> "high", text |-> words])
<1>1. Shelve(v) /\ v # Refused
  BY DEF Remember, Shelve
<1>2. v.is = "digest" /\ v.id = id /\ v.text \in Texts \ {Blank}
  BY <1>1 DEF CreateDigest, DigestIsValid
<1> HIDE DEF v
<1>3. OnShelf(id, v)
  BY <1>2 DEF OnShelf
<1> QED
  BY <1>1, <1>3, ShelveKeeps
LEMMA NoteKeeps ==
  ASSUME RecallInv, NEW first \in Texts, NEW second \in Texts, Note(first, second)
  PROVE  RecallInv'
<1> DEFINE id == Len(shelf) + 1
           given == <<[id |-> 2, text |-> first], [id |-> 1, text |-> second]>>
           v == CreateUpdate(id, given, 2, TRUE)
<1>1. Shelve(v) /\ v # Refused
  BY DEF Note, Shelve
<1>2. IsNumbered(given, 2) /\ \A k \in 1..2 : given[k].id \in Nat /\ given[k].text \in Texts
  BY DEF IsNumbered
<1> HIDE DEF given
<1>3. IsList(Deduped(given)) /\ \A n \in 1..Len(Deduped(given)) : \E i \in 1..2 : Deduped(given)[n] = given[i]
  BY <1>2, DedupedAre
<1>4. /\ v.is = "update" /\ v.id = id /\ v.facts = Deduped(given) /\ DistinctIds(v.facts)
      /\ \A i \in DOMAIN v.facts : v.facts[i].text # Blank
  BY <1>1 DEF CreateUpdate, UpdateIsValid
<1> HIDE DEF v
<1>5. IsListed(v.facts)
  BY <1>2, <1>3, <1>4 DEF IsListed
<1>6. DOMAIN v.facts = 1..Len(v.facts)
  BY <1>3, <1>4 DEF IsList
<1>7. OnShelf(id, v)
  BY <1>4, <1>5, <1>6 DEF OnShelf
<1> QED
  BY <1>1, <1>7, ShelveKeeps
LEMMA ArchiveKeeps ==
  ASSUME RecallInv, NEW n \in DOMAIN shelf, NEW blank \in BOOLEAN, NEW chosen \in [1..n -> DOMAIN shelf],
         Archive(chosen, blank)
  PROVE  RecallInv'
<1> DEFINE id == Len(shelf) + 1
           records == [k \in DOMAIN chosen |-> DigestRecord(shelf[chosen[k]])]
           given == IF blank THEN [records EXCEPT ![1].text = Blank] ELSE records
           v == CreatePack("episodes", given, TRUE)
<1>1. Shelve(v) /\ v # Refused /\ \A k \in DOMAIN chosen : shelf[chosen[k]].is = "digest"
  BY DEF Archive, Shelve
<1>2. /\ Len(shelf) \in Nat /\ DOMAIN shelf = 1..Len(shelf) /\ n \in Nat /\ DOMAIN chosen = 1..n
      /\ \A i \in 1..Len(shelf) : OnShelf(i, shelf[i])
  BY DEF RecallInv, IsShelf, IsList
<1>3. \A k \in 1..n : shelf[chosen[k]].id \in Nat /\ shelf[chosen[k]].text \in Texts
  BY <1>1, <1>2 DEF OnShelf
<1>4. /\ given = [k \in 1..n |-> given[k]]
      /\ \A k \in 1..n : given[k].id \in Nat /\ given[k].text \in Texts
  <2>1. \A k \in 1..n : records[k].id \in Nat /\ records[k].text \in Texts
    BY <1>2, <1>3 DEF DigestRecord
  <2>2. records = [k \in 1..n |-> records[k]]
    BY <1>2
  <2>3. \A k \in 1..n : "text" \in DOMAIN records[k] /\ "id" \in DOMAIN records[k]
    BY <1>2 DEF DigestRecord
  <2> HIDE DEF records
  <2>4. [records EXCEPT ![1].text = Blank] = [k \in 1..n |-> [records EXCEPT ![1].text = Blank][k]]
    BY <2>2
  <2>5. \A k \in 1..n : /\ [records EXCEPT ![1].text = Blank][k].id \in Nat
                        /\ [records EXCEPT ![1].text = Blank][k].text \in Texts
    BY <2>1, <2>2, <2>3, TextsAreCosted
  <2> QED
    BY <2>1, <2>2, <2>4, <2>5
<1> HIDE DEF given
<1>5. n \in Nat /\ IsNumbered(given, n)
  BY <1>2, <1>4 DEF IsNumbered
<1>6. v.is = "pack" /\ v.records = SortedById(given) /\ DistinctIds(v.records)
  BY <1>1 DEF CreatePack, PackIsValid
<1> HIDE DEF v
<1>7. IsListed(v.records)
  BY <1>4, <1>5, <1>6, SortedIsListed
<1>8. OnShelf(id, v)
  BY <1>6, <1>7 DEF OnShelf
<1> QED
  BY <1>1, <1>8, ShelveKeeps
LEMMA RecallStep == ASSUME RecallInv, [Next]_vars PROVE RecallInv'
<1>1. ASSUME NEW query \in Queries, NEW budget \in Budgets, Recall(query, budget) PROVE RecallInv'
  BY <1>1, QueriesAreAsked DEF Recall, RecallInv
<1>2. CASE Remembering
  BY <1>1, <1>2, RememberKeeps, NoteKeeps, ArchiveKeeps DEF Remembering
<1>3. CASE UNCHANGED recalled
  BY <1>3 DEF recalled, RecallInv
<1>4. Remembering \/ UNCHANGED recalled
  <2>1. Screening \/ Reading => UNCHANGED recalled
    BY DEF Screening, Report, SetRuntime, SetRate, Screen, Reading, ReadText
  <2>2. Follow => UNCHANGED recalled
    BY DEF Follow, Push, Close, Reopen, Merge, Revert, Review, Live, FetchPr, FetchReview, FetchRevert,
           Quarantine, CallStale, Fetched, Collect, Digest
  <2>3. Committing \/ Sealing \/ Rehearsing => UNCHANGED recalled
    BY DEF Committing, Write, Sealing, Edit, Hash, Seal, Sign, Put, Rehearsing, Rehearse
  <2> QED
    BY <2>1, <2>2, <2>3 DEF Next, vars
<1> QED
  BY <1>2, <1>3, <1>4

(* NothingThatFitsIsLeftOut: a context (retrieval.ts) holds every candidate    *)
(* the rest of its budget would pay for, and is refused only for a record in   *)
(* two packs (packer.ts) or a payload with nothing to show.                    *)
THEOREM ContextsLeaveNothingOut == Spec => []NothingThatFitsIsLeftOut
<1>1. Init => RecallInv
  <2>1. <<>> = [k \in 1..0 |-> <<>>[k]] /\ Len(<<>>) = 0
    OBVIOUS
  <2> QED
    BY <2>1 DEF Init, RecallInv, IsShelf, IsList
<1>2. RecallInv /\ [Next]_vars => RecallInv'
  BY RecallStep
<1>3. RecallInv => NothingThatFitsIsLeftOut
  <2> SUFFICES ASSUME RecallInv, context # None PROVE NothingThatFitsIsLeftOut
    BY DEF NothingThatFitsIsLeftOut
  <2>1. Complete(shelf, context.query, context.budget, context.found)
    BY RetrievalsAreComplete DEF RecallInv
  <2> QED
    BY <2>1 DEF Complete, NothingThatFitsIsLeftOut
<1> QED
  BY <1>1, <1>2, <1>3, PTL DEF Spec
===============================================================================
