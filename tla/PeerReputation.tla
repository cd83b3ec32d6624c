---------------------------- MODULE PeerReputation ----------------------------
(* The reputation of a peer (T063, packages/eval/src/peer-reputation.ts): a    *)
(* score from what became of its proposals and from policy events about it,    *)
(* the action the score and the events recommend, and the manifest that holds  *)
(* them.  Outcomes and events are sets of records with distinct ids; refs,     *)
(* digests, source kinds and triggers are left out, nothing depends on them.   *)
EXTENDS Integers, FiniteSets, FiniteSetsExt

CONSTANT Weights   \* what an outcome, a breach and an event add to a score

Adoptions == {"accepted", "rejected", "blocked", "invalid"}
Risks == {"low", "medium", "high", "critical"}
EventActions == {"none", "downrank", "quarantine", "revocation_review"}
WeightType == [adoption : [Adoptions -> -100..100], breach : [Risks -> -100..100],
               event : [Risks -> -100..100]]

SignsAreKept ==
  /\ Weights.adoption["accepted"] > 0
  /\ \A a \in Adoptions \ {"accepted"} : Weights.adoption[a] < 0
  /\ \A r \in Risks : Weights.breach[r] < 0 /\ Weights.event[r] < 0
ASSUME WeightsAreSemantic == Weights \in WeightType /\ SignsAreKept

OutcomeType == [id : Nat, adoption : Adoptions, compliant : BOOLEAN, risk : Risks]
EventType == [id : Nat, severity : Risks, action : EventActions]

(* The standing of a peer as this package, the exporter and the composer know  *)
(* it: what is neither active nor quarantined is revoked.                      *)
Standing(status) == IF status \in {"active", "quarantined"} THEN status ELSE "revoked"
TreatyStanding(status) == IF status \in {"active", "suspended"} THEN status ELSE "revoked"

OutcomeDelta ==
  [o \in OutcomeType |->
     Weights.adoption[o.adoption] + (IF o.compliant THEN 0 ELSE Weights.breach[o.risk])]
EventDelta == [e \in EventType |-> Weights.event[e.severity]]
Deltas(outcomes, events) ==
  SumFunctionOnSet(OutcomeDelta, outcomes) + SumFunctionOnSet(EventDelta, events)

(* Mutant: the mean of the deltas, not their sum. *)
MeanDelta(outcomes, events) ==
  LET n == Cardinality(outcomes) + Cardinality(events)
  IN IF n = 0 THEN 50 ELSE 50 + Deltas(outcomes, events) \div n
Clamp(n) == IF n < 0 THEN 0 ELSE IF n > 100 THEN 100 ELSE n
ScoreValue(outcomes, events) == Clamp(50 + Deltas(outcomes, events))

Rejections(outcomes) == Cardinality({o \in outcomes : o.adoption = "rejected"})
RevocationTriggered(score, events) ==
  score < 15 \/ \E e \in events : e.action = "revocation_review" \/ e.severity = "critical"
(* Mutant: the score at which a quarantine is recommended is that of a review. *)
QuarantineBelowReview(score, standing, outcomes, events) ==
  \/ score < 15 \/ standing = "quarantined"
  \/ \E e \in events : e.action = "quarantine" \/ e.severity \in {"high", "critical"}
QuarantineThresholdMet(score, standing, outcomes, events) ==
  \/ score < 30 \/ standing = "quarantined"
  \/ \E o \in outcomes : ~o.compliant /\ o.risk \in {"high", "critical"}
  \/ \E e \in events : e.action = "quarantine" \/ e.severity \in {"high", "critical"}

RecommendedAction(score, standing, outcomes, events) ==
  IF RevocationTriggered(score, events) THEN "revocation_review"
  ELSE IF QuarantineThresholdMet(score, standing, outcomes, events) THEN "quarantine"
  ELSE IF score < 50 \/ Rejections(outcomes) >= 2 THEN "downrank"
  ELSE "observe"

ComputeScore(standing, outcomes, events) ==
  LET score == ScoreValue(outcomes, events)
  IN [score |-> score, action |-> RecommendedAction(score, standing, outcomes, events)]

(* evaluatePeerReputation: blocked when there is no treaty in force with the   *)
(* peer.  t is the treaty with the peers it names, as it is at the time.       *)
ReputationBlocked(peer, standing, t) ==
  standing = "revoked" \/ t.status # "active" \/ t.expired \/ t.target # peer
EvaluateReputation(peer, standing, t, outcomes, events) ==
  [status |-> IF ReputationBlocked(peer, standing, t) THEN "blocked" ELSE "ready",
   peer |-> peer, standing |-> standing, treaty |-> t, outcomes |-> outcomes, events |-> events,
   computed |-> ComputeScore(standing, outcomes, events)]

(* validatePeerReputation of what evaluatePeerReputation gave: the target is   *)
(* compared for a blocked manifest too.                                        *)
ReputationReadsBack(m) ==
  /\ m.outcomes # {}
  /\ \A o, q \in m.outcomes : o.id = q.id => o = q
  /\ \A e, q \in m.events : e.id = q.id => e = q
  /\ m.computed = ComputeScore(m.standing, m.outcomes, m.events)
  /\ m.status = "ready" => m.standing # "revoked" /\ m.treaty.status = "active" /\ ~m.treaty.expired
  /\ m.treaty.target = m.peer
=============================================================================
