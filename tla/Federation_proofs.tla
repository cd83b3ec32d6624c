------------------------- MODULE Federation_proofs -------------------------
(* Theorems about Federation for any topology, any weights and histories, any *)
(* intervals and windows: the gates that look at a peer agree, two syncs with *)
(* a peer are an interval apart, the report shows what was refused, and a     *)
(* history that only gets worse never looks better.  The first three rest on  *)
(* what a score is compared with, the last one on its being a sum.            *)
EXTENDS Federation, FiniteSetTheorems, NaturalsInduction, WellFoundedInduction, TLAPS

(* A score below the boundary's limit comes with a recommendation that the    *)
(* plan heeds, whoever computed it.                                           *)
LowScoresAreReviewed ==
  \A p \in Partners : LastScore(p).score < 30 => LastScore(p).action \in Reviewed

RegistryTyped == registry \in [Peers -> [status : Statuses, known : BOOLEAN]]

(* What is left until a scheduled sync and what passed since the last one make *)
(* up an interval.                                                            *)
TimesTyped ==
  /\ elapsed \in [Partners -> Nat] /\ window \in [left : 1..WindowLength, count : Nat]
  /\ plan # None => plan \in [Partners -> EntryType]
SchedulesWait ==
  plan # None => \A p \in Partners :
    plan[p].decision = "schedule" => plan[p].due + elapsed[p] >= BaseInterval

GatesInv == RegistryTyped /\ LowScoresAreReviewed
TimesInv == TimesTyped /\ SchedulesWait

----------------------------------------------------------------------------
(* The treaty a partner is synced under is between the local repository and it. *)
LEMMA LinksFit ==
  ASSUME NEW p \in Partners
  PROVE  /\ LinkWith[p] \in Links
         /\ Terms[LinkWith[p]].source = Local /\ Terms[LinkWith[p]].target = p
         /\ p \in Peers
<1>1. PICK l \in Links : Terms[l].source = Local /\ Terms[l].target = p
  BY DEF Partners
<1>2. LinkWith[p] = CHOOSE k \in Links : Terms[k].source = Local /\ Terms[k].target = p
  BY DEF LinkWith
<1>3. QED
  BY <1>1, <1>2 DEF Partners

(* A low score is reviewed: the quarantine's limit is the boundary's.         *)
LEMMA ComputedIsReviewed ==
  ASSUME NEW standing, NEW outcomes, NEW events
  PROVE  ComputeScore(standing, outcomes, events).score < 30
           => ComputeScore(standing, outcomes, events).action \in Reviewed
BY DEF ComputeScore, RecommendedAction, QuarantineThresholdMet, Reviewed

(* For a partner in good order the two gates ask the same.                    *)
LEMMA GatesInvAgree == GatesInv => GatesAgree
<1> SUFFICES ASSUME GatesInv, NEW p \in Partners
             PROVE  Decision(p, "gossip_sync") = "allowed" <=>
                      /\ ~Skips(runtime, Entry(p))
                      /\ registry[p].known /\ ~TreatyWith(p).expired
                      /\ "gossip_sync" \in TreatyWith(p).actions
  BY DEF GatesAgree
<1> DEFINE request == [action |-> "gossip_sync", source |-> Local, target |-> p, wants |-> {}]
<1>1. TreatyWith(p).source = Local /\ TreatyWith(p).target = p
  BY LinksFit DEF TreatyWith, Treaty
<1>2. registry[p].status \in Statuses /\ registry[p].known \in BOOLEAN
  BY LinksFit DEF GatesInv, RegistryTyped
<1>3. LastScore(p).score < 30 => LastScore(p).action \in Reviewed
  BY DEF GatesInv, LowScoresAreReviewed
<1>4. MustQuarantine(Peer(p), LastScore(p), request) <=>
        \/ ~registry[p].known \/ registry[p].status \in {"unknown", "quarantined"}
        \/ LastScore(p).action \in Reviewed
  BY <1>3 DEF MustQuarantine, Peer
<1>5. MustReject(runtime, Peer(p), TreatyWith(p), request) <=>
        \/ RuntimeBlocks(runtime) \/ registry[p].status \in {"suspended", "deprecated"}
        \/ TreatyWith(p).status # "active" \/ TreatyWith(p).expired
        \/ "gossip_sync" \notin TreatyWith(p).actions
  BY <1>1 DEF MustReject, Peer
<1>6. Skips(runtime, Entry(p)) <=>
        \/ registry[p].status # "active" \/ TreatyWith(p).status # "active"
        \/ LastScore(p).action \in Reviewed \/ RuntimeBlocks(runtime)
  BY DEF Skips, Entry
<1>7. Decision(p, "gossip_sync") = "allowed" <=>
        /\ ~MustQuarantine(Peer(p), LastScore(p), request)
        /\ ~MustReject(runtime, Peer(p), TreatyWith(p), request)
  BY DEF Decision, BoundaryDecision
<1> HIDE DEF request
<1>8. QED
  BY <1>2, <1>4, <1>5, <1>6, <1>7 DEF Statuses

LEMMA InitGates == Init => GatesInv
BY DEF Init, GatesInv, RegistryTyped, LowScoresAreReviewed, LastScore, Statuses

LEMMA StepKeepsGates == GatesInv /\ [Next]_vars => GatesInv'
<1> SUFFICES ASSUME GatesInv, [Next]_vars PROVE GatesInv'
  OBVIOUS
<1> USE DEF GatesInv
<1>1. RegistryTyped'
  <2>1. ASSUME NEW p \in Peers, NEW status \in PeerStatuses, SetStatus(p, status)
        PROVE  RegistryTyped'
    BY <2>1, ChoicesAreValid DEF SetStatus, RegistryTyped
  <2>2. ASSUME NEW p \in Peers, Forget(p) PROVE RegistryTyped'
    BY <2>2 DEF Forget, RegistryTyped
  <2>3. CASE UNCHANGED registry
    BY <2>3 DEF RegistryTyped
  <2>4. (\E p \in Peers : Forget(p) \/ \E status \in PeerStatuses : SetStatus(p, status))
        \/ UNCHANGED registry
    BY DEF Next, vars, world, SetTreaty, Expire, SetRuntime, StartCooldown, RecordOutcome, RecordEvent,
           Evaluate, Plan, Tick, Sync, Drop, Export, Compose, Compare, Demonstrate
  <2>5. QED
    BY <2>1, <2>2, <2>3, <2>4
<1>2. LowScoresAreReviewed'
  <2>1. CASE UNCHANGED reputation
    BY <2>1 DEF LowScoresAreReviewed, LastScore
  <2>2. ASSUME NEW q \in Partners, Evaluate(q) PROVE LowScoresAreReviewed'
    <3> SUFFICES ASSUME NEW p \in Partners
                 PROVE  (LastScore(p).score < 30 => LastScore(p).action \in Reviewed)'
      BY DEF LowScoresAreReviewed
    <3> DEFINE t == [TreatyWith(q) EXCEPT !.status = TreatyStanding(@)]
               m == EvaluateReputation(q, Standing(registry[q].status), t,
                                       history[q].outcomes, history[q].events)
    <3>1. reputation' = [reputation EXCEPT ![q] = m]
      BY <2>2 DEF Evaluate
    <3>2. m.computed = ComputeScore(Standing(registry[q].status), history[q].outcomes, history[q].events)
      BY DEF EvaluateReputation
    <3>3. m.computed.score < 30 => m.computed.action \in Reviewed
      BY <3>2, ComputedIsReviewed
    <3> HIDE DEF m
    <3>4. reputation'[p] = reputation[p] \/ reputation'[p] = m
      BY <3>1
    <3>5. CASE reputation'[p] = reputation[p]
      BY <3>5 DEF LowScoresAreReviewed, LastScore
    <3>6. CASE reputation'[p] = m
      BY <3>3, <3>6 DEF LastScore
    <3>7. QED
      BY <3>4, <3>5, <3>6
  <2>3. (\E q \in Partners : Evaluate(q)) \/ UNCHANGED reputation
    BY DEF Next, vars, Change, SetStatus, Forget, SetTreaty, Expire, SetRuntime, StartCooldown,
           RecordOutcome, RecordEvent, Plan, Tick, Sync, Drop, Export, Compose, Compare, Demonstrate
  <2>4. QED
    BY <2>1, <2>2, <2>3
<1>3. QED
  BY <1>1, <1>2

(* The boundary and the gossip plan agree on every partner, however statuses, *)
(* treaties, runtime and scores changed since the last manifest: what the     *)
(* boundary asks for beyond the plan is that the peer is known and that the   *)
(* treaty runs and lists the action (boundary.ts and gossip.ts).              *)
THEOREM GatesAlwaysAgree == Spec => []GatesAgree
<1>1. Init => GatesInv
  BY InitGates
<1>2. GatesInv /\ [Next]_vars => GatesInv'
  BY StepKeepsGates
<1>3. GatesInv => GatesAgree
  BY GatesInvAgree
<1>4. QED
  BY <1>1, <1>2, <1>3, PTL DEF Spec

----------------------------------------------------------------------------
(* The gossip plan.                                                           *)

LEMMA CadenceWaits ==
  ASSUME NEW e, e.elapsed \in Nat, NEW jitter \in Nat
  PROVE  CadenceAt(e, jitter) \in Nat /\ CadenceAt(e, jitter) >= BaseInterval
BY RateBoundaryIsValid DEF CadenceAt, MaxOf

(* A planned sync waits an interval; whatever else is decided waits some time. *)
LEMMA DecisionsWait ==
  ASSUME NEW r, NEW entries, IsFiniteSet(DOMAIN entries), NEW place, NEW count \in Nat,
         NEW reset \in Nat, NEW p,
         entries[p].elapsed \in Nat, entries[p].cooldown \in Nat,
         NEW jitter, jitter[p] \in Nat
  PROVE  LET d == PeerDecision(r, entries, place, count, reset, jitter, p)
         IN  d \in EntryType /\ (d.decision = "schedule" => d.due >= BaseInterval)
<1> DEFINE e == entries[p]
           d == PeerDecision(r, entries, place, count, reset, jitter, p)
<1>1. CadenceAt(e, jitter[p]) \in Nat /\ CadenceAt(e, jitter[p]) >= BaseInterval
  BY CadenceWaits
<1>2. CASE Skips(r, e)
  BY <1>2 DEF PeerDecision, EntryType, NeedsSlot
<1>3. CASE ~Skips(r, e) /\ e.cooldown > 0
  BY <1>1, <1>3 DEF PeerDecision, EntryType, NeedsSlot, MaxOf
<1>4. CASE NeedsSlot(r, e)
  <2>1. Cardinality(Before(r, entries, place, p)) \in Nat
    BY FS_Subset, FS_CardinalityType DEF Before
  <2>2. AvailableSlots(count) \in Int
    BY RateBoundaryIsValid DEF AvailableSlots, MinOf, MaxOf
  <2>3. Cardinality(Before(r, entries, place, p)) >= AvailableSlots(count)
        <=> ~(Cardinality(Before(r, entries, place, p)) < AvailableSlots(count))
    BY <2>1, <2>2
  <2>4. QED
    BY <1>1, <1>4, <2>3 DEF PeerDecision, EntryType, NeedsSlot
<1>5. QED
  BY <1>2, <1>3, <1>4 DEF NeedsSlot

CooldownTyped == cooldown \in [Partners -> Nat]
GossipInv == TimesInv /\ CooldownTyped

LEMMA InitGossip == Init => GossipInv
<1> SUFFICES ASSUME Init PROVE GossipInv
  OBVIOUS
<1>1. plan = None /\ cooldown = [p \in Partners |-> 0] /\ elapsed = [p \in Partners |-> BaseInterval]
      /\ window = [left |-> WindowLength, count |-> 0]
  BY DEF Init
<1>2. QED
  BY <1>1, RateBoundaryIsValid DEF GossipInv, TimesInv, TimesTyped, SchedulesWait, CooldownTyped

LEMMA PlanKeepsGossip ==
  ASSUME GossipInv, Plan
  PROVE  GossipInv'
<1> USE DEF GossipInv, TimesInv
<1> DEFINE entries == [p \in Partners |-> Entry(p)]
<1>1. PICK jitter \in [Partners -> 0..JitterMax] :
        plan' = ComputePlan(runtime, entries, Place, window.count, window.left, jitter)
  BY DEF Plan
<1>2. UNCHANGED <<elapsed, window, cooldown>>
  BY DEF Plan, world
<1>3. ASSUME NEW p \in Partners
      PROVE  plan'[p] \in EntryType /\ (plan'[p].decision = "schedule" => plan'[p].due >= BaseInterval)
  <2>1. entries[p].elapsed = elapsed[p] /\ entries[p].cooldown = cooldown[p]
    BY DEF Entry
  <2>2. jitter[p] \in Nat
    BY RateBoundaryIsValid
  <2>3. window.left \in Nat /\ window.count \in Nat
    BY RateBoundaryIsValid DEF TimesTyped
  <2>4. elapsed[p] \in Nat /\ cooldown[p] \in Nat
    BY DEF TimesTyped, CooldownTyped
  <2>5. plan'[p] = PeerDecision(runtime, entries, Place, window.count, window.left, jitter, p)
    BY <1>1 DEF ComputePlan
  <2>6. IsFiniteSet(DOMAIN entries)
    BY TopologyIsValid, FS_Subset DEF IsTopology, Partners
  <2> HIDE DEF entries
  <2>7. QED
    BY <2>1, <2>2, <2>3, <2>4, <2>5, <2>6, DecisionsWait
<1>4. plan' \in [Partners -> EntryType]
  BY <1>1, <1>3 DEF ComputePlan
<1>5. SchedulesWait'
  BY <1>2, <1>3, RateBoundaryIsValid DEF SchedulesWait, TimesTyped, EntryType
<1>6. QED
  BY <1>2, <1>4, <1>5 DEF TimesTyped, CooldownTyped

LEMMA TickKeepsGossip ==
  ASSUME GossipInv, Tick
  PROVE  GossipInv'
<1> USE DEF GossipInv, TimesInv
<1>1. cooldown' = [p \in Partners |-> Less(cooldown[p])]
      /\ elapsed' = [p \in Partners |-> MinOf(elapsed[p] + 1, BaseInterval + JitterMax)]
      /\ window' = IF window.left = 1 THEN [left |-> WindowLength, count |-> 0]
                   ELSE [window EXCEPT !.left = @ - 1]
  BY DEF Tick
<1>2. CooldownTyped'
  BY <1>1 DEF CooldownTyped, Less
<1>3. elapsed' \in [Partners -> Nat]
  BY <1>1, RateBoundaryIsValid DEF TimesTyped, MinOf
<1>4. window' \in [left : 1..WindowLength, count : Nat]
  BY <1>1, RateBoundaryIsValid DEF TimesTyped
<1>5. CASE plan = None
  BY <1>2, <1>3, <1>4, <1>5 DEF Tick, TimesTyped, SchedulesWait
<1>6. CASE plan # None
  <2>1. plan' = [p \in Partners |-> [plan[p] EXCEPT !.due = Less(@)]]
    BY <1>6 DEF Tick
  <2>2. ASSUME NEW p \in Partners
        PROVE  /\ plan'[p] \in EntryType
               /\ plan'[p].decision = plan[p].decision /\ plan'[p].due = Less(plan[p].due)
    BY <1>6, <2>1 DEF TimesTyped, EntryType, Less
  <2>3. plan' \in [Partners -> EntryType]
    BY <2>1, <2>2
  <2>4. ASSUME NEW p \in Partners, plan'[p].decision = "schedule"
        PROVE  plan'[p].due + elapsed'[p] >= BaseInterval
    <3>1. plan[p].due \in Nat /\ elapsed[p] \in Nat
      BY <1>6 DEF TimesTyped, EntryType
    <3>2. plan[p].due + elapsed[p] >= BaseInterval
      BY <1>6, <2>2, <2>4 DEF SchedulesWait
    <3>3. QED
      BY <1>1, <2>2, <3>1, <3>2, RateBoundaryIsValid DEF Less, MinOf
  <2>5. QED
    BY <1>2, <1>3, <1>4, <2>3, <2>4 DEF TimesTyped, SchedulesWait
<1>7. QED
  BY <1>5, <1>6

(* Who took a slot starts a new interval, without a schedule. *)
LEMMA TakingKeepsGossip ==
  ASSUME GossipInv, NEW p \in Partners, Sync(p) \/ Drop(p)
  PROVE  GossipInv'
<1> USE DEF GossipInv, TimesInv
<1>1. plan # None /\ plan' = [plan EXCEPT ![p] = [decision |-> "done", due |-> 0]]
  BY DEF Sync, Drop, IsDue, Took
<1>2. plan' \in [Partners -> EntryType]
  BY <1>1 DEF TimesTyped, EntryType
<1>3. elapsed' \in [Partners -> Nat] /\ \A q \in Partners : q # p => elapsed'[q] = elapsed[q]
  BY DEF Sync, Drop, TimesTyped
<1>4. window' \in [left : 1..WindowLength, count : Nat]
  BY DEF Sync, Drop, TimesTyped
<1>5. cooldown' = cooldown
  BY DEF Sync, Drop, world
<1>6. SchedulesWait'
  BY <1>1, <1>3 DEF SchedulesWait, TimesTyped
<1>7. QED
  BY <1>2, <1>3, <1>4, <1>5, <1>6 DEF TimesTyped, CooldownTyped

LEMMA StepKeepsGossip == GossipInv /\ [Next]_vars => GossipInv'
<1> SUFFICES ASSUME GossipInv, [Next]_vars PROVE GossipInv'
  OBVIOUS
<1>1. CASE Plan
  BY <1>1, PlanKeepsGossip
<1>2. CASE Tick
  BY <1>2, TickKeepsGossip
<1>3. ASSUME NEW p \in Partners, Sync(p) \/ Drop(p) PROVE GossipInv'
  BY <1>3, TakingKeepsGossip
<1>4. ASSUME NEW p \in Partners, StartCooldown(p) PROVE GossipInv'
  BY <1>4, RateBoundaryIsValid
     DEF StartCooldown, Change, gossip, GossipInv, TimesInv, TimesTyped, SchedulesWait, CooldownTyped
<1>5. CASE UNCHANGED <<plan, elapsed, window, cooldown>>
  BY <1>5 DEF GossipInv, TimesInv, TimesTyped, SchedulesWait, CooldownTyped
<1>6. \/ Plan \/ Tick \/ (\E p \in Partners : Sync(p) \/ Drop(p) \/ StartCooldown(p))
      \/ UNCHANGED <<plan, elapsed, window, cooldown>>
  BY DEF Next, vars, world, gossip, Change, SetStatus, Forget, SetTreaty, Expire, SetRuntime,
         RecordOutcome, RecordEvent, Evaluate, Export, Compose, Compare, Demonstrate
<1>7. QED
  BY <1>1, <1>2, <1>3, <1>4, <1>5, <1>6

(* Only a sync of p resets p and uses up a slot of the window.                *)
LEMMA SyncsWait ==
  ASSUME GossipInv, [Next]_vars, NEW p \in Partners,
         window'.count > window.count, plan # plan', plan[p] # plan'[p]
  PROVE  elapsed[p] >= BaseInterval
<1> USE DEF GossipInv, TimesInv
<1>1. window.count \in Nat /\ window.left \in Nat
  BY RateBoundaryIsValid DEF TimesTyped
<1>2. window' # window
  BY <1>1
<1>3. ~Tick
  <2> SUFFICES ASSUME Tick PROVE FALSE
    OBVIOUS
  <2>1. window' = [left |-> WindowLength, count |-> 0] \/ window' = [window EXCEPT !.left = @ - 1]
    BY DEF Tick
  <2>2. window'.count \in {0, window.count}
    BY <2>1 DEF TimesTyped
  <2>3. QED
    BY <1>1, <2>2
<1>4. PICK q \in Partners : Sync(q)
  BY <1>2, <1>3 DEF Next, vars, world, gossip, Change, SetStatus, Forget, SetTreaty, Expire, SetRuntime,
         StartCooldown, RecordOutcome, RecordEvent, Evaluate, Plan, Drop, Export, Compose, Compare,
         Demonstrate
<1>5. plan # None /\ plan[q] = [decision |-> "schedule", due |-> 0]
      /\ plan' = [plan EXCEPT ![q] = [decision |-> "done", due |-> 0]]
  BY <1>4 DEF Sync, IsDue, Took
<1>6. q = p
  BY <1>5 DEF TimesTyped
<1>7. QED
  BY <1>5, <1>6 DEF SchedulesWait, TimesTyped

(* Two syncs with a peer are an interval apart, however plans, delays, resets *)
(* of the window and changes of the registry fall between them (gossip.ts).   *)
THEOREM SyncsAlwaysSpaced == Spec => SyncsAreSpaced
<1>1. Init => GossipInv
  BY InitGossip
<1>2. GossipInv /\ [Next]_vars => GossipInv'
  BY StepKeepsGossip
<1>3. GossipInv /\ [Next]_vars =>
        [\A p \in Partners : window'.count > window.count /\ elapsed'[p] = 0 /\ plan # plan'
                                /\ plan[p] # plan'[p] => elapsed[p] >= BaseInterval]_vars
  BY SyncsWait
<1>4. QED
  BY <1>1, <1>2, <1>3, PTL DEF Spec, SyncsAreSpaced

----------------------------------------------------------------------------
(* The demonstration's report.                                                *)

(* A report that could be rendered flags a peer as its one record says.       *)
LEMMA FlagsAreTheRecords ==
  ASSUME NEW in, RenderReport(in) # Invalid, NEW p \in in.peers
  PROVE  RenderReport(in).flags[p.id] = RiskFlags(in, p)
<1>1. ReportIsValid(in)
  BY DEF RenderReport
<1>2. (CHOOSE q \in in.peers : q.id = p.id) = p
  BY <1>1 DEF ReportIsValid
<1>3. p.id \in {q.id : q \in in.peers}
  OBVIOUS
<1>4. QED
  BY <1>1, <1>2, <1>3 DEF RenderReport

LEMMA StandingsAre ==
  ASSUME NEW status
  PROVE  Standing(status) \in {"active", "quarantined", "revoked"}
BY DEF Standing

(* The record of the target, and the flag of the one decision.                *)
LEMMA TargetIsReported ==
  ASSUME NEW peers, NEW route, NEW t, NEW rep, NEW decision, route.target \in DOMAIN peers
  PROVE  /\ [id |-> route.target, status |-> Standing(peers[route.target].status),
              treaty |-> t.status, action |-> rep.computed.action,
              score |-> rep.computed.score]
               \in DemoReport(peers, route, t, rep, decision).peers
         /\ DemoReport(peers, route, t, rep, decision).decisions
              = {[id |-> "decision", peer |-> route.target, status |-> decision]}
BY Zenon DEF DemoReport

LEMMA OneDecisionFlags ==
  ASSUME NEW id, NEW decision, NEW decisions,
         decisions = {[id |-> "decision", peer |-> id, status |-> decision]}
  PROVE  {<<"boundary", d.status>> : d \in {e \in decisions :
             e.peer = id /\ e.status \in {"quarantined", "rejected"}}} = {}
         <=> decision \notin {"quarantined", "rejected"}
<1> DEFINE
      Chosen == {e \in decisions : e.peer = id /\ e.status \in {"quarantined", "rejected"}}
      e0 == [id |-> "decision", peer |-> id, status |-> decision]
<1>1. Chosen = {} <=> decision \notin {"quarantined", "rejected"}
  <2>1. e0.peer = id /\ e0.status = decision
    OBVIOUS
  <2> HIDE DEF e0
  <2>2. decisions = {e0}
    BY DEF e0
  <2>3. QED
    BY <2>1, <2>2
<1> HIDE DEF Chosen
<1>2. {<<"boundary", d.status>> : d \in Chosen} = {} <=> Chosen = {}
  OBVIOUS
<1>3. QED
  BY <1>1, <1>2 DEF Chosen

(* What the report says of the target of the route.                           *)
LEMMA TargetIsShown ==
  ASSUME NEW peers, NEW route, NEW named, NEW wants,
         \A p \in DOMAIN peers : peers[p].id = p,
         RunChain(peers, route, named, wants) # Invalid
  PROVE  LET c == RunChain(peers, route, named, wants).chain
         IN  c.report.flags[c.route.target] = {} <=> c.boundary = "allowed"
<1> DEFINE t == [named EXCEPT !.status = TreatyStanding(@)]
           source == PeerRef(peers[route.source])
           target == PeerRef(peers[route.target])
           lineage == ExportPack(DemoTreaty(route, t), source, target, DemoRecords, 2)
           rep == EvaluateReputation(target.id, target.standing, t, DemoOutcomes, {})
           known == [id |-> target.id, status |-> target.standing, known |-> peers[route.target].known]
           boundary == DemoBoundary(known, route, t, rep, wants)
           in == DemoReport(peers, route, t, rep, boundary)
           demo == [route |-> route, treaty |-> t, source |-> source, target |-> known,
                     pack |-> lineage, reputation |-> rep, boundary |-> boundary,
                     pr |-> ComposePr(lineage, DemoPolicy(peers[route.target]), DemoProposal),
                     arena |-> CompareArena({}, 50, DemoCandidates(rep)),
                     report |-> RenderReport(in)]
           row == [id |-> route.target, status |-> Standing(peers[route.target].status),
                   treaty |-> t.status, action |-> rep.computed.action,
                   score |-> rep.computed.score]
<1>1. /\ route.target \in DOMAIN peers /\ ChainReadsBack(demo)
      /\ RunChain(peers, route, named, wants).chain = demo
  BY DEF RunChain
<1>2. RenderReport(in) # Invalid
  BY <1>1 DEF ChainReadsBack, ReportReadsBack
<1>3. row \in in.peers
      /\ in.decisions = {[id |-> "decision", peer |-> route.target, status |-> boundary]}
  <2>1. route.target \in DOMAIN peers
    BY <1>1
  <2> HIDE DEF t, rep, boundary
  <2>2. QED
    BY <2>1, TargetIsReported
<1>4. target.standing = row.status /\ known.status = row.status
  BY DEF PeerRef
<1> HIDE DEF t, lineage, rep
<1>5. demo.report.flags[route.target] = RiskFlags(in, row)
  <2> HIDE DEF in
  <2>1. RenderReport(in).flags[row.id] = RiskFlags(in, row)
    BY <1>2, <1>3, FlagsAreTheRecords
  <2>2. QED
    BY <2>1
<1>6. RiskFlags(in, row) = {} <=>
        /\ row.status \notin {"quarantined", "revoked"} /\ t.status = "active"
        /\ rep.computed.action \notin {"quarantine", "revocation_review"}
        /\ boundary \notin {"quarantined", "rejected"}
  <2> DEFINE F1 == {<<"peer", s>> : s \in {row.status} \cap {"quarantined", "revoked"}}
             F2 == {<<"treaty", s>> : s \in {row.treaty} \ {"active"}}
             F3 == {<<"reputation", a>> : a \in {row.action} \cap {"quarantine", "revocation_review"}}
             F4 == {<<"boundary", d.status>> : d \in {e \in in.decisions :
                      e.peer = row.id /\ e.status \in {"quarantined", "rejected"}}}
  <2>1. RiskFlags(in, row) = F1 \cup F2 \cup F3 \cup F4
    BY DEF RiskFlags
  <2>2. F1 = {} <=> row.status \notin {"quarantined", "revoked"}
    OBVIOUS
  <2>3. F2 = {} <=> t.status = "active"
    OBVIOUS
  <2>4. F3 = {} <=> rep.computed.action \notin {"quarantine", "revocation_review"}
    OBVIOUS
  <2>5. F4 = {} <=> boundary \notin {"quarantined", "rejected"}
    <3>1. row.id = route.target
      OBVIOUS
    <3> HIDE DEF in, boundary, row
    <3>2. QED
      BY <1>3, <3>1, OneDecisionFlags
  <2> HIDE DEF F1, F2, F3, F4
  <2>6. QED
    BY <2>1, <2>2, <2>3, <2>4, <2>5
<1>7. row.status \in {"active", "quarantined", "revoked"}
  BY StandingsAre
<1>8. CASE row.status = "revoked"
  BY <1>1, <1>4, <1>5, <1>6, <1>8 DEF DemoBoundary
<1>9. CASE row.status # "revoked"
  <2>1. boundary = BoundaryDecision(DemoRuntime, known, BoundaryTreaty(route, t), rep.computed,
                                    DemoRequest(route, wants))
    BY <1>4, <1>9 DEF DemoBoundary
  <2>2. boundary \in {"quarantined", "rejected", "allowed"}
    BY <2>1 DEF BoundaryDecision
  <2>3. ASSUME boundary = "allowed"
        PROVE  /\ row.status \notin {"quarantined", "revoked"} /\ t.status = "active"
               /\ rep.computed.action \notin {"quarantine", "revocation_review"}
    <3>1. ~MustQuarantine(known, rep.computed, DemoRequest(route, wants))
          /\ ~MustReject(DemoRuntime, known, BoundaryTreaty(route, t), DemoRequest(route, wants))
      BY <2>1, <2>3 DEF BoundaryDecision
    <3>2. BoundaryTreaty(route, t).status = t.status
      BY DEF BoundaryTreaty
    <3>3. QED
      BY <1>4, <1>9, <3>1, <3>2 DEF MustQuarantine, MustReject, Reviewed
  <2>4. demo.report.flags[route.target] = {} <=> boundary = "allowed"
    BY <1>5, <1>6, <2>2, <2>3
  <2>5. QED
    BY <1>1, <2>4
<1>10. QED
  BY <1>8, <1>9

LEMMA StepKeepsRefusals == RefusalsAreShown /\ [Next]_vars => RefusalsAreShown'
<1> SUFFICES ASSUME RefusalsAreShown, [Next]_vars PROVE RefusalsAreShown'
  OBVIOUS
<1>1. CASE UNCHANGED chain
  BY <1>1 DEF RefusalsAreShown
<1>2. ASSUME NEW route \in Routes, NEW wants \in WantSets, Demonstrate(route, wants)
      PROVE  RefusalsAreShown'
  <2> DEFINE peers == [p \in Peers |-> Peer(p)]
  <2>1. chain' = RunChain(peers, route, Treaty(route.treaty), wants)
    BY <1>2 DEF Demonstrate
  <2>2. \A p \in DOMAIN peers : peers[p].id = p
    BY DEF Peer
  <2> HIDE DEF peers
  <2>3. QED
    BY <2>1, <2>2, TargetIsShown DEF RefusalsAreShown
<1>3. (\E route \in Routes, wants \in WantSets : Demonstrate(route, wants)) \/ UNCHANGED chain
  BY DEF Next, vars, manifests, Change, SetStatus, Forget, SetTreaty, Expire, SetRuntime, StartCooldown,
         RecordOutcome, RecordEvent, Evaluate, Plan, Tick, Sync, Drop, Export, Compose, Compare
<1>4. QED
  BY <1>1, <1>2, <1>3

(* Whatever a demonstration runs over, its report flags the target exactly    *)
(* when the boundary did not let the exchange through: a refusal is never     *)
(* hidden, and nothing else is blamed on the target (federation-report.ts).   *)
THEOREM RefusalsAreAlwaysShown == Spec => []RefusalsAreShown
<1>1. Init => RefusalsAreShown
  BY DEF Init, RefusalsAreShown
<1>2. RefusalsAreShown /\ [Next]_vars => RefusalsAreShown'
  BY StepKeepsRefusals
<1>3. QED
  BY <1>1, <1>2, PTL DEF Spec

----------------------------------------------------------------------------
(* Scores are sums.                                                          *)

(* What the numbers below have least of. *)
LEMMA LeastOf ==
  ASSUME NEW T \in SUBSET Nat, T # {}
  PROVE  \E n \in T : \A k \in T : n <= k
<1> DEFINE R == {ss \in Nat \X Nat : ss[1] < ss[2]}
<1>1. IsWellFoundedOn(R, Nat)
  BY NatLessThanWellFounded, Zenon DEF OpToRel
<1> HIDE DEF R
<1>2. PICK n \in T : \A k \in T : ~(<<k, n>> \in R)
  BY <1>1, WFMin
<1>3. \A k \in T : ~(k < n)
  BY <1>2 DEF R
<1> QED
  BY <1>3

(* The sum of a function over a set is built one element after the other: f    *)
(* holds the sums of the subsets.                                              *)
Sum(delta, S) == SumFunctionOnSet(delta, S)
NextSum(delta, f, s) ==
  IF s = {} THEN 0 ELSE delta[CHOOSE x \in s : TRUE] + f[s \ {CHOOSE x \in s : TRUE}]
Sums(f, delta, S) == f = [s \in SUBSET S |-> NextSum(delta, f, s)]

LEMMA SumChosen ==
  ASSUME NEW delta, NEW S
  PROVE  Sum(delta, S) = (CHOOSE f : Sums(f, delta, S))[S]
BY DEF Sum, SumFunctionOnSet, FoldFunctionOnSet, MapThenFoldSet, Sums, NextSum

LEMMA SumsExist ==
  ASSUME NEW delta, NEW S, IsFiniteSet(S)
  PROVE  \E f : Sums(f, delta, S)
<1> DEFINE UpTo(f, n) == /\ f = [s \in SUBSET S |-> f[s]]
                         /\ \A s \in SUBSET S : Cardinality(s) <= n => f[s] = NextSum(delta, f, s)
           Lacking(n) == ~ \E f : UpTo(f, n)
           Sizes == {n \in Nat : Lacking(n)}
<1>0. \A s \in SUBSET S : IsFiniteSet(s) /\ Cardinality(s) \in Nat /\ Cardinality(s) <= Cardinality(S)
  BY FS_Subset, FS_CardinalityType
<1>1. Sizes = {}
  <2> SUFFICES ASSUME Sizes # {} PROVE FALSE
    OBVIOUS
  <2>1. PICK n \in Sizes : \A k \in Sizes : n <= k
    BY LeastOf
  <2>2. n \in Nat /\ n # 0
    <3> DEFINE first == [s \in SUBSET S |-> 0]
    <3>1. \A s \in SUBSET S : Cardinality(s) <= 0 => s = {}
      BY <1>0, FS_EmptySet
    <3>2. UpTo(first, 0)
      BY <3>1 DEF NextSum
    <3> QED
      BY <3>2
  <2>3. n - 1 \in Nat /\ n - 1 \notin Sizes
    <3> HIDE DEF Sizes
    <3> QED
      BY <2>1, <2>2
  <2>4. PICK f : UpTo(f, n - 1)
    BY <2>3
  <2> DEFINE g == [s \in SUBSET S |-> IF Cardinality(s) = n THEN NextSum(delta, f, s) ELSE f[s]]
  <2>5. \A s \in SUBSET S : Cardinality(s) <= n => g[s] = NextSum(delta, g, s)
    <3> SUFFICES ASSUME NEW s \in SUBSET S, Cardinality(s) <= n PROVE g[s] = NextSum(delta, g, s)
      OBVIOUS
    <3>1. g[s] = NextSum(delta, f, s)
      <4>1. CASE Cardinality(s) = n
        BY <4>1
      <4>2. CASE Cardinality(s) # n
        <5>1. Cardinality(s) <= n - 1
          BY <4>2, <2>2, <1>0
        <5>2. g[s] = f[s]
          BY <4>2
        <5> QED
          BY <5>1, <5>2, <2>4
      <4> QED
        BY <4>1, <4>2
    <3>2. CASE s = {}
      BY <3>1, <3>2 DEF NextSum
    <3>3. CASE s # {}
      <4> DEFINE x == CHOOSE x \in s : TRUE
                 t == s \ {x}
      <4>1. x \in s
        BY <3>3
      <4>2. t \in SUBSET S /\ Cardinality(t) = Cardinality(s) - 1
        BY <4>1, <1>0, FS_RemoveElement
      <4>3. Cardinality(t) # n
        BY <4>2, <1>0, <2>2
      <4>4. g[t] = f[t]
        BY <4>2, <4>3
      <4> QED
        BY <3>1, <3>3, <4>4 DEF NextSum
    <3> QED
      BY <3>2, <3>3
  <2>6. g = [s \in SUBSET S |-> g[s]]
    OBVIOUS
  <2>7. UpTo(g, n)
    BY <2>5, <2>6
  <2> QED
    BY <2>7, <2>1
<1>2. PICK f : UpTo(f, Cardinality(S))
  BY <1>0, <1>1
<1>3. Sums(f, delta, S)
  BY <1>0, <1>2 DEF Sums
<1> QED
  BY <1>3

(* The sums of the subsets of a part are those the whole has for them.         *)
LEMMA SumsAgree ==
  ASSUME NEW delta, NEW S, IsFiniteSet(S), NEW T \in SUBSET S,
         NEW f, Sums(f, delta, S), NEW g, Sums(g, delta, T)
  PROVE  \A s \in SUBSET T : f[s] = g[s]
<1> DEFINE Odd(n) == \E s \in SUBSET T : Cardinality(s) = n /\ f[s] # g[s]
           Sizes == {n \in Nat : Odd(n)}
<1>0. \A s \in SUBSET S : IsFiniteSet(s) /\ Cardinality(s) \in Nat
  BY FS_Subset, FS_CardinalityType
<1>1. Sizes = {}
  <2> SUFFICES ASSUME Sizes # {} PROVE FALSE
    OBVIOUS
  <2>1. PICK n \in Sizes : \A k \in Sizes : n <= k
    BY LeastOf
  <2>2. PICK s \in SUBSET T : Cardinality(s) = n /\ f[s] # g[s]
    BY <2>1
  <2>3. f[s] = NextSum(delta, f, s) /\ g[s] = NextSum(delta, g, s)
    BY DEF Sums
  <2>4. s # {}
    BY <2>2, <2>3 DEF NextSum
  <2> DEFINE x == CHOOSE x \in s : TRUE
             t == s \ {x}
  <2>5. x \in s
    BY <2>4
  <2>6. t \in SUBSET T /\ Cardinality(t) = n - 1 /\ n - 1 \in Nat
    <3>1. IsFiniteSet(s) /\ n \in Nat
      BY <1>0
    <3> HIDE DEF Sizes, x
    <3>2. Cardinality(t) = n - 1 /\ IsFiniteSet(t)
      BY <3>1, <2>2, <2>5, FS_RemoveElement
    <3>3. Cardinality(t) \in Nat
      BY <3>2, FS_CardinalityType
    <3> QED
      BY <3>2, <3>3
  <2>7. f[t] = g[t]
    <3>1. n - 1 \notin Sizes
      BY <2>1, <2>6
    <3> QED
      BY <3>1, <2>6
  <2> QED
    BY <2>2, <2>3, <2>4, <2>7 DEF NextSum
<1> QED
  BY <1>0, <1>1

(* A sum takes one element of its set, the one it chooses, and leaves the rest.*)
LEMMA SumOfChosen ==
  ASSUME NEW delta, NEW S, IsFiniteSet(S), S # {}
  PROVE  LET x == CHOOSE x \in S : TRUE IN Sum(delta, S) = delta[x] + Sum(delta, S \ {x})
<1> DEFINE x == CHOOSE x \in S : TRUE
           T == S \ {x}
           f == CHOOSE f : Sums(f, delta, S)
           g == CHOOSE g : Sums(g, delta, T)
<1>1. T \in SUBSET S /\ IsFiniteSet(T)
  BY FS_Subset
<1>2. Sums(f, delta, S) /\ Sums(g, delta, T)
  BY <1>1, SumsExist
<1>3. Sum(delta, S) = f[S] /\ Sum(delta, T) = g[T]
  BY SumChosen
<1> HIDE DEF f, g
<1>4. f[T] = g[T]
  BY <1>1, <1>2, SumsAgree
<1>5. f[S] = delta[x] + f[T]
  BY <1>2 DEF Sums, NextSum
<1> QED
  BY <1>3, <1>4, <1>5

LEMMA SumOfNothing == ASSUME NEW delta PROVE Sum(delta, {}) = 0
<1> DEFINE f == CHOOSE f : Sums(f, delta, {})
<1>1. Sums(f, delta, {})
  BY FS_EmptySet, SumsExist
<1>2. Sum(delta, {}) = f[{}]
  BY SumChosen
<1> HIDE DEF f
<1> QED
  BY <1>1, <1>2 DEF Sums, NextSum

(* Sums are numbers, and whichever element is taken first makes no difference. *)
SumTakes(delta, S) ==
  /\ Sum(delta, S) \in Int
  /\ \A y \in S : Sum(delta, S) = delta[y] + Sum(delta, S \ {y})
LEMMA SumTakesAny ==
  ASSUME NEW delta, NEW S, IsFiniteSet(S), \A x \in S : delta[x] \in Int
  PROVE  SumTakes(delta, S)
<1> DEFINE Odd(n) == \E s \in SUBSET S : Cardinality(s) = n /\ ~SumTakes(delta, s)
           Sizes == {n \in Nat : Odd(n)}
<1>0. \A s \in SUBSET S : IsFiniteSet(s) /\ Cardinality(s) \in Nat
  BY FS_Subset, FS_CardinalityType
<1>1. Sizes = {}
  <2> SUFFICES ASSUME Sizes # {} PROVE FALSE
    OBVIOUS
  <2>1. PICK n \in Sizes : \A k \in Sizes : n <= k
    BY LeastOf
  <2>2. PICK s \in SUBSET S : Cardinality(s) = n /\ ~SumTakes(delta, s)
    BY <2>1
  <2>3. s # {}
    BY <2>2, SumOfNothing DEF SumTakes
  <2>4. \A y \in s : /\ s \ {y} \in SUBSET S /\ Cardinality(s \ {y}) = n - 1 /\ n - 1 \in Nat
    <3> SUFFICES ASSUME NEW y \in s
                 PROVE  s \ {y} \in SUBSET S /\ Cardinality(s \ {y}) = n - 1 /\ n - 1 \in Nat
      OBVIOUS
    <3>1. IsFiniteSet(s) /\ n \in Nat
      BY <1>0
    <3> HIDE DEF Sizes
    <3>2. Cardinality(s \ {y}) = n - 1 /\ IsFiniteSet(s \ {y})
      BY <3>1, <2>2, FS_RemoveElement
    <3>3. Cardinality(s \ {y}) \in Nat
      BY <3>2, FS_CardinalityType
    <3> QED
      BY <3>2, <3>3
  <2>5. \A y \in s : SumTakes(delta, s \ {y})
    <3> SUFFICES ASSUME NEW y \in s PROVE SumTakes(delta, s \ {y})
      OBVIOUS
    <3>1. n - 1 \notin Sizes
      BY <2>1, <2>4
    <3> QED
      BY <3>1, <2>4
  <2> DEFINE x == CHOOSE x \in s : TRUE
  <2>6. x \in s
    BY <2>3
  <2>7. Sum(delta, s) = delta[x] + Sum(delta, s \ {x})
    BY <1>0, <2>3, SumOfChosen
  <2> HIDE DEF x
  <2>8. Sum(delta, s) \in Int
    BY <2>5, <2>6, <2>7 DEF SumTakes
  <2>9. ASSUME NEW y \in s PROVE Sum(delta, s) = delta[y] + Sum(delta, s \ {y})
    <3>1. CASE y = x
      BY <3>1, <2>7
    <3>2. CASE y # x
      <4> DEFINE rest == (s \ {x}) \ {y}
      <4>1. rest = (s \ {y}) \ {x} /\ x \in s \ {y} /\ y \in s \ {x}
        BY <3>2, <2>6
      <4>2. Sum(delta, s \ {x}) = delta[y] + Sum(delta, rest)
        BY <4>1, <2>5, <2>6 DEF SumTakes
      <4>3. Sum(delta, s \ {y}) = delta[x] + Sum(delta, rest)
        BY <4>1, <2>5 DEF SumTakes
      <4>4. Sum(delta, rest) \in Int
        <5>1. IsFiniteSet(s \ {x}) /\ (s \ {x}) \ {y} \in SUBSET S
          BY <1>0, <2>4, <2>6
        <5>2. Cardinality(rest) = n - 2 /\ n - 2 \in Nat
          <6>1. Cardinality(s \ {x}) = n - 1 /\ n - 1 \in Nat /\ n \in Nat
            BY <2>4, <2>6
          <6> HIDE DEF Sizes
          <6>2. Cardinality(rest) = Cardinality(s \ {x}) - 1 /\ IsFiniteSet(rest)
            BY <4>1, <5>1, FS_RemoveElement
          <6>3. Cardinality(rest) \in Nat
            BY <6>2, FS_CardinalityType
          <6> QED
            BY <6>1, <6>2, <6>3
        <5>3. n - 2 \notin Sizes
          BY <2>1, <5>2
        <5> QED
          BY <5>1, <5>2, <5>3 DEF SumTakes
      <4> HIDE DEF rest
      <4>5. delta[x] \in Int /\ delta[y] \in Int
        BY <2>6
      <4> QED
        BY <2>7, <4>2, <4>3, <4>4, <4>5
    <3> QED
      BY <3>1, <3>2
  <2> QED
    BY <2>2, <2>8, <2>9 DEF SumTakes
<1> QED
  BY <1>0, <1>1

(* What only adds losses only lowers a sum.                                    *)
LEMMA SumFalls ==
  ASSUME NEW delta, NEW T, IsFiniteSet(T), \A x \in T : delta[x] \in Int,
         NEW S \in SUBSET T, \A x \in T \ S : delta[x] <= 0
  PROVE  Sum(delta, T) <= Sum(delta, S)
<1> DEFINE Odd(n) == \E s \in SUBSET T : S \subseteq s /\ Cardinality(s) = n /\ ~(Sum(delta, s) <= Sum(delta, S))
           Sizes == {n \in Nat : Odd(n)}
<1>0. \A s \in SUBSET T : /\ IsFiniteSet(s) /\ Cardinality(s) \in Nat /\ SumTakes(delta, s)
  BY FS_Subset, FS_CardinalityType, SumTakesAny
<1>1. Sizes = {}
  <2> SUFFICES ASSUME Sizes # {} PROVE FALSE
    OBVIOUS
  <2>1. PICK n \in Sizes : \A k \in Sizes : n <= k
    BY LeastOf
  <2>2. PICK s \in SUBSET T : S \subseteq s /\ Cardinality(s) = n /\ ~(Sum(delta, s) <= Sum(delta, S))
    BY <2>1
  <2>3. PICK y \in s \ S : TRUE
    <3>1. s # S
      BY <2>2, <1>0 DEF SumTakes
    <3> QED
      BY <3>1, <2>2
  <2> DEFINE t == s \ {y}
  <2>4. t \in SUBSET T /\ S \subseteq t /\ Cardinality(t) = n - 1 /\ n - 1 \in Nat
    <3>1. IsFiniteSet(s) /\ n \in Nat /\ y \in s
      BY <1>0, <2>2, <2>3
    <3> HIDE DEF Sizes
    <3>2. Cardinality(t) = n - 1 /\ IsFiniteSet(t)
      BY <3>1, <2>2, FS_RemoveElement
    <3>3. Cardinality(t) \in Nat
      BY <3>2, FS_CardinalityType
    <3> QED
      BY <2>2, <2>3, <3>2, <3>3
  <2>5. Sum(delta, t) <= Sum(delta, S)
    <3>1. n - 1 \notin Sizes
      BY <2>1, <2>4
    <3> QED
      BY <3>1, <2>4
  <2>6. Sum(delta, s) = delta[y] + Sum(delta, t) /\ delta[y] <= 0 /\ delta[y] \in Int
    BY <1>0, <2>2, <2>3 DEF SumTakes
  <2>7. Sum(delta, t) \in Int /\ Sum(delta, S) \in Int
    BY <1>0, <2>4 DEF SumTakes
  <2> QED
    BY <2>2, <2>5, <2>6, <2>7
<1> QED
  BY <1>0, <1>1

----------------------------------------------------------------------------
(* A worse history.                                                          *)

(* A history is of known outcomes and events, and a manifest holds the score   *)
(* of the ones it was made of.                                                 *)
IsHistory(outcomes, events) ==
  /\ IsFiniteSet(outcomes) /\ outcomes \subseteq OutcomeType
  /\ IsFiniteSet(events) /\ events \subseteq EventType
HistoryTyped ==
  /\ history = [p \in Partners |-> [outcomes |-> history[p].outcomes, events |-> history[p].events]]
  /\ \A p \in Partners : IsHistory(history[p].outcomes, history[p].events)
IsComputed(m) ==
  /\ IsHistory(m.outcomes, m.events)
  /\ m.computed = ComputeScore(m.standing, m.outcomes, m.events)
ScoresAreComputed == \A p \in Partners : reputation[p] # None => IsComputed(reputation[p])
HistoryInv == HistoryTyped /\ ScoresAreComputed

LEMMA DeltasAre ==
  /\ \A o \in OutcomeType : OutcomeDelta[o] \in Int /\ (o.adoption # "accepted" => OutcomeDelta[o] <= 0)
  /\ \A e \in EventType : EventDelta[e] \in Int /\ EventDelta[e] <= 0
<1>1. ASSUME NEW o \in OutcomeType
      PROVE  OutcomeDelta[o] \in Int /\ (o.adoption # "accepted" => OutcomeDelta[o] <= 0)
  <2>1. o.adoption \in Adoptions /\ o.risk \in Risks
    BY DEF OutcomeType
  <2> DEFINE a == Weights.adoption[o.adoption]
             b == Weights.breach[o.risk]
  <2>2. a \in Int /\ b \in Int /\ b < 0 /\ (o.adoption # "accepted" => a < 0)
    <3>1. Weights.adoption \in [Adoptions -> -100..100] /\ Weights.breach \in [Risks -> -100..100]
      BY WeightsAreSemantic DEF WeightType
    <3>2. a \in -100..100 /\ b \in -100..100
      BY <2>1, <3>1
    <3>3. b < 0 /\ (o.adoption # "accepted" => a < 0)
      BY <2>1, WeightsAreSemantic DEF SignsAreKept
    <3> QED
      BY <3>2, <3>3
  <2>3. OutcomeDelta[o] = a + (IF o.compliant THEN 0 ELSE b)
    BY DEF OutcomeDelta
  <2> HIDE DEF a, b
  <2> QED
    BY <2>2, <2>3
<1>2. ASSUME NEW e \in EventType PROVE EventDelta[e] \in Int /\ EventDelta[e] <= 0
  <2>1. e.severity \in Risks
    BY DEF EventType
  <2>2. EventDelta[e] = Weights.event[e.severity]
    BY DEF EventDelta
  <2> QED
    <3> DEFINE b == Weights.event[e.severity]
    <3>1. b < 0
      BY <2>1, WeightsAreSemantic DEF SignsAreKept
    <3>3. Weights.event \in [Risks -> -100..100]
      BY WeightsAreSemantic DEF WeightType
    <3>4. b \in -100..100
      BY <2>1, <3>3
    <3>5. b \in Int
      BY <3>4
    <3> HIDE DEF b
    <3>2. b <= 0
      BY <3>1, <3>5
    <3> QED
      BY <2>2, <3>2, <3>5 DEF b
<1> QED
  BY <1>1, <1>2

(* Outcomes that are no adoptions and events lower a score or leave it.        *)
LEMMA ScoresFall ==
  ASSUME NEW outcomes, NEW events, IsHistory(outcomes, events),
         NEW before \in SUBSET outcomes, NEW since \in SUBSET events,
         \A o \in outcomes \ before : o.adoption # "accepted"
  PROVE  /\ ScoreValue(outcomes, events) <= ScoreValue(before, since)
         /\ ScoreValue(outcomes, events) \in Int /\ ScoreValue(before, since) \in Int
<1>1. \A o \in outcomes : OutcomeDelta[o] \in Int
  BY DeltasAre DEF IsHistory
<1>2. \A o \in outcomes \ before : OutcomeDelta[o] <= 0
  BY DeltasAre DEF IsHistory
<1>3. \A e \in events : EventDelta[e] \in Int /\ EventDelta[e] <= 0
  BY DeltasAre DEF IsHistory
<1>4. /\ Sum(OutcomeDelta, outcomes) <= Sum(OutcomeDelta, before)
      /\ Sum(EventDelta, events) <= Sum(EventDelta, since)
  BY <1>1, <1>2, <1>3, SumFalls DEF IsHistory
<1>5. IsFiniteSet(before) /\ IsFiniteSet(since)
  BY FS_Subset DEF IsHistory
<1>6. /\ Sum(OutcomeDelta, outcomes) \in Int /\ Sum(OutcomeDelta, before) \in Int
      /\ Sum(EventDelta, events) \in Int /\ Sum(EventDelta, since) \in Int
  BY <1>1, <1>3, <1>5, SumTakesAny DEF IsHistory, SumTakes
<1>7. /\ Deltas(outcomes, events) = Sum(OutcomeDelta, outcomes) + Sum(EventDelta, events)
      /\ Deltas(before, since) = Sum(OutcomeDelta, before) + Sum(EventDelta, since)
  BY DEF Deltas, Sum
<1>8. /\ Deltas(outcomes, events) <= Deltas(before, since)
      /\ Deltas(outcomes, events) \in Int /\ Deltas(before, since) \in Int
  BY <1>4, <1>6, <1>7
<1> QED
  BY <1>8 DEF ScoreValue, Clamp

(* And the action recommended on them is no milder one.                        *)
LEMMA WorseLooksNoBetter ==
  ASSUME NEW m, NEW n, IsComputed(m), IsComputed(n), OnlyWorse(m, n)
  PROVE  LooksNoBetter(m, n)
<1> DEFINE s == ScoreValue(m.outcomes, m.events)
           t == ScoreValue(n.outcomes, n.events)
<1>1. /\ m.outcomes \in SUBSET n.outcomes /\ m.events \in SUBSET n.events /\ m.standing = n.standing
      /\ \A o \in n.outcomes \ m.outcomes : o.adoption # "accepted"
  BY DEF OnlyWorse
<1>2. t <= s /\ t \in Int /\ s \in Int
  BY <1>1, ScoresFall DEF IsComputed
<1>3. /\ m.computed.score = s /\ n.computed.score = t
      /\ m.computed.action = RecommendedAction(s, m.standing, m.outcomes, m.events)
      /\ n.computed.action = RecommendedAction(t, n.standing, n.outcomes, n.events)
  BY DEF IsComputed, ComputeScore
<1> HIDE DEF s, t
<1>4. RevocationTriggered(s, m.events) => RevocationTriggered(t, n.events)
  BY <1>1, <1>2 DEF RevocationTriggered
<1>5. QuarantineThresholdMet(s, m.standing, m.outcomes, m.events)
        => QuarantineThresholdMet(t, n.standing, n.outcomes, n.events)
  BY <1>1, <1>2 DEF QuarantineThresholdMet
<1>6. Rejections(m.outcomes) >= 2 => Rejections(n.outcomes) >= 2
  <2> DEFINE A == {o \in m.outcomes : o.adoption = "rejected"}
             B == {o \in n.outcomes : o.adoption = "rejected"}
  <2>1. A \in SUBSET B /\ B \in SUBSET n.outcomes
    BY <1>1
  <2>2. IsFiniteSet(B)
    BY <2>1, FS_Subset DEF IsComputed, IsHistory
  <2>3. IsFiniteSet(A) /\ Cardinality(A) <= Cardinality(B)
    BY <2>1, <2>2, FS_Subset
  <2>4. Cardinality(A) \in Nat /\ Cardinality(B) \in Nat
    BY <2>2, <2>3, FS_CardinalityType
  <2>5. Rejections(m.outcomes) = Cardinality(A) /\ Rejections(n.outcomes) = Cardinality(B)
    BY DEF Rejections
  <2> HIDE DEF A, B
  <2> QED
    BY <2>3, <2>4, <2>5
<1>7. s < 50 => t < 50
  BY <1>2
<1> DEFINE a == RecommendedAction(s, m.standing, m.outcomes, m.events)
           b == RecommendedAction(t, n.standing, n.outcomes, n.events)
<1>8. Severity(b) >= Severity(a)
  BY <1>4, <1>5, <1>6, <1>7 DEF RecommendedAction, Severity
<1> QED
  BY <1>2, <1>3, <1>8 DEF LooksNoBetter

LEMMA InitHistory == Init => HistoryInv
<1> SUFFICES ASSUME Init PROVE HistoryInv
  OBVIOUS
<1>1. ScoresAreComputed
  BY DEF Init, ScoresAreComputed
<1>2. HistoryTyped
  <2>1. CASE duty = "sync"
    <3>1. history \in Histories
      BY <2>1 DEF Init
    <3>2. \A p \in Partners : IsHistory(history[p].outcomes, history[p].events)
      BY <3>1, HistoriesAreRecords DEF IsHistory
    <3>3. history = [q \in Partners |-> [outcomes |-> history[q].outcomes, events |-> history[q].events]]
      BY <3>1, HistoriesAreRecords
    <3> QED
      BY <3>2, <3>3 DEF HistoryTyped
  <2>2. CASE duty # "sync"
    <3>1. history = [p \in Partners |-> [outcomes |-> {}, events |-> {}]]
      BY <2>2 DEF Init
    <3>2. \A p \in Partners : IsHistory(history[p].outcomes, history[p].events)
      BY <3>1, FS_EmptySet DEF IsHistory
    <3>3. history = [q \in Partners |-> [outcomes |-> history[q].outcomes, events |-> history[q].events]]
      BY <3>1
    <3> QED
      BY <3>2, <3>3 DEF HistoryTyped
  <2> QED
    BY <2>1, <2>2
<1> QED
  BY <1>1, <1>2 DEF HistoryInv

(* What is added to the history of one partner leaves the others alone.        *)
LEMMA HistoryChanges ==
  ASSUME HistoryTyped, NEW p \in Partners, NEW outcomes, NEW events, IsHistory(outcomes, events),
         history'[p] = [outcomes |-> outcomes, events |-> events],
         \A q \in Partners \ {p} : history'[q] = history[q],
         DOMAIN history' = Partners, history' = [q \in DOMAIN history' |-> history'[q]]
  PROVE  HistoryTyped'
<1>1. ASSUME NEW q \in Partners
      PROVE  /\ history'[q] = [outcomes |-> history'[q].outcomes, events |-> history'[q].events]
             /\ IsHistory(history'[q].outcomes, history'[q].events)
  <2>1. CASE q = p
    BY <2>1 DEF IsHistory
  <2>2. CASE q # p
    <3>1. history'[q] = history[q]
      BY <2>2
    <3>2. history[q] = [outcomes |-> history[q].outcomes, events |-> history[q].events]
      BY DEF HistoryTyped
    <3> QED
      BY <3>1, <3>2 DEF HistoryTyped
  <2> QED
    BY <2>1, <2>2
<1> QED
  BY <1>1 DEF HistoryTyped, IsHistory

LEMMA StepKeepsHistory == HistoryInv /\ [Next]_vars => HistoryInv'
<1> SUFFICES ASSUME HistoryInv, [Next]_vars PROVE HistoryInv'
  OBVIOUS
<1> USE DEF HistoryInv
<1>1. HistoryTyped'
  <2>1. CASE UNCHANGED history
    BY <2>1 DEF HistoryTyped
  <2>2. ASSUME NEW p \in Partners, NEW o \in NewOutcomes, RecordOutcome(p, o) PROVE HistoryTyped'
    <3>1. history' = [history EXCEPT ![p].outcomes = @ \cup {o}] /\ o \in OutcomeType
      BY <2>2, HistoriesAreRecords DEF RecordOutcome
    <3>2. IsFiniteSet(history[p].outcomes \cup {o}) /\ history[p].outcomes \cup {o} \subseteq OutcomeType
      BY <3>1, FS_AddElement DEF HistoryTyped, IsHistory
    <3>3. history'[p] = [outcomes |-> history[p].outcomes \cup {o}, events |-> history[p].events]
      <4>1. history[p] = [outcomes |-> history[p].outcomes, events |-> history[p].events]
        BY DEF HistoryTyped
      <4>2. history'[p] = [history[p] EXCEPT !.outcomes = @ \cup {o}]
        BY <3>1 DEF HistoryTyped
      <4> QED
        BY <4>1, <4>2
    <3>4. IsHistory(history[p].outcomes, history[p].events)
      BY DEF HistoryTyped
    <3>5. IsHistory(history[p].outcomes \cup {o}, history[p].events)
      BY <3>2, <3>4 DEF IsHistory
    <3>6. \A q \in Partners \ {p} : history'[q] = history[q]
      BY <3>1 DEF HistoryTyped
    <3>7. DOMAIN history' = Partners /\ history' = [q \in DOMAIN history' |-> history'[q]]
      BY <3>1 DEF HistoryTyped
    <3> QED
      BY <3>3, <3>5, <3>6, <3>7, HistoryChanges
  <2>3. ASSUME NEW p \in Partners, NEW e \in NewEvents, RecordEvent(p, e) PROVE HistoryTyped'
    <3>1. history' = [history EXCEPT ![p].events = @ \cup {e}] /\ e \in EventType
      BY <2>3, HistoriesAreRecords DEF RecordEvent
    <3>2. IsFiniteSet(history[p].events \cup {e}) /\ history[p].events \cup {e} \subseteq EventType
      BY <3>1, FS_AddElement DEF HistoryTyped, IsHistory
    <3>3. history'[p] = [outcomes |-> history[p].outcomes, events |-> history[p].events \cup {e}]
      <4>1. history[p] = [outcomes |-> history[p].outcomes, events |-> history[p].events]
        BY DEF HistoryTyped
      <4>2. history'[p] = [history[p] EXCEPT !.events = @ \cup {e}]
        BY <3>1 DEF HistoryTyped
      <4> QED
        BY <4>1, <4>2
    <3>4. IsHistory(history[p].outcomes, history[p].events)
      BY DEF HistoryTyped
    <3>5. IsHistory(history[p].outcomes, history[p].events \cup {e})
      BY <3>2, <3>4 DEF IsHistory
    <3>6. \A q \in Partners \ {p} : history'[q] = history[q]
      BY <3>1 DEF HistoryTyped
    <3>7. DOMAIN history' = Partners /\ history' = [q \in DOMAIN history' |-> history'[q]]
      BY <3>1 DEF HistoryTyped
    <3> QED
      BY <3>3, <3>5, <3>6, <3>7, HistoryChanges
  <2>4. \/ UNCHANGED history
        \/ \E p \in Partners : \/ \E o \in NewOutcomes : RecordOutcome(p, o)
                               \/ \E e \in NewEvents : RecordEvent(p, e)
    BY DEF Next, vars, world, SetStatus, Forget, SetTreaty, Expire, SetRuntime, StartCooldown,
           Evaluate, Plan, Tick, Sync, Drop, Export, Compose, Compare, Demonstrate
  <2> QED
    BY <2>1, <2>2, <2>3, <2>4
<1>2. ScoresAreComputed'
  <2>1. CASE UNCHANGED reputation
    BY <2>1 DEF ScoresAreComputed
  <2>2. ASSUME NEW q \in Partners, Evaluate(q) PROVE ScoresAreComputed'
    <3> DEFINE t == [TreatyWith(q) EXCEPT !.status = TreatyStanding(@)]
               m == EvaluateReputation(q, Standing(registry[q].status), t,
                                       history[q].outcomes, history[q].events)
    <3>1. reputation' = [reputation EXCEPT ![q] = m]
      BY <2>2 DEF Evaluate
    <3>2. IsHistory(history[q].outcomes, history[q].events)
      BY DEF HistoryTyped
    <3>3. IsComputed(m)
      BY <3>2 DEF EvaluateReputation, IsComputed
    <3> HIDE DEF m
    <3>4. \A p \in Partners : reputation'[p] = reputation[p] \/ reputation'[p] = m
      BY <3>1
    <3> QED
      BY <3>3, <3>4 DEF ScoresAreComputed
  <2>3. (\E q \in Partners : Evaluate(q)) \/ UNCHANGED reputation
    BY DEF Next, vars, Change, SetStatus, Forget, SetTreaty, Expire, SetRuntime, StartCooldown,
           RecordOutcome, RecordEvent, Plan, Tick, Sync, Drop, Export, Compose, Compare, Demonstrate
  <2> QED
    BY <2>1, <2>2, <2>3
<1> QED
  BY <1>1, <1>2

(* A partner whose history only got worse, by outcomes that are no adoptions   *)
(* and by policy events, gets neither a higher score nor a milder              *)
(* recommendation (computeScore and recommendedAction of peer-reputation.ts),  *)
(* for any weights of the signs the code gives them.                           *)
THEOREM WorseNeverLooksBetter == Spec => WorseHistoryNeverLooksBetter
<1>1. HistoryInv /\ HistoryInv' =>
        \A p \in Partners :
          (reputation[p] # None /\ reputation'[p] # None) =>
            (OnlyWorse(reputation[p], reputation'[p]) => LooksNoBetter(reputation[p], reputation'[p]))
  <2> SUFFICES ASSUME HistoryInv, HistoryInv', NEW p \in Partners,
                      reputation[p] # None, reputation'[p] # None,
                      OnlyWorse(reputation[p], reputation'[p])
               PROVE  LooksNoBetter(reputation[p], reputation'[p])
    OBVIOUS
  <2>1. IsComputed(reputation[p]) /\ IsComputed(reputation'[p])
    BY DEF HistoryInv, ScoresAreComputed, IsComputed, IsHistory
  <2> QED
    BY <2>1, WorseLooksNoBetter
<1> QED
  BY <1>1, InitHistory, StepKeepsHistory, PTL DEF Spec, WorseHistoryNeverLooksBetter
=============================================================================
