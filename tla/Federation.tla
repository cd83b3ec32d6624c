------------------------------- MODULE Federation -------------------------------
(* The federation packages in the hands of their caller, the local repository: *)
(* it keeps a registry of its peers and the treaties with them, a history for  *)
(* each peer, the last manifest of each kind and the time, and calls           *)
(*   evaluatePeerReputation, enforceNetworkBoundary, scheduleGossipSync,       *)
(*   exportLineagePack, composeCrossRepoPr, compareArenaCandidates and         *)
(*   runDistributedEvolutionDemo,                                              *)
(* every call with the state of its time.  Nothing of this is persisted by the *)
(* packages: the caller is a model of how a program would hold their inputs.   *)
EXTENDS EvolutionChain

CONSTANTS
  Peers,              \* the repositories of the topology, the local one included
  Local,              \* the local repository
  Place,              \* the place of a peer in the order of ids
  Links,              \* the treaty links of the topology
  Terms,              \* what a link says: source, target, actions, roots, kinds
  PeerStatuses, TreatyStates,   \* the statuses a peer and a treaty take
  Runtimes,           \* the runtime states a change brings
  Histories,          \* what is known of the partners at first
  NewOutcomes, NewEvents,   \* what may be added to it
  Offers,             \* what is exported: source, target, treaty, records, count
  Proposals,          \* changes to propose, with the policy of the peer
  Arenas,             \* comparisons: binding issues, margin, candidates
  Routes, WantSets,   \* routes of the topology, and what a demo asks for
  Duties,             \* what this caller does: see Init
  MaxChanges,         \* bound: changes of registry, treaties, runtime, history
  None

IsTopology ==
  /\ IsFiniteSet(Peers) /\ Local \in Peers /\ Place \in [Peers -> Nat]
  /\ \A p, q \in Peers : Place[p] = Place[q] => p = q
  /\ \A l \in Links : Terms[l].source \in Peers /\ Terms[l].target \in Peers
ASSUME TopologyIsValid == IsTopology
ASSUME ChoicesAreValid ==
  /\ PeerStatuses \subseteq Statuses \ {"unknown"}
  /\ TreatyStates \subseteq TreatyStatuses \ {"missing"} /\ Runtimes \subseteq RuntimeType
  /\ Duties \subseteq {"sync", "propose", "demonstrate", "compare"}
  /\ MaxChanges \in Nat

VARIABLES
  duty,         \* what this caller does
  registry,     \* a peer's status, and whether the registry knows it
  treaties,     \* a treaty's status, and whether it ran out
  runtime, cooldown,
  history,      \* a partner's outcomes and events
  reputation,   \* a partner's last manifest
  plan,         \* the gossip plan
  elapsed, window,    \* time since the last sync, and what is left of the window
  pack, pr, arena, chain,   \* the last manifest of the kind
  left          \* changes left

vars == <<duty, registry, treaties, runtime, cooldown, history, reputation, plan, elapsed, window,
          pack, pr, arena, chain, left>>
world == <<registry, treaties, runtime, cooldown, history>>
gossip == <<plan, elapsed, window>>
manifests == <<pack, pr, arena, chain>>

(* The peers of the gossip registry: those the local repository has a treaty   *)
(* with, one each.                                                             *)
Partners == {p \in Peers : \E l \in Links : Terms[l].source = Local /\ Terms[l].target = p}
LinkWith == [p \in Partners |-> CHOOSE l \in Links : Terms[l].source = Local /\ Terms[l].target = p]
Treaty(l) ==
  LET terms == Terms[l] IN
  [status |-> treaties[l].status, expired |-> treaties[l].expired, source |-> terms.source,
   target |-> terms.target, actions |-> terms.actions, roots |-> terms.roots, kinds |-> terms.kinds]
TreatyWith(p) == Treaty(LinkWith[p])

(* What is known of a partner: outcomes and events of the types read from it.  *)
ASSUME HistoriesAreRecords ==
  /\ \A known \in Histories :
       /\ known = [p \in Partners |-> [outcomes |-> known[p].outcomes, events |-> known[p].events]]
       /\ \A p \in Partners :
            /\ IsFiniteSet(known[p].outcomes) /\ known[p].outcomes \subseteq OutcomeType
            /\ IsFiniteSet(known[p].events) /\ known[p].events \subseteq EventType
  /\ NewOutcomes \subseteq OutcomeType /\ NewEvents \subseteq EventType

Peer(p) == [id |-> p, status |-> registry[p].status, known |-> registry[p].known]

(* What a caller without a manifest passes. *)
LastScore(p) ==
  IF reputation[p] = None THEN [score |-> 50, action |-> "observe"] ELSE reputation[p].computed
Entry(p) ==
  [status |-> registry[p].status, treaty |-> TreatyWith(p).status, action |-> LastScore(p).action,
   elapsed |-> elapsed[p], cooldown |-> cooldown[p]]
Decision(p, action) ==
  BoundaryDecision(runtime, Peer(p), TreatyWith(p), LastScore(p),
                   [action |-> action, source |-> Local, target |-> p, wants |-> {}])

Init ==
  /\ duty \in Duties
  /\ registry = [p \in Peers |-> [status |-> "active", known |-> TRUE]]
  /\ treaties = [l \in Links |-> [status |-> "active", expired |-> FALSE]]
  /\ runtime = [mode |-> "federate", allowed |-> TRUE, killed |-> FALSE]
  /\ cooldown = [p \in Partners |-> 0]
  /\ IF duty = "sync" THEN history \in Histories
     ELSE history = [p \in Partners |-> [outcomes |-> {}, events |-> {}]]
  /\ reputation = [p \in Partners |-> None]
  /\ plan = None /\ elapsed = [p \in Partners |-> BaseInterval]
  /\ window = [left |-> WindowLength, count |-> 0]
  /\ pack = None /\ pr = None /\ arena = None /\ chain = None
  /\ left = MaxChanges

(***************************************************************************)
(* What happens around the packages                                        *)
(***************************************************************************)
Change ==
  /\ left > 0 /\ left' = left - 1 /\ duty # "compare"
  /\ UNCHANGED <<duty, reputation, gossip, manifests>>
(* A caller that only syncs has no use for the treaties between others. *)
Concerns(l) == duty = "sync" => Terms[l].source = Local

SetStatus(p, status) ==
  /\ Change /\ p # Local /\ registry' = [registry EXCEPT ![p].status = status]
  /\ UNCHANGED <<treaties, runtime, cooldown, history>>
Forget(p) ==
  /\ Change /\ p # Local /\ registry' = [registry EXCEPT ![p].known = FALSE]
  /\ UNCHANGED <<treaties, runtime, cooldown, history>>
SetTreaty(l, status) ==
  /\ Change /\ Concerns(l) /\ treaties' = [treaties EXCEPT ![l].status = status]
  /\ UNCHANGED <<registry, runtime, cooldown, history>>
Expire(l) ==
  /\ Change /\ Concerns(l) /\ treaties' = [treaties EXCEPT ![l].expired = TRUE]
  /\ UNCHANGED <<registry, runtime, cooldown, history>>
SetRuntime(r) ==
  /\ Change /\ duty = "sync" /\ runtime' = r
  /\ UNCHANGED <<registry, treaties, cooldown, history>>
StartCooldown(p) ==
  /\ Change /\ duty = "sync" /\ cooldown' = [cooldown EXCEPT ![p] = WindowLength]
  /\ UNCHANGED <<registry, treaties, runtime, history>>
RecordOutcome(p, o) ==
  /\ Change /\ duty = "sync" /\ \A q \in history[p].outcomes : q.id # o.id
  /\ history' = [history EXCEPT ![p].outcomes = @ \cup {o}]
  /\ UNCHANGED <<registry, treaties, runtime, cooldown>>
RecordEvent(p, e) ==
  /\ Change /\ duty = "sync" /\ \A q \in history[p].events : q.id # e.id
  /\ history' = [history EXCEPT ![p].events = @ \cup {e}]
  /\ UNCHANGED <<registry, treaties, runtime, cooldown>>

(***************************************************************************)
(* The calls                                                               *)
(***************************************************************************)
Evaluate(p) ==
  /\ duty = "sync" /\ history[p].outcomes # {}
  /\ reputation' = [reputation EXCEPT ![p] =
       EvaluateReputation(p, Standing(registry[p].status), [TreatyWith(p) EXCEPT !.status = TreatyStanding(@)],
                          history[p].outcomes, history[p].events)]
  /\ UNCHANGED <<duty, world, gossip, manifests, left>>

(* A new plan once the last one has nothing scheduled and is due again. *)
Plan ==
  /\ duty = "sync"
  /\ plan # None => With(plan, "schedule") = {} /\ NextSyncReached(plan)
  /\ UNCHANGED <<duty, world, reputation, elapsed, window, manifests, left>>
  /\ \E jitter \in [Partners -> 0..JitterMax] :
       plan' = ComputePlan(runtime, [p \in Partners |-> Entry(p)], Place, window.count, window.left, jitter)

Less(n) == IF n > 0 THEN n - 1 ELSE 0
Tick ==
  /\ duty = "sync"
  /\ plan' = IF plan = None THEN None ELSE [p \in Partners |-> [plan[p] EXCEPT !.due = Less(@)]]
  /\ cooldown' = [p \in Partners |-> Less(cooldown[p])]
  /\ elapsed' = [p \in Partners |-> MinOf(elapsed[p] + 1, BaseInterval + JitterMax)]
  /\ window' = IF window.left = 1 THEN [left |-> WindowLength, count |-> 0]
               ELSE [window EXCEPT !.left = @ - 1]
  /\ UNCHANGED <<duty, registry, treaties, runtime, history, reputation, manifests, left>>

IsDue(p) == duty = "sync" /\ plan # None /\ plan[p] = [decision |-> "schedule", due |-> 0]
Took(p) == plan' = [plan EXCEPT ![p] = [decision |-> "done", due |-> 0]]
(* The boundary is asked again when the sync is due. *)
Sync(p) ==
  /\ IsDue(p) /\ Decision(p, "gossip_sync") = "allowed" /\ Took(p)
  /\ elapsed' = [elapsed EXCEPT ![p] = 0]
  /\ window' = [window EXCEPT !.count = @ + 1]
  /\ UNCHANGED <<duty, world, reputation, manifests, left>>
Drop(p) ==
  /\ IsDue(p) /\ Decision(p, "gossip_sync") # "allowed" /\ Took(p)
  /\ UNCHANGED <<duty, world, reputation, elapsed, window, manifests, left>>

(* One pack and one pull request of it at a time; the registry moves on in     *)
(* between.                                                                    *)
Ref(p) == [id |-> p, standing |-> Standing(registry[p].status)]
Export(x) ==
  /\ duty = "propose" /\ (pack = None \/ pr # None) /\ pr' = None
  /\ pack' = ExportPack(Treaty(x.treaty), Ref(x.source), Ref(x.target), x.records, x.count)
  /\ UNCHANGED <<duty, world, reputation, gossip, arena, chain, left>>
Compose(q, x) ==
  /\ duty = "propose" /\ pack # None /\ pr = None
  /\ pr' = ComposePr(pack, [id |-> q, standing |-> Standing(registry[q].status), allows |-> x.allows,
                            paths |-> x.paths], [head |-> x.head, changed |-> x.changed])
  /\ UNCHANGED <<duty, world, reputation, gossip, pack, arena, chain, left>>
Compare(x) ==
  /\ duty = "compare"
  /\ arena' = CompareArena(x.binding, x.margin, x.candidates)
  /\ UNCHANGED <<duty, world, reputation, gossip, pack, pr, chain, left>>
Demonstrate(route, wants) ==
  /\ duty = "demonstrate"
  /\ chain' = RunChain([p \in Peers |-> Peer(p)], route, Treaty(route.treaty), wants)
  /\ UNCHANGED <<duty, world, reputation, gossip, pack, pr, arena, left>>

Next ==
  \/ \E p \in Peers : \/ \E status \in PeerStatuses : SetStatus(p, status)
                      \/ Forget(p)
  \/ \E l \in Links : \/ \E status \in TreatyStates : SetTreaty(l, status)
                      \/ Expire(l)
  \/ \E r \in Runtimes : SetRuntime(r)
  \/ \E p \in Partners : \/ StartCooldown(p) \/ Evaluate(p) \/ Sync(p) \/ Drop(p)
                         \/ \E o \in NewOutcomes : RecordOutcome(p, o)
                         \/ \E e \in NewEvents : RecordEvent(p, e)
  \/ Plan \/ Tick
  \/ \E x \in Offers : Export(x)
  \/ \E q \in Peers, x \in Proposals : Compose(q, x)
  \/ \E x \in Arenas : Compare(x)
  \/ \E route \in Routes, wants \in WantSets : Demonstrate(route, wants)

Spec == Init /\ [][Next]_vars

(* Time passes, the caller plans when a plan is due and serves what is due.    *)
Fairness ==
  /\ WF_vars(Tick) /\ WF_vars(Plan)
  /\ \A p \in Partners : WF_vars(Sync(p) \/ Drop(p))
FairSpec == Spec /\ Fairness

(***************************************************************************)
(* Properties                                                              *)
(***************************************************************************)
EntryType == [decision : {"skip", "delay", "schedule", "done"}, due : Nat]
ScoreType == [score : 0..100, action : {"observe", "downrank"} \cup Reviewed]
Manifest(m, statuses) == m \in {None, Invalid} \/ m.status \in statuses

TypeOK ==
  /\ duty \in Duties /\ left \in 0..MaxChanges
  /\ registry \in [Peers -> [status : Statuses, known : BOOLEAN]]
  /\ treaties \in [Links -> [status : TreatyStatuses, expired : BOOLEAN]]
  /\ runtime \in RuntimeType /\ cooldown \in [Partners -> Nat]
  /\ \A p \in Partners : LastScore(p) \in ScoreType
  /\ plan = None \/ plan \in [Partners -> EntryType]
  /\ elapsed \in [Partners -> Nat] /\ window \in [left : 1..WindowLength, count : Nat]
  /\ \A m \in {pack, pr, chain} : Manifest(m, {"ready", "blocked"})
  /\ Manifest(arena, {"ready", "blocked", "inconclusive"})

(* The gates agree.  The boundary refuses a score below thirty and the gossip  *)
(* plan never looks at scores; it works because the reputation recommends a    *)
(* quarantine below the same score.  What the boundary alone asks for is that  *)
(* the peer is known and that the treaty runs and lists the action.            *)
GatesAgree ==
  \A p \in Partners :
    Decision(p, "gossip_sync") = "allowed" <=>
      /\ ~Skips(runtime, Entry(p))
      /\ registry[p].known /\ ~TreatyWith(p).expired /\ "gossip_sync" \in TreatyWith(p).actions

(* Two syncs with a peer are an interval apart, however the plans, the delays  *)
(* and the resets between them fall.                                           *)
SyncsAreSpaced ==
  [][\A p \in Partners : window'.count > window.count /\ elapsed'[p] = 0 /\ plan # plan' /\ plan[p] # plan'[p]
                             => elapsed[p] >= BaseInterval]_vars

(* A history that only got worse never looks better: with the same standing,   *)
(* what came on top being events and outcomes other than acceptances, the next *)
(* manifest recommends no milder action and no higher score.                   *)
Severity(action) ==
  CASE action = "observe" -> 0 [] action = "downrank" -> 1
    [] action = "quarantine" -> 2 [] action = "revocation_review" -> 3
OnlyWorse(m, n) ==
  /\ m.standing = n.standing /\ m.outcomes \subseteq n.outcomes /\ m.events \subseteq n.events
  /\ \A o \in n.outcomes \ m.outcomes : o.adoption # "accepted"
LooksNoBetter(m, n) ==
  n.computed.score <= m.computed.score /\ Severity(n.computed.action) >= Severity(m.computed.action)
WorseHistoryNeverLooksBetter ==
  [][\A p \in Partners :
       (reputation[p] # None /\ reputation'[p] # None) =>
         (OnlyWorse(reputation[p], reputation'[p]) => LooksNoBetter(reputation[p], reputation'[p]))]_vars

(* The report of a demonstration flags the target exactly when the boundary    *)
(* did not let the exchange through, and never what it let through.            *)
RefusalsAreShown ==
  chain \notin {None, Invalid} =>
    (chain.chain.report.flags[chain.chain.route.target] = {} <=> chain.chain.boundary = "allowed")

(* A partner that the boundary lets through and that comes first among those   *)
(* the plan does not skip is synced again and again.                           *)
FirstInLine(p) ==
  /\ duty = "sync" /\ Decision(p, "gossip_sync") = "allowed"
  /\ \A q \in Partners : Place[q] < Place[p] => Skips(runtime, Entry(q))
FirstInLineSyncs == \A p \in Partners : <>[]FirstInLine(p) => []<>(elapsed[p] = 0)
=============================================================================
