----------------------------- MODULE EvolutionChain -----------------------------
(* runDistributedEvolutionDemo (T070,                                          *)
(* packages/forge-demo/src/distributed-evolution.ts): one route of the         *)
(* topology taken through the exporter, the reputation, the boundary, the      *)
(* composer, the arena and the report, and the manifest that says whether all  *)
(* of them agreed.  It hands the exporter a treaty between the peers of the    *)
(* route, with the actions the exporter needs, and the reputation the treaty   *)
(* as it is.                                                                   *)
EXTENDS PeerReputation, NetworkBoundary, LineageExchange

CONSTANTS
  DemoRecords,    \* the two records it exports, within the scope it writes
  DemoOutcomes,   \* two accepted proposals and a rejected one
  DemoProposal,   \* the change it proposes
  DemoPaths       \* the paths it allows

ASSUME DemoRecordsAreTwo == Cardinality(DemoRecords) = 2

PeerRef(peer) == [id |-> peer.id, standing |-> Standing(peer.status)]

DemoTreaty(route, t) ==
  [status |-> t.status, expired |-> t.expired, source |-> route.source, target |-> route.target,
   actions |-> LineageActions, roots |-> {r.root : r \in DemoRecords}, kinds |-> {r.kind : r \in DemoRecords}]
BoundaryTreaty(route, t) == [t EXCEPT !.source = route.source, !.target = route.target]
DemoRequest(route, wants) ==
  [action |-> "lineage_import_candidate", source |-> route.source, target |-> route.target, wants |-> wants]
DemoRuntime == [mode |-> "federate", allowed |-> TRUE, killed |-> FALSE]
DemoPolicy(target) ==
  [id |-> target.id, standing |-> Standing(target.status), allows |-> TRUE, paths |-> DemoPaths]

Candidate(id, kind, eval, lineage, reputation, risk) ==
  [id |-> id, kind |-> kind, compliant |-> TRUE, breach |-> FALSE, eval |-> eval,
   lineage |-> lineage, reputation |-> reputation, risk |-> risk]
DemoCandidates(reputation) ==
  { Candidate(2, "peer", 88, 84, reputation.computed.score, "medium"),
    Candidate(1, "local", 60, 58, 40, "low") }

(* Every repository is reported; the target with the treaty and the reputation *)
(* of the route, the others with made up ones.                                 *)
DemoReport(peers, route, t, reputation, decision) ==
  [peers |-> {[id |-> p, status |-> Standing(peers[p].status),
               treaty |-> IF p = route.target THEN t.status ELSE "active",
               action |-> IF p = route.target THEN reputation.computed.action ELSE "observe",
               score |-> IF p = route.target THEN reputation.computed.score ELSE 50] : p \in DOMAIN peers},
   exchanges |-> {[id |-> "import", peer |-> route.target, status |-> "candidate_registered",
                   decisions |-> {"decision"}, adopted |-> FALSE]},
   decisions |-> {[id |-> "decision", peer |-> route.target, status |-> decision]}]

(* chainStatusIssues: the reputation is not asked for.                         *)
AllReady(c) ==
  /\ c.pack.status = "ready" /\ c.boundary = "allowed" /\ c.pr.status = "ready"
  /\ c.arena.status = "ready" /\ c.report.status = "ready"

(* validateChain, of the chain it made: an invalid manifest or one that does   *)
(* not read back makes the whole result invalid.                               *)
ChainReadsBack(c) ==
  /\ PackReadsBack(c.pack) /\ ReputationReadsBack(c.reputation) /\ PrReadsBack(c.pr)
  /\ ArenaReadsBack(c.arena) /\ ReportReadsBack(c.report)

(* enforceNetworkBoundary, of a target whose status went through peerStatus:   *)
(* it does not know "revoked" and calls the input invalid.                     *)
DemoBoundary(target, route, t, reputation, wants) ==
  IF target.status = "revoked" THEN "invalid"
  ELSE BoundaryDecision(DemoRuntime, target, BoundaryTreaty(route, t), reputation.computed,
                        DemoRequest(route, wants))

(* peers: the repositories; named: the treaty the route names.                 *)
RunChain(peers, route, named, wants) ==
  LET t == [named EXCEPT !.status = TreatyStanding(@)]
      source == PeerRef(peers[route.source])
      target == PeerRef(peers[route.target])
      pack == ExportPack(DemoTreaty(route, t), source, target, DemoRecords, 2)
      reputation == EvaluateReputation(target.id, target.standing, t, DemoOutcomes, {})
      known == [id |-> target.id, status |-> target.standing, known |-> peers[route.target].known]
      boundary == DemoBoundary(known, route, t, reputation, wants)
      chain == [route |-> route, treaty |-> t, source |-> source, target |-> known,
                pack |-> pack, reputation |-> reputation, boundary |-> boundary,
                pr |-> ComposePr(pack, DemoPolicy(peers[route.target]), DemoProposal),
                arena |-> CompareArena({}, 50, DemoCandidates(reputation)),
                report |-> RenderReport(DemoReport(peers, route, t, reputation, boundary))]
  IN IF route.source \notin DOMAIN peers \/ route.target \notin DOMAIN peers \/ ~ChainReadsBack(chain)
     THEN Invalid
     ELSE [status |-> IF AllReady(chain) THEN "ready" ELSE "blocked", chain |-> chain]
=============================================================================
