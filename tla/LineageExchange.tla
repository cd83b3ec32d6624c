---------------------------- MODULE LineageExchange ----------------------------
(* What two peers exchange, and what is made of it:                            *)
(*   exportLineagePack     (T061, packages/network/src/lineage-pack.ts)        *)
(*   composeCrossRepoPr    (T062, packages/network/src/cross-pr.ts)            *)
(*   compareArenaCandidates (T065, packages/eval/src/arena.ts)                 *)
(*   renderFederationReport (T068, packages/reporting/src/federation-report.ts) *)
(* A manifest keeps what it was computed from, so a digest of it is the        *)
(* manifest.  Paths are sequences of their segments, records of a pack are     *)
(* records with their lineage root and their kind.                             *)
EXTENDS Integers, FiniteSets, FiniteSetsExt, SequencesExt

CONSTANT Invalid   \* a result with status invalid: callers throw it away

LineageActions == {"lineage_export", "lineage_import_candidate"}

(***************************************************************************)
(* The lineage pack                                                        *)
(***************************************************************************)
OutOfScope(t, records) ==
  {r \in records : r.root \notin t.roots \/ r.kind \notin t.kinds}

ScopeIssues(t, source, target, records) ==
  \/ t.status # "active" \/ t.expired
  \/ source.standing # "active" \/ target.standing # "active"
  \/ t.source # source.id \/ t.target # target.id
  \/ ~(LineageActions \subseteq t.actions)
  \/ OutOfScope(t, records) # {}

(* A pack knows of no other actions than the two of a lineage exchange.        *)
ScopeIsKnown(t) == t.actions \subseteq LineageActions

(* validateLineagePack: the scope, the peers and the record count are compared *)
(* for a blocked pack too.                                                     *)
PackReadsBack(pack) ==
  /\ pack # Invalid
  /\ ScopeIsKnown(pack.treaty) /\ {} \notin {pack.treaty.actions, pack.treaty.roots, pack.treaty.kinds}
  /\ pack.treaty.source = pack.source.id /\ pack.treaty.target = pack.target.id
  /\ pack.records # {} /\ pack.record_count = Cardinality(pack.records)
  /\ pack.status = "ready" => ~ScopeIssues(pack.treaty, pack.source, pack.target, pack.records)

(* count is the number of records of the archive pack that is referred to.     *)
ExportPack(t, source, target, records, count) ==
  LET blocked == ScopeIssues(t, source, target, records)
      pack == [status |-> IF blocked THEN "blocked" ELSE "ready", treaty |-> t,
               source |-> source, target |-> target, records |-> records, record_count |-> count]
  IN IF count <= 0 \/ ~ScopeIsKnown(t) \/ (~blocked /\ ~PackReadsBack(pack)) THEN Invalid ELSE pack

(***************************************************************************)
(* The cross-repository pull request                                       *)
(***************************************************************************)
DefaultBranches == {"main", "master", "trunk"}
IsAllowedPath(path, allowed) == \E prefix \in allowed : IsPrefix(prefix, path)

ComposeIssues(pack, policy, proposal) ==
  \/ pack.status # "ready"
  \/ policy.standing # "active" \/ ~policy.allows
  \/ pack.target.id # policy.id
  \/ \E path \in proposal.changed : ~IsAllowedPath(path, policy.paths)

ComposePr(pack, policy, proposal) ==
  IF ~PackReadsBack(pack) \/ proposal.head \in DefaultBranches \/ {} \in {proposal.changed, policy.paths}
  THEN Invalid
  ELSE [status |-> IF ComposeIssues(pack, policy, proposal) THEN "blocked" ELSE "ready",
        pack |-> pack, policy |-> policy, proposal |-> proposal]

(* validateCrossRepoPr *)
PrReadsBack(pr) ==
  /\ pr # Invalid
  /\ pr.proposal.head \notin DefaultBranches
  /\ pr.status = "ready" =>
       /\ pr.policy.standing = "active" /\ pr.pack.status = "ready"
       /\ \A path \in pr.proposal.changed : IsAllowedPath(path, pr.policy.paths)

(***************************************************************************)
(* The arena: scores are kept in tenths, ids are numbered in their order   *)
(***************************************************************************)
RiskPenalty(risk) ==
  CASE risk = "low" -> 0 [] risk = "medium" -> 50 [] risk = "high" -> 120 [] risk = "critical" -> 250
Rejected(c) == ~c.compliant \/ (c.kind = "local" /\ c.breach)
ScoreTotal(c) ==
  IF Rejected(c) THEN 0 ELSE 6 * c.eval + 3 * c.lineage + c.reputation - RiskPenalty(c.risk)

CandidatesAreValid(cs) ==
  /\ Cardinality(cs) >= 2
  /\ \A c, d \in cs : c.id = d.id => c = d
  /\ \A c \in cs : c.breach => c.kind = "local"

RanksBefore(c, d) == ScoreTotal(c) > ScoreTotal(d) \/ (ScoreTotal(c) = ScoreTotal(d) /\ c.id < d.id)
Nobody == 0
CompareArena(binding, margin, cs) ==
  LET eligible == {c \in cs : ~Rejected(c)}
      first == CHOOSE c \in eligible : \A d \in eligible \ {c} : RanksBefore(c, d)
      second == CHOOSE c \in eligible \ {first} : \A d \in eligible \ {first, c} : RanksBefore(c, d)
      result(status, winner) ==
        [status |-> status, winner |-> winner, binding |-> binding, margin |-> margin, candidates |-> cs]
  IN IF ~CandidatesAreValid(cs) \/ margin \notin 10..500 THEN Invalid
     ELSE IF binding # {} \/ Cardinality(eligible) < 2 THEN result("blocked", Nobody)
     ELSE IF ScoreTotal(first) - ScoreTotal(second) >= margin THEN result("ready", first.id)
     ELSE result("inconclusive", Nobody)

(* validateArenaComparison: compareArenaCandidates does not ask it.            *)
ArenaReadsBack(arena) ==
  /\ arena # Invalid
  /\ \A c \in arena.candidates : ScoreTotal(c) \in 0..1000
  /\ arena = CompareArena(arena.binding, arena.margin, arena.candidates)

(***************************************************************************)
(* The federation report                                                   *)
(***************************************************************************)
(* in.peers, in.exchanges and in.decisions: sets of records, by id.  An        *)
(* exchange names the boundary decision it rests on, or none.                  *)
CrossRefs(in) ==
  LET ids == {p.id : p \in in.peers} IN
  /\ \A x \in in.exchanges : x.peer \in ids /\ x.decisions \subseteq {d.id : d \in in.decisions}
  /\ \A d \in in.decisions : d.peer \in ids
ReportIsValid(in) ==
  /\ \A p, q \in in.peers : p.id = q.id => p = q
  /\ \A x, y \in in.exchanges : x.id = y.id => x = y
  /\ \A d, e \in in.decisions : d.id = e.id => d = e
  /\ \A x \in in.exchanges : ~x.adopted
  /\ CrossRefs(in)

(* visible_risk_flags *)
(* Mutant: what the boundary decided is left to the counts. *)
FlagsOfPeer(in, p) ==
  {<<"peer", s>> : s \in {p.status} \cap {"quarantined", "revoked"}}
  \cup {<<"treaty", s>> : s \in {p.treaty} \ {"active"}}
  \cup {<<"reputation", a>> : a \in {p.action} \cap {"quarantine", "revocation_review"}}
RiskFlags(in, p) ==
  {<<"peer", s>> : s \in {p.status} \cap {"quarantined", "revoked"}}
  \cup {<<"treaty", s>> : s \in {p.treaty} \ {"active"}}
  \cup {<<"reputation", a>> : a \in {p.action} \cap {"quarantine", "revocation_review"}}
  \cup {<<"boundary", d.status>> : d \in {e \in in.decisions :
           e.peer = p.id /\ e.status \in {"quarantined", "rejected"}}}

Summarize(in) ==
  [quarantined |-> {p.id : p \in {q \in in.peers : q.status = "quarantined"}},
   revoked |-> {p.id : p \in {q \in in.peers : q.status = "revoked"}},
   candidates |-> Cardinality({x \in in.exchanges : x.status = "candidate_registered"}),
   allowed |-> Cardinality({d \in in.decisions : d.status = "allowed"})]

RenderReport(in) ==
  IF ~ReportIsValid(in) THEN Invalid
  ELSE [status |-> "ready", inputs |-> in, summary |-> Summarize(in),
        flags |-> [id \in {p.id : p \in in.peers} |->
                     RiskFlags(in, CHOOSE p \in in.peers : p.id = id)]]

ReportReadsBack(report) ==
  report # Invalid /\ report = RenderReport(report.inputs)
=============================================================================
