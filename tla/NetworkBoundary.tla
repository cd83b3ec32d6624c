---------------------------- MODULE NetworkBoundary ----------------------------
(* The two gates of the federation that look at the peer registry:             *)
(*   enforceNetworkBoundary (T067, packages/network/src/boundary.ts)           *)
(*   scheduleGossipSync     (T064, packages/network/src/gossip.ts)             *)
(* Times are relative: a due time, a cooldown and the end of a window are the  *)
(* steps left until then, an elapsed time the steps since then.  The jitter is *)
(* a hash of the time, so any value in its range is possible.                  *)
EXTENDS Integers, FiniteSets, FiniteSetsExt

CONSTANTS
  BaseInterval, JitterMax,     \* steps between two syncs with a peer
  MaxPeersPerSync,             \* most peers of one plan that get a slot
  MaxSyncsPerWindow,           \* most syncs between two resets of the window
  WindowLength                 \* steps between two resets

ASSUME RateBoundaryIsValid ==
  /\ BaseInterval \in Nat \ {0} /\ JitterMax \in Nat /\ WindowLength \in Nat \ {0}
  /\ MaxPeersPerSync \in Nat \ {0} /\ MaxSyncsPerWindow \in Nat \ {0}

Actions == {"cross_repo_pr", "gossip_sync", "lineage_export", "lineage_import_candidate",
            "reputation_update"}
Statuses == {"active", "suspended", "quarantined", "deprecated", "unknown"}
TreatyStatuses == {"active", "suspended", "revoked", "missing"}
Modes == {"federate", "observe", "quarantine", "halted"}
RuntimeType == [mode : Modes, allowed : BOOLEAN, killed : BOOLEAN]
Reviewed == {"quarantine", "revocation_review"}

MaxOf(m, n) == IF m > n THEN m ELSE n
MinOf(m, n) == IF m < n THEN m ELSE n

(***************************************************************************)
(* The boundary                                                            *)
(***************************************************************************)
(* A request: q.action, between q.source and q.target; what it asks for that   *)
(* nobody may have is in q.wants.                                              *)
Wants == {"open_federation", "adoption", "transport"}

MustQuarantine(peer, reputation, q) ==
  \/ "open_federation" \in q.wants
  \/ ~peer.known \/ peer.status \in {"unknown", "quarantined"}
  \/ reputation.action \in Reviewed \/ reputation.score < 30

RuntimeBlocks(r) == r.mode # "federate" \/ ~r.allowed \/ r.killed

MustReject(r, peer, t, q) ==
  \/ RuntimeBlocks(r)
  \/ peer.status \in {"suspended", "deprecated"}
  \/ t.status # "active" \/ t.expired
  \/ t.source # q.source \/ t.target # q.target \/ peer.id # q.target
  \/ q.action \notin t.actions
  \/ q.wants \cap {"adoption", "transport"} # {}

BoundaryDecision(r, peer, t, reputation, q) ==
  IF MustQuarantine(peer, reputation, q) THEN "quarantined"
  ELSE IF MustReject(r, peer, t, q) THEN "rejected" ELSE "allowed"

(***************************************************************************)
(* The gossip plan                                                         *)
(***************************************************************************)
(* e: a peer of the gossip registry, with the status of its treaty, the action *)
(* last recommended for it, the time since its last sync and its cooldown.     *)
Skips(r, e) ==
  e.status # "active" \/ e.treaty # "active" \/ e.action \in Reviewed \/ RuntimeBlocks(r)

(* Mutant: the jitter is taken off the interval. *)
CadenceBefore(e, jitter) == MaxOf(BaseInterval - jitter, BaseInterval - jitter - e.elapsed)
(* max(now, last sync) plus the interval and the jitter: from now on, as the   *)
(* last sync is never in the future.                                           *)
CadenceAt(e, jitter) == MaxOf(BaseInterval + jitter, BaseInterval + jitter - e.elapsed)

AvailableSlots(count) == MinOf(MaxPeersPerSync, MaxOf(0, MaxSyncsPerWindow - count))

(* The plan: peers get slots in the order of their ids (place), those without  *)
(* one wait for the window to be reset.                                        *)
NeedsSlot(r, e) == ~Skips(r, e) /\ e.cooldown = 0
(* Mutant: a peer that is skipped takes a slot too. *)
AllBefore(r, entries, place, p) == {q \in DOMAIN entries : place[q] < place[p]}
Before(r, entries, place, p) ==
  {q \in DOMAIN entries : place[q] < place[p] /\ NeedsSlot(r, entries[q])}
PeerDecision(r, entries, place, count, reset, jitter, p) ==
  LET e == entries[p]
      before == Before(r, entries, place, p)
      due == CadenceAt(e, jitter[p])
  IN CASE Skips(r, e) -> [decision |-> "skip", due |-> 0]
       [] ~Skips(r, e) /\ e.cooldown > 0 -> [decision |-> "delay", due |-> MaxOf(due, e.cooldown)]
       [] NeedsSlot(r, e) /\ Cardinality(before) >= AvailableSlots(count) ->
            [decision |-> "delay", due |-> reset]
       [] NeedsSlot(r, e) /\ Cardinality(before) < AvailableSlots(count) ->
            [decision |-> "schedule", due |-> due]
ComputePlan(r, entries, place, count, reset, jitter) ==
  [p \in DOMAIN entries |-> PeerDecision(r, entries, place, count, reset, jitter, p)]

With(plan, decision) == {p \in DOMAIN plan : plan[p].decision = decision}
(* next_sync_at: nothing is scheduled or delayed, or the first of them is due. *)
NextSyncReached(plan) ==
  LET waiting == With(plan, "schedule") \cup With(plan, "delay")
  IN waiting = {} \/ \E p \in waiting : plan[p].due = 0
=============================================================================
