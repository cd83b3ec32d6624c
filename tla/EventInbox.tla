----------------------------- MODULE EventInbox -----------------------------
(* The SQLite event inbox of the GitHub App: server processes enqueue accepted *)
(* webhook deliveries and forward new ones downstream, workers claim rows and  *)
(* mark how the processing ended.  enqueue looks a row up and writes it with   *)
(* two separate statements, so two processes can interleave there; a claim is  *)
(* one transaction.  Times a row stores are kept as the ticks left until them. *)
EXTENDS Integers, Sequences, FiniteSets

CONSTANTS
  Servers,       \* processes that serve webhooks over the same inbox file
  Workers,       \* processes that claim and process rows
  Deliveries,    \* X-GitHub-Delivery ids, as numbers: their order breaks ties
  Hashes,        \* raw_body_sha256 values
  Sent,          \* Sent[d]: the hashes of the bodies that are sent under d
  NoHash, Nobody,
  LeaseTicks,    \* leaseMs a worker claims with
  RetryDelays,   \* nextAttemptAt - now a worker may pass to markFailed
  Crashing,      \* servers and workers that may die
  Sweeping,      \* which expired claims an operator reopens (see Sweep)
  MaxNow, MaxCount  \* bounds: created_at values, counters (they stop there)

ASSUME DeliveriesAreOrdered == Deliveries \subseteq Int
ASSUME BodiesAreHashed == Sent \in [Deliveries -> SUBSET Hashes]
ASSUME TimesAreNaturals == LeaseTicks \in Nat /\ RetryDelays \subseteq Nat
ASSUME BoundsAreNaturals == {MaxNow, MaxCount} \subseteq Nat
ASSUME NullsApart == NoHash \notin Hashes /\ Nobody \notin Workers
ASSUME SweepingIsKnown == Sweeping \in {"never", "orphans", "expired"}

VARIABLES
  rows,       \* forge_event_inbox, by delivery_id; status "absent" when not stored
  serving,    \* serving[s]: the enqueue server s is inside, if any
  holding,    \* holding[w]: the delivery worker w is processing, a set of at most one
  forwarded,  \* forwarded[d]: the hashes the downstream handoff was given for d
  now         \* clock value a new row gets as created_at

vars == <<rows, serving, holding, forwarded, now>>

Statuses == {"absent", "received", "processing", "processed", "failed_retryable",
             "failed_terminal"}
Open == {"received", "failed_retryable"}
Final == {"processed", "failed_terminal"}

Rows == [status : Statuses, hash : Hashes \cup {NoHash}, attempts : Nat,
         duplicates : Nat, wait : Nat, locked_by : Workers \cup {Nobody},
         lease : Nat, last_error : {"none", "hash_mismatch", "failure"},
         created : Nat]

AbsentRow == [status |-> "absent", hash |-> NoHash, attempts |-> 0, duplicates |-> 0,
              wait |-> 0, locked_by |-> Nobody, lease |-> 0, last_error |-> "none",
              created |-> 0]

Idle == [pc |-> "idle"]
Looked(d, h, found) == [pc |-> "looked", d |-> d, hash |-> h, found |-> found]
Forwarding(d, h) == [pc |-> "forwarding", d |-> d, hash |-> h]

Stored(d) == rows[d].status # "absent"
Count(n) == IF n < MaxCount THEN n + 1 ELSE n
Elapse(n) == IF n = 0 THEN 0 ELSE n - 1

(* Mutants: an expired claim is claimable too; failed rows are not.            *)
ClaimableWhenExpired(row) ==
  /\ row.status \in {"received", "processing"} \/ (row.status = "failed_retryable" /\ row.wait = 0)
  /\ row.locked_by = Nobody \/ row.lease = 0
ClaimableWhenReceived(row) ==
  row.status = "received" /\ (row.locked_by = Nobody \/ row.lease = 0)

(* The WHERE clause of claimNextForProcessing, and its ORDER BY created_at,    *)
(* delivery_id.                                                                *)
Claimable(row) ==
  /\ row.status = "received" \/ (row.status = "failed_retryable" /\ row.wait = 0)
  /\ row.locked_by = Nobody \/ row.lease = 0

Before(d, e) ==
  \/ rows[d].created < rows[e].created
  \/ rows[d].created = rows[e].created /\ d <= e

NextUp(d) ==
  /\ Claimable(rows[d])
  /\ \A e \in Deliveries : Claimable(rows[e]) => Before(d, e)

----------------------------------------------------------------------------
Init ==
  /\ rows = [d \in Deliveries |-> AbsentRow]
  /\ serving = [s \in Servers |-> Idle]
  /\ holding = [w \in Workers |-> {}]
  /\ forwarded = [d \in Deliveries |-> <<>>]
  /\ now = 0

(* enqueue, first statement: SELECT by delivery_id.  GitHub may deliver an id   *)
(* again at any time, to any server, with the same or with another body.        *)
LookUp(s, d, h) ==
  /\ serving[s] = Idle
  /\ serving' = [serving EXCEPT ![s] = Looked(d, h, rows[d].hash)]
  /\ UNCHANGED <<rows, holding, forwarded, now>>

ReceivedRow(h) ==
  [AbsentRow EXCEPT !.status = "received", !.hash = h, !.created = now]

(* enqueue, INSERT: the handoff goes on to the downstream for a new row only.   *)
InsertRow(s) ==
  /\ serving[s].pc = "looked" /\ serving[s].found = NoHash
  /\ ~Stored(serving[s].d)
  /\ rows' = [rows EXCEPT ![serving[s].d] =
       ReceivedRow(serving[s].hash)]
  /\ serving' = [serving EXCEPT ![s] = Forwarding(serving[s].d, serving[s].hash)]
  /\ UNCHANGED <<holding, forwarded, now>>

(* The INSERT of an id that another server stored since the look-up breaks the  *)
(* primary key: enqueue throws and nothing is written.                          *)
InsertRefused(s) ==
  /\ serving[s].pc = "looked" /\ serving[s].found = NoHash
  /\ Stored(serving[s].d)
  /\ serving' = [serving EXCEPT ![s] = Idle]
  /\ UNCHANGED <<rows, holding, forwarded, now>>

CountedRow(row) == [row EXCEPT !.duplicates = Count(@)]
ConflictRow(row) == [row EXCEPT !.last_error = "hash_mismatch"]

(* Mutant: a redelivery is handed on as well.                                   *)
CountAndForwardDuplicate(s) ==
  /\ serving[s].pc = "looked" /\ serving[s].found = serving[s].hash
  /\ rows' = [rows EXCEPT ![serving[s].d] = CountedRow(@)]
  /\ serving' = [serving EXCEPT ![s] = Forwarding(serving[s].d, serving[s].hash)]
  /\ UNCHANGED <<holding, forwarded, now>>
CountDuplicate(s) ==
  /\ serving[s].pc = "looked" /\ serving[s].found = serving[s].hash
  /\ rows' = [rows EXCEPT ![serving[s].d] = CountedRow(@)]
  /\ serving' = [serving EXCEPT ![s] = Idle]
  /\ UNCHANGED <<holding, forwarded, now>>

(* Mutant: the other body replaces the one stored.                              *)
OverwriteOnConflict(s) ==
  /\ serving[s].pc = "looked" /\ serving[s].found \notin {NoHash, serving[s].hash}
  /\ rows' = [rows EXCEPT ![serving[s].d].hash = serving[s].hash]
  /\ serving' = [serving EXCEPT ![s] = Idle]
  /\ UNCHANGED <<holding, forwarded, now>>

(* Another body under a known id: the row keeps its payload and its status.     *)
RecordConflict(s) ==
  /\ serving[s].pc = "looked" /\ serving[s].found \notin {NoHash, serving[s].hash}
  /\ rows' = [rows EXCEPT ![serving[s].d] = ConflictRow(@)]
  /\ serving' = [serving EXCEPT ![s] = Idle]
  /\ UNCHANGED <<holding, forwarded, now>>

(* createEventInboxHandoff: the downstream is called after the insert; it may   *)
(* reject, and nothing calls it again for this id.                              *)
Forward(s) ==
  /\ serving[s].pc = "forwarding"
  /\ forwarded' = [forwarded EXCEPT ![serving[s].d] = Append(@, serving[s].hash)]
  /\ serving' = [serving EXCEPT ![s] = Idle]
  /\ UNCHANGED <<rows, holding, now>>

ForwardRejected(s) ==
  /\ serving[s].pc = "forwarding"
  /\ serving' = [serving EXCEPT ![s] = Idle]
  /\ UNCHANGED <<rows, holding, forwarded, now>>

Claimed(row, w) ==
  [row EXCEPT !.status = "processing", !.attempts = Count(@), !.locked_by = w,
              !.lease = LeaseTicks, !.last_error = "none"]

ClaimNextForProcessing(w, d) ==
  /\ holding[w] = {}
  /\ NextUp(d)
  /\ rows' = [rows EXCEPT ![d] = Claimed(@, w)]
  /\ holding' = [holding EXCEPT ![w] = {d}]
  /\ UNCHANGED <<serving, forwarded, now>>

ProcessedRow(row) ==
  [row EXCEPT !.status = "processed", !.wait = 0, !.locked_by = Nobody, !.lease = 0,
              !.last_error = "none"]

(* markFailed stores next_attempt_at for a retryable failure and clears it for  *)
(* a terminal one.                                                              *)
FailedRow(row, status, delay) ==
  [row EXCEPT !.status = status, !.wait = delay, !.locked_by = Nobody, !.lease = 0,
              !.last_error = "failure"]

MarkProcessed(w, d) ==
  /\ d \in holding[w]
  /\ rows' = [rows EXCEPT ![d] = ProcessedRow(@)]
  /\ holding' = [holding EXCEPT ![w] = {}]
  /\ UNCHANGED <<serving, forwarded, now>>

MarkFailedRetryable(w, d, delay) ==
  /\ d \in holding[w]
  /\ rows' = [rows EXCEPT ![d] = FailedRow(@, "failed_retryable", delay)]
  /\ holding' = [holding EXCEPT ![w] = {}]
  /\ UNCHANGED <<serving, forwarded, now>>

MarkFailedTerminal(w, d) ==
  /\ d \in holding[w]
  /\ rows' = [rows EXCEPT ![d] = FailedRow(@, "failed_terminal", 0)]
  /\ holding' = [holding EXCEPT ![w] = {}]
  /\ UNCHANGED <<serving, forwarded, now>>

(* An operator reopens a claim whose lease ran out, with the only operation     *)
(* that can: markFailed, which asks neither for the status nor for the owner.   *)
(* "orphans": an operator who sees to it that no worker processes the row still.*)
Sweep(d) ==
  /\ Sweeping # "never"
  /\ Sweeping = "orphans" => \A w \in Workers : d \notin holding[w]
  /\ rows[d].status = "processing" /\ rows[d].lease = 0
  /\ \E delay \in RetryDelays :
       rows' = [rows EXCEPT ![d] = FailedRow(@, "failed_retryable", delay)]
  /\ UNCHANGED <<serving, holding, forwarded, now>>

CrashServer(s) ==
  /\ s \in Crashing /\ serving[s] # Idle
  /\ serving' = [serving EXCEPT ![s] = Idle]
  /\ UNCHANGED <<rows, holding, forwarded, now>>

(* A worker forgets what it was processing; the row stays in processing.        *)
CrashWorker(w) ==
  /\ w \in Crashing /\ holding[w] # {}
  /\ holding' = [holding EXCEPT ![w] = {}]
  /\ UNCHANGED <<rows, serving, forwarded, now>>

TickedRow(row) == [row EXCEPT !.wait = Elapse(@), !.lease = Elapse(@)]

Tick ==
  /\ now' = IF now < MaxNow THEN now + 1 ELSE now
  /\ rows' = [d \in Deliveries |-> TickedRow(rows[d])]
  /\ UNCHANGED <<serving, holding, forwarded>>

Enqueue(s) ==
  \/ InsertRow(s) \/ InsertRefused(s) \/ CountDuplicate(s) \/ RecordConflict(s)
  \/ Forward(s) \/ ForwardRejected(s)

Mark(w) ==
  \E d \in Deliveries :
    \/ MarkProcessed(w, d) \/ MarkFailedTerminal(w, d)
    \/ \E delay \in RetryDelays : MarkFailedRetryable(w, d, delay)

Claim(w) == \E d \in Deliveries : ClaimNextForProcessing(w, d)

Next ==
  \/ Tick
  \/ \E s \in Servers :
       \/ \E d \in Deliveries : \E h \in Sent[d] : LookUp(s, d, h)
       \/ Enqueue(s) \/ CrashServer(s)
  \/ \E w \in Workers : Claim(w) \/ Mark(w) \/ CrashWorker(w)
  \/ \E d \in Deliveries : Sweep(d)

Spec == Init /\ [][Next]_vars

(* Workers keep polling and finish what they claim, and time passes.            *)
FairSpec ==
  /\ Spec
  /\ \A w \in Workers : WF_vars(Claim(w)) /\ WF_vars(Mark(w))
  /\ WF_vars(Tick)

----------------------------------------------------------------------------
(* Properties.                                                              *)

Calls == {Idle}
  \cup [pc : {"looked"}, d : Deliveries, hash : Hashes, found : Hashes \cup {NoHash}]
  \cup [pc : {"forwarding"}, d : Deliveries, hash : Hashes]

(* Every variable has its type.                                               *)
TypeOK ==
  /\ rows \in [Deliveries -> Rows]
  /\ serving \in [Servers -> Calls]
  /\ holding \in [Workers -> SUBSET Deliveries]
  /\ forwarded \in [Deliveries -> Seq(Hashes)]
  /\ now \in Nat

(* A row carries a lock exactly while it is in processing, so the lease clause *)
(* of the claim query never decides anything: no row it could let through or   *)
(* hold back has a lock.  True under crashes, races and an operator's sweep.   *)
LockedExactlyWhileProcessing ==
  \A d \in Deliveries :
    /\ (rows[d].locked_by # Nobody) <=> (rows[d].status = "processing")
    /\ rows[d].lease > 0 => rows[d].status = "processing"

(* Two workers never process one delivery at the same time, and the row names  *)
(* the worker that does: what keeps one webhook from becoming two pull requests*)
ClaimIsExclusive ==
  \A w \in Workers, d \in Deliveries :
    d \in holding[w] => rows[d].status = "processing" /\ rows[d].locked_by = w

(* The downstream is given a delivery at most once, and with the body the row  *)
(* keeps, however many servers race on redeliveries and conflicting bodies.    *)
ForwardedAtMostOnce ==
  \A d \in Deliveries :
    /\ Len(forwarded[d]) <= 1
    /\ forwarded[d] # <<>> => forwarded[d][1] = rows[d].hash

(* If from some point on no processing ends in a retryable failure, and no     *)
(* claim of a dead worker is left alone for ever, every delivery stored is     *)
(* eventually processed or failed for good, although older rows that fail may  *)
(* be claimed again before it.                                                 *)
RetriesStop ==
  <>[][\A d \in Deliveries :
        ~(rows[d].status = "processing" /\ rows'[d].status = "failed_retryable")]_vars
Orphaned(d) == rows[d].status = "processing" /\ \A w \in Workers : d \notin holding[w]
NoOrphanStays == \A d \in Deliveries : []<>~Orphaned(d)
EveryDeliverySettles ==
  RetriesStop /\ NoOrphanStays => \A d \in Deliveries : Stored(d) ~> rows[d].status \in Final

(* The rows and the handoffs as DeliveryLedger sees them.                     *)
Stage(status) ==
  CASE status = "absent" -> "unknown" [] status \in Open -> "pending"
    [] status = "processing" -> "working" [] OTHER -> "closed"

Ledger == INSTANCE DeliveryLedger WITH
  Ids <- Deliveries, Bodies <- Hashes, NoBody <- NoHash,
  stage  <- [d \in Deliveries |-> Stage(rows[d].status)],
  body   <- [d \in Deliveries |-> rows[d].hash],
  passed <- [d \in Deliveries |-> forwarded[d] # <<>>]

(* The inbox implements the ledger while an operator reopens no claim that is  *)
(* still processed: redeliveries, conflicts, races of two servers, crashes and *)
(* retries never change a body, pass it on a second time, reopen a closed      *)
(* delivery or start one that is being worked on.                              *)
ImplementsLedger == Ledger!Spec
============================================================================
