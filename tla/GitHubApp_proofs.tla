-------------------------- MODULE GitHubApp_proofs ---------------------------
(* Proofs about the two halves of the GitHub App: the inbox in its SQLite      *)
(* store, for any number of servers, workers, deliveries and bodies; and the   *)
(* HTTP server in front of it, for any number of requests of any kind, any     *)
(* body and queue limits, with clients that leave, handoffs that reject and a  *)
(* process that dies anywhere.                                                 *)
EXTENDS EventInbox, WebhookServer, TLAPS

----------------------------------------------------------------------------
(* What the row operators return.                                             *)

LEMMA AbsentTyped == AbsentRow \in Rows
BY DEF AbsentRow, Rows, Statuses

LEMMA CountTyped == \A n \in Nat : Count(n) \in Nat
BY BoundsAreNaturals DEF Count

LEMMA ElapseTyped == \A n \in Nat : Elapse(n) \in Nat /\ (Elapse(n) > 0 => n > 0)
BY DEF Elapse

LEMMA InsertedFields ==
  ASSUME NEW h \in Hashes, now \in Nat
  PROVE  /\ ReceivedRow(h) \in Rows /\ ReceivedRow(h).status = "received"
         /\ ReceivedRow(h).hash = h /\ ReceivedRow(h).locked_by = Nobody
         /\ ReceivedRow(h).lease = 0
BY DEF AbsentRow, Rows, Statuses, ReceivedRow

LEMMA ClaimedFields ==
  ASSUME NEW r \in Rows, NEW w \in Workers
  PROVE  /\ Claimed(r, w) \in Rows /\ Claimed(r, w).status = "processing"
         /\ Claimed(r, w).hash = r.hash /\ Claimed(r, w).locked_by = w
BY CountTyped, TimesAreNaturals DEF Claimed, Rows, Statuses

LEMMA ProcessedFields ==
  ASSUME NEW r \in Rows
  PROVE  /\ ProcessedRow(r) \in Rows /\ ProcessedRow(r).status = "processed"
         /\ ProcessedRow(r).hash = r.hash /\ ProcessedRow(r).locked_by = Nobody
         /\ ProcessedRow(r).lease = 0
BY DEF ProcessedRow, Rows, Statuses

LEMMA FailedFields ==
  ASSUME NEW r \in Rows, NEW status \in Statuses, NEW delay \in Nat
  PROVE  /\ FailedRow(r, status, delay) \in Rows
         /\ FailedRow(r, status, delay).status = status
         /\ FailedRow(r, status, delay).hash = r.hash
         /\ FailedRow(r, status, delay).locked_by = Nobody
         /\ FailedRow(r, status, delay).lease = 0
BY DEF FailedRow, Rows

(* Counting a redelivery or noting a conflict leaves status, body and lock.    *)
SameClaim(r, q) ==
  /\ q \in Rows /\ q.status = r.status /\ q.hash = r.hash
  /\ q.locked_by = r.locked_by /\ q.lease = r.lease

LEMMA NotedFields ==
  ASSUME NEW r \in Rows
  PROVE  SameClaim(r, CountedRow(r)) /\ SameClaim(r, ConflictRow(r))
BY CountTyped DEF SameClaim, Rows, CountedRow, ConflictRow

LEMMA TickedFields ==
  ASSUME NEW r \in Rows
  PROVE  /\ TickedRow(r) \in Rows /\ TickedRow(r).status = r.status
         /\ TickedRow(r).hash = r.hash /\ TickedRow(r).locked_by = r.locked_by
         /\ TickedRow(r).lease > 0 => r.lease > 0
BY ElapseTyped DEF Rows, TickedRow

LEMMA ClaimableIsOpen ==
  ASSUME NEW r, Claimable(r)
  PROVE  r.status \in Open
BY DEF Claimable, Open

(* The shapes of a pending enqueue, read off its pc.                           *)
LEMMA LookedFields ==
  ASSUME NEW c \in Calls, c.pc = "looked"
  PROVE  c.d \in Deliveries /\ c.hash \in Hashes /\ c.found \in Hashes \cup {NoHash}
BY DEF Calls, Idle

LEMMA ForwardingFields ==
  ASSUME NEW c \in Calls, c.pc = "forwarding"
  PROVE  c.d \in Deliveries /\ c.hash \in Hashes
BY DEF Calls, Idle

LEMMA CallsMade ==
  /\ Idle \in Calls /\ Idle.pc = "idle"
  /\ \A d \in Deliveries, h \in Hashes, f \in Hashes \cup {NoHash} : Looked(d, h, f) \in Calls
  /\ \A d \in Deliveries, h \in Hashes : Forwarding(d, h) \in Calls
BY DEF Calls, Idle, Looked, Forwarding

----------------------------------------------------------------------------
(* Type correctness.  Each action gives each variable a typed value.          *)

LEMMA InitTyped == Init => TypeOK
BY AbsentTyped, CallsMade DEF Init, TypeOK

LEMMA EnqueueTyped ==
  ASSUME TypeOK, NEW s \in Servers, Enqueue(s)
  PROVE  TypeOK'
<1> DEFINE c == serving[s]
<1>0. c \in Calls
  BY DEF TypeOK
<1>1. CASE InsertRow(s)
  <2>1. c.d \in Deliveries /\ c.hash \in Hashes
    BY <1>0, <1>1, LookedFields DEF InsertRow
  <2> QED
    BY <1>1, <2>1, InsertedFields, CallsMade DEF InsertRow, TypeOK
<1>2. CASE InsertRefused(s) \/ ForwardRejected(s)
  BY <1>2, CallsMade DEF InsertRefused, ForwardRejected, TypeOK
<1>3. CASE CountDuplicate(s)
  <2>1. c.d \in Deliveries
    BY <1>0, <1>3, LookedFields DEF CountDuplicate
  <2> QED
    BY <1>3, <2>1, NotedFields, CallsMade DEF CountDuplicate, TypeOK, SameClaim
<1>4. CASE RecordConflict(s)
  <2>1. c.d \in Deliveries
    BY <1>0, <1>4, LookedFields DEF RecordConflict
  <2> QED
    BY <1>4, <2>1, NotedFields, CallsMade DEF RecordConflict, TypeOK, SameClaim
<1>5. CASE Forward(s)
  <2>1. c.d \in Deliveries /\ c.hash \in Hashes
    BY <1>0, <1>5, ForwardingFields DEF Forward
  <2> QED
    BY <1>5, <2>1, CallsMade DEF Forward, TypeOK
<1> QED
  BY <1>1, <1>2, <1>3, <1>4, <1>5 DEF Enqueue

LEMMA WorkerTyped ==
  ASSUME TypeOK, NEW w \in Workers, Claim(w) \/ Mark(w) \/ CrashWorker(w)
  PROVE  TypeOK'
<1>1. CASE Claim(w)
  <2>1. PICK d \in Deliveries : ClaimNextForProcessing(w, d)
    BY <1>1 DEF Claim
  <2> QED
    BY <2>1, ClaimedFields DEF ClaimNextForProcessing, TypeOK
<1>2. CASE Mark(w)
  <2>1. PICK d \in Deliveries :
          \/ MarkProcessed(w, d) \/ MarkFailedTerminal(w, d)
          \/ \E delay \in RetryDelays : MarkFailedRetryable(w, d, delay)
    BY <1>2 DEF Mark
  <2>2. \A delay \in RetryDelays : delay \in Nat
    BY TimesAreNaturals
  <2>3. {"failed_retryable", "failed_terminal"} \subseteq Statuses
    BY DEF Statuses
  <2>4. rows[d] \in Rows
    BY DEF TypeOK
  <2>5. PICK q \in Rows : rows' = [rows EXCEPT ![d] = q]
    <3>1. CASE MarkProcessed(w, d)
      BY <2>4, <3>1, ProcessedFields DEF MarkProcessed
    <3>2. CASE MarkFailedTerminal(w, d)
      BY <2>3, <2>4, <3>2, FailedFields DEF MarkFailedTerminal
    <3>3. ASSUME NEW delay \in RetryDelays, MarkFailedRetryable(w, d, delay)
          PROVE  \E q \in Rows : rows' = [rows EXCEPT ![d] = q]
      BY <2>2, <2>3, <2>4, <3>3, FailedFields DEF MarkFailedRetryable
    <3> QED
      BY <2>1, <3>1, <3>2, <3>3
  <2>6. /\ holding' = [holding EXCEPT ![w] = {}]
        /\ UNCHANGED <<serving, forwarded, now>>
    BY <2>1 DEF MarkProcessed, MarkFailedTerminal, MarkFailedRetryable
  <2> QED
    BY <2>5, <2>6 DEF TypeOK
<1>3. CASE CrashWorker(w)
  BY <1>3 DEF CrashWorker, TypeOK
<1> QED
  BY <1>1, <1>2, <1>3

LEMMA NextTyped == TypeOK /\ [Next]_vars => TypeOK'
<1> SUFFICES ASSUME TypeOK, [Next]_vars PROVE TypeOK'
  OBVIOUS
<1>1. CASE UNCHANGED vars
  BY <1>1 DEF vars, TypeOK
<1>2. CASE Tick
  <2>1. rows' \in [Deliveries -> Rows]
    <3>1. \A d \in Deliveries : TickedRow(rows[d]) \in Rows
      BY TickedFields DEF TypeOK
    <3> HIDE DEF Rows
    <3> QED
      BY <1>2, <3>1 DEF Tick
  <2>2. now' \in Nat
    <3>1. now \in Nat /\ now + 1 \in Nat
      BY DEF TypeOK
    <3> QED
      BY <1>2, <3>1 DEF Tick
  <2> QED
    BY <1>2, <2>1, <2>2 DEF Tick, TypeOK
<1>3. ASSUME NEW s \in Servers, NEW d \in Deliveries, NEW h \in Hashes, LookUp(s, d, h)
      PROVE  TypeOK'
  <2>1. Looked(d, h, rows[d].hash) \in Calls
    BY CallsMade DEF TypeOK, Rows
  <2> QED
    BY <1>3, <2>1 DEF LookUp, TypeOK
<1>4. ASSUME NEW s \in Servers, CrashServer(s) PROVE TypeOK'
  BY <1>4, CallsMade DEF CrashServer, TypeOK
<1>5. ASSUME NEW d \in Deliveries, Sweep(d) PROVE TypeOK'
  <2>1. PICK delay \in RetryDelays :
          rows' = [rows EXCEPT ![d] = FailedRow(@, "failed_retryable", delay)]
    BY <1>5 DEF Sweep
  <2> QED
    <3>1. rows[d] \in Rows /\ delay \in Nat
      BY TimesAreNaturals DEF TypeOK
    <3>2. FailedRow(rows[d], "failed_retryable", delay) \in Rows
      BY <3>1, FailedFields DEF Statuses
    <3>3. UNCHANGED <<serving, holding, forwarded, now>>
      BY <1>5 DEF Sweep
    <3> QED
      BY <2>1, <3>2, <3>3 DEF TypeOK
<1>6. \A d \in Deliveries : Sent[d] \subseteq Hashes
  BY BodiesAreHashed
<1> QED
  BY <1>1, <1>2, <1>3, <1>4, <1>5, <1>6, EnqueueTyped, WorkerTyped DEF Next

(* Type correctness of the inbox.                                              *)
THEOREM TypeCorrect == Spec => []TypeOK
BY InitTyped, NextTyped, PTL DEF Spec

----------------------------------------------------------------------------
(* A step seen from the rows.  A quiet step keeps every row's status, body and *)
(* lock, hands nothing downstream and starts no handoff; a settling step ends  *)
(* what one worker holds.  The other steps are the actions themselves.         *)

Kept(d) ==
  /\ rows'[d].status = rows[d].status /\ rows'[d].hash = rows[d].hash
  /\ rows'[d].locked_by = rows[d].locked_by
  /\ rows'[d].lease > 0 => rows[d].lease > 0

Quiet ==
  /\ \A d \in Deliveries : Kept(d)
  /\ \A w \in Workers : holding'[w] \subseteq holding[w]
  /\ \A s \in Servers : serving'[s].pc = "forwarding" => serving'[s] = serving[s]
  /\ forwarded' = forwarded

Unlocked(q, r) ==
  /\ q \in Rows /\ q.status \in Final \cup {"failed_retryable"} /\ q.hash = r.hash
  /\ q.locked_by = Nobody /\ q.lease = 0

Settle(w, d) ==
  /\ d \in holding[w]
  /\ \E q : Unlocked(q, rows[d]) /\ rows' = [rows EXCEPT ![d] = q]
  /\ holding' = [holding EXCEPT ![w] = {}]
  /\ UNCHANGED <<serving, forwarded>>

Reopen(d) ==
  /\ Sweeping # "never" /\ rows[d].status = "processing"
  /\ Sweeping # "expired" => \A w \in Workers : d \notin holding[w]
  /\ \E q : Unlocked(q, rows[d]) /\ rows' = [rows EXCEPT ![d] = q]
  /\ UNCHANGED <<serving, holding, forwarded>>

LEMMA EnqueueCases ==
  ASSUME TypeOK, NEW s \in Servers, Enqueue(s)
  PROVE  Quiet \/ InsertRow(s) \/ Forward(s)
<1>1. serving[s] \in Calls /\ serving \in [Servers -> Calls] /\ Idle.pc = "idle"
  BY CallsMade DEF TypeOK
<1>2. CASE InsertRefused(s) \/ ForwardRejected(s)
  BY <1>1, <1>2 DEF InsertRefused, ForwardRejected, Quiet, Kept
<1>3. ASSUME NEW q, NEW d \in Deliveries, SameClaim(rows[d], q),
             rows' = [rows EXCEPT ![d] = q],
             serving' = [serving EXCEPT ![s] = Idle], UNCHANGED <<holding, forwarded>>
      PROVE  Quiet
  <2>1. \A e \in Deliveries : Kept(e)
    BY <1>3 DEF Kept, SameClaim, TypeOK
  <2> QED
    BY <1>1, <1>3, <2>1 DEF Quiet
<1>4. CASE CountDuplicate(s) \/ RecordConflict(s)
  <2>1. serving[s].d \in Deliveries
    BY <1>1, <1>4, LookedFields DEF CountDuplicate, RecordConflict
  <2> QED
    <3>1. rows[serving[s].d] \in Rows
      BY <2>1 DEF TypeOK
    <3>2. CASE CountDuplicate(s)
      BY <1>3, <2>1, <3>1, <3>2, NotedFields DEF CountDuplicate
    <3>3. CASE RecordConflict(s)
      BY <1>3, <2>1, <3>1, <3>3, NotedFields DEF RecordConflict
    <3> QED
      BY <1>4, <3>2, <3>3
<1> QED
  BY <1>2, <1>4 DEF Enqueue

LEMMA FailedUnlocks ==
  ASSUME NEW r \in Rows, NEW delay \in Nat
  PROVE  /\ Unlocked(FailedRow(r, "failed_retryable", delay), r)
         /\ Unlocked(FailedRow(r, "failed_terminal", 0), r)
<1>1. \A st \in {"failed_retryable", "failed_terminal"} : st \in Statuses
  BY DEF Statuses
<1>2. ASSUME NEW st \in {"failed_retryable", "failed_terminal"}, NEW n \in Nat
      PROVE  Unlocked(FailedRow(r, st, n), r)
  BY <1>1, FailedFields DEF Unlocked, Final
<1> QED
  BY <1>2

LEMMA MarkCases ==
  ASSUME TypeOK, NEW w \in Workers, Mark(w)
  PROVE  \E d \in Deliveries : Settle(w, d)
<1>1. PICK d \in Deliveries :
        \/ MarkProcessed(w, d) \/ MarkFailedTerminal(w, d)
        \/ \E delay \in RetryDelays : MarkFailedRetryable(w, d, delay)
  BY DEF Mark
<1>2. rows[d] \in Rows
  BY DEF TypeOK
<1>3. CASE MarkProcessed(w, d)
  <2>1. Unlocked(ProcessedRow(rows[d]), rows[d])
    BY <1>2, ProcessedFields DEF Unlocked, Final
  <2> QED
    BY <1>3, <2>1 DEF MarkProcessed, Settle
<1>4. CASE MarkFailedTerminal(w, d)
  <2>1. Unlocked(FailedRow(rows[d], "failed_terminal", 0), rows[d])
    BY <1>2, FailedUnlocks
  <2> QED
    BY <1>4, <2>1 DEF MarkFailedTerminal, Settle
<1>5. ASSUME NEW delay \in RetryDelays, MarkFailedRetryable(w, d, delay)
      PROVE  Settle(w, d)
  <2>1. Unlocked(FailedRow(rows[d], "failed_retryable", delay), rows[d])
    BY <1>2, FailedUnlocks, TimesAreNaturals
  <2> QED
    BY <1>5, <2>1 DEF MarkFailedRetryable, Settle
<1> QED
  BY <1>1, <1>3, <1>4, <1>5

LEMMA StepCases ==
  ASSUME TypeOK, [Next]_vars
  PROVE  \/ Quiet
         \/ \E s \in Servers : InsertRow(s) \/ Forward(s)
         \/ \E w \in Workers, d \in Deliveries :
              ClaimNextForProcessing(w, d) \/ Settle(w, d)
         \/ \E d \in Deliveries : Reopen(d)
<1>1. CASE UNCHANGED vars
  BY <1>1 DEF vars, Quiet, Kept
<1>2. CASE Tick
  <2>1. \A d \in Deliveries : Kept(d)
    BY <1>2, TickedFields DEF Tick, Kept, TypeOK
  <2> QED
    BY <1>2, <2>1 DEF Tick, Quiet
<1>3. ASSUME NEW s \in Servers, NEW d \in Deliveries, NEW h \in Sent[d], LookUp(s, d, h)
      PROVE  Quiet
  BY <1>3 DEF LookUp, Looked, Quiet, Kept, TypeOK
<1>4. ASSUME NEW s \in Servers, CrashServer(s) PROVE Quiet
  BY <1>4 DEF CrashServer, Idle, Quiet, Kept, TypeOK
<1>5. ASSUME NEW w \in Workers, CrashWorker(w) PROVE Quiet
  BY <1>5 DEF CrashWorker, Quiet, Kept, TypeOK
<1>6. ASSUME NEW d \in Deliveries, Sweep(d) PROVE Reopen(d)
  <2>1. PICK delay \in RetryDelays :
          rows' = [rows EXCEPT ![d] = FailedRow(@, "failed_retryable", delay)]
    BY <1>6 DEF Sweep
  <2>2. Unlocked(FailedRow(rows[d], "failed_retryable", delay), rows[d])
    BY FailedUnlocks, TimesAreNaturals DEF TypeOK
  <2>3. Sweeping # "expired" => \A w \in Workers : d \notin holding[w]
    BY <1>6, SweepingIsKnown DEF Sweep
  <2> QED
    BY <1>6, <2>1, <2>2, <2>3 DEF Sweep, Reopen
<1> QED
  BY <1>1, <1>2, <1>3, <1>4, <1>5, <1>6, EnqueueCases, MarkCases DEF Next, Claim

LEMMA InsertFacts ==
  ASSUME TypeOK, NEW s \in Servers, InsertRow(s)
  PROVE  LET d == serving[s].d  h == serving[s].hash IN
         /\ d \in Deliveries /\ h \in Hashes /\ rows[d].status = "absent"
         /\ rows' = [rows EXCEPT ![d] = ReceivedRow(h)]
         /\ serving' = [serving EXCEPT ![s] = Forwarding(d, h)]
         /\ UNCHANGED <<holding, forwarded>>
BY LookedFields DEF InsertRow, Stored, TypeOK

LEMMA ForwardFacts ==
  ASSUME TypeOK, NEW s \in Servers, Forward(s)
  PROVE  LET d == serving[s].d  h == serving[s].hash IN
         /\ serving[s].pc = "forwarding" /\ d \in Deliveries /\ h \in Hashes
         /\ forwarded' = [forwarded EXCEPT ![d] = Append(@, h)]
         /\ serving' = [serving EXCEPT ![s] = Idle]
         /\ UNCHANGED <<rows, holding>>
BY ForwardingFields DEF Forward, TypeOK

----------------------------------------------------------------------------
(* A lock means processing.                                                   *)

LEMMA LockStep ==
  ASSUME TypeOK, LockedExactlyWhileProcessing, [Next]_vars
  PROVE  LockedExactlyWhileProcessing'
<1> SUFFICES ASSUME NEW d \in Deliveries
             PROVE  /\ (rows'[d].locked_by # Nobody) <=> (rows'[d].status = "processing")
                    /\ rows'[d].lease > 0 => rows'[d].status = "processing"
  BY DEF LockedExactlyWhileProcessing
<1>0. /\ rows[d] \in Rows /\ rows \in [Deliveries -> Rows]
      /\ (rows[d].locked_by # Nobody) <=> (rows[d].status = "processing")
      /\ rows[d].lease > 0 => rows[d].status = "processing"
  BY DEF LockedExactlyWhileProcessing, TypeOK
<1>1. CASE Quiet
  BY <1>0, <1>1 DEF Quiet, Kept
<1>2. ASSUME NEW s \in Servers, InsertRow(s)
      PROVE  rows'[d] = rows[d] \/ \E h \in Hashes : rows'[d] = ReceivedRow(h)
  BY <1>0, <1>2, InsertFacts
<1>3. ASSUME NEW s \in Servers, Forward(s) PROVE rows'[d] = rows[d]
  BY <1>3, ForwardFacts
<1>4. ASSUME NEW w \in Workers, NEW e \in Deliveries, ClaimNextForProcessing(w, e)
      PROVE  rows'[d] = rows[d] \/ rows'[d] = Claimed(rows[d], w)
  BY <1>0, <1>4 DEF ClaimNextForProcessing
<1>5. ASSUME NEW e \in Deliveries, (\E w \in Workers : Settle(w, e)) \/ Reopen(e)
      PROVE  rows'[d] = rows[d] \/ Unlocked(rows'[d], rows[d])
  BY <1>0, <1>5 DEF Settle, Reopen
<1>6. ASSUME NEW h \in Hashes, rows'[d] = ReceivedRow(h)
      PROVE  rows'[d].locked_by = Nobody /\ rows'[d].lease = 0
             /\ rows'[d].status = "received"
  BY <1>6, InsertedFields DEF TypeOK
<1>7. ASSUME NEW w \in Workers, rows'[d] = Claimed(rows[d], w)
      PROVE  rows'[d].locked_by # Nobody /\ rows'[d].status = "processing"
  BY <1>0, <1>7, ClaimedFields, NullsApart
<1>8. ASSUME Unlocked(rows'[d], rows[d])
      PROVE  rows'[d].locked_by = Nobody /\ rows'[d].lease = 0
             /\ rows'[d].status # "processing"
  BY <1>8 DEF Unlocked, Final
<1> QED
  BY <1>0, <1>1, <1>2, <1>3, <1>4, <1>5, <1>6, <1>7, <1>8, StepCases

(* A row is locked exactly while it is in processing, sweeps included.         *)
THEOREM LocksMeanProcessing == Spec => []LockedExactlyWhileProcessing
<1>1. Init => LockedExactlyWhileProcessing
  BY DEF Init, LockedExactlyWhileProcessing, AbsentRow
<1> QED
  BY <1>1, LockStep, TypeCorrect, PTL DEF Spec

----------------------------------------------------------------------------
(* A claim is exclusive.                                                      *)

LEMMA ClaimStep ==
  ASSUME Sweeping # "expired", TypeOK, ClaimIsExclusive, [Next]_vars
  PROVE  ClaimIsExclusive'
<1> SUFFICES ASSUME NEW v \in Workers, NEW e \in Deliveries, e \in holding'[v]
             PROVE  rows'[e].status = "processing" /\ rows'[e].locked_by = v
  BY DEF ClaimIsExclusive
<1>0. rows \in [Deliveries -> Rows] /\ holding \in [Workers -> SUBSET Deliveries]
  BY DEF TypeOK
<1>1. CASE Quiet
  BY <1>1 DEF Quiet, Kept, ClaimIsExclusive
<1>2. ASSUME NEW s \in Servers, InsertRow(s)
      PROVE  rows'[e] = rows[e] /\ e \in holding[v]
  BY <1>0, <1>2, InsertFacts DEF ClaimIsExclusive
<1>3. ASSUME NEW s \in Servers, Forward(s)
      PROVE  rows'[e] = rows[e] /\ e \in holding[v]
  BY <1>3, ForwardFacts
<1>4. ASSUME NEW w \in Workers, NEW d \in Deliveries, ClaimNextForProcessing(w, d)
      PROVE  rows'[e].status = "processing" /\ rows'[e].locked_by = v
  <2>1. rows[d].status # "processing"
    BY <1>4, ClaimableIsOpen DEF ClaimNextForProcessing, NextUp, Open
  <2>2. rows'[d] = Claimed(rows[d], w) /\ \A f \in Deliveries \ {d} : rows'[f] = rows[f]
    BY <1>0, <1>4 DEF ClaimNextForProcessing
  <2>3. holding'[w] = {d} /\ \A u \in Workers \ {w} : holding'[u] = holding[u]
    BY <1>0, <1>4 DEF ClaimNextForProcessing
  <2>4. rows[d] \in Rows
    BY <1>0
  <2>5. Claimed(rows[d], w).status = "processing" /\ Claimed(rows[d], w).locked_by = w
    BY <2>4, ClaimedFields
  <2>6. CASE v = w
    BY <2>2, <2>3, <2>5, <2>6
  <2>7. CASE v # w
    <3>1. e \in holding[v] /\ e # d
      BY <2>1, <2>3, <2>7 DEF ClaimIsExclusive
    <3> QED
      BY <2>2, <3>1 DEF ClaimIsExclusive
  <2> QED
    BY <2>6, <2>7
<1>5. ASSUME NEW w \in Workers, NEW d \in Deliveries, Settle(w, d)
      PROVE  rows'[e] = rows[e] /\ e \in holding[v]
  BY <1>0, <1>5 DEF Settle, ClaimIsExclusive
<1>6. ASSUME NEW d \in Deliveries, Reopen(d)
      PROVE  rows'[e] = rows[e] /\ e \in holding[v]
  <2>1. e \in holding[v] /\ d # e
    BY <1>6 DEF Reopen
  <2> QED
    BY <1>0, <1>6, <2>1 DEF Reopen
<1> QED
  BY <1>1, <1>2, <1>3, <1>4, <1>5, <1>6, StepCases DEF ClaimIsExclusive

(* No two workers process one delivery, as long as nobody reopens a claim that *)
(* is still processed.                                                         *)
THEOREM ClaimsAreExclusive == ASSUME Sweeping # "expired" PROVE Spec => []ClaimIsExclusive
<1>1. Init => ClaimIsExclusive
  BY DEF Init, ClaimIsExclusive
<1> QED
  BY <1>1, ClaimStep, TypeCorrect, PTL DEF Spec

----------------------------------------------------------------------------
(* The downstream is handed a delivery at most once.  Before it is, exactly    *)
(* one server may be about to: the one whose INSERT succeeded.                 *)

PassingOn(s) == serving[s].pc = "forwarding"

HandoffInv ==
  /\ \A d \in Deliveries :
       /\ rows[d].status = "absent" => forwarded[d] = <<>>
       /\ forwarded[d] # <<>> => forwarded[d] = <<rows[d].hash>>
  /\ \A s \in Servers :
       PassingOn(s) =>
         /\ Stored(serving[s].d) /\ rows[serving[s].d].hash = serving[s].hash
         /\ forwarded[serving[s].d] = <<>>
  /\ \A s, t \in Servers :
       PassingOn(s) /\ PassingOn(t) /\ serving[s].d = serving[t].d => s = t
  /\ \A w \in Workers : \A d \in holding[w] : Stored(d)

(* Rows that keep their body, and stay stored once they are.                   *)
LEMMA RowsKeptHandoff ==
  ASSUME TypeOK, HandoffInv,
         \A d \in Deliveries : /\ rows'[d].hash = rows[d].hash
                               /\ rows'[d].status = "absent" <=> rows[d].status = "absent",
         \A s \in Servers : serving'[s].pc = "forwarding" => serving'[s] = serving[s],
         \A w \in Workers : \A d \in holding'[w] : d \in Deliveries /\ Stored(d),
         forwarded' = forwarded
  PROVE  HandoffInv'
<1>1. \A s \in Servers : PassingOn(s)' => PassingOn(s) /\ serving'[s] = serving[s]
                                          /\ serving[s].d \in Deliveries
  BY ForwardingFields DEF PassingOn, TypeOK
<1> QED
  BY <1>1 DEF HandoffInv, PassingOn, Stored

LEMMA InsertHandoff ==
  ASSUME TypeOK, HandoffInv, NEW s \in Servers, InsertRow(s)
  PROVE  HandoffInv'
<1> DEFINE d == serving[s].d
           h == serving[s].hash
<1>1. /\ d \in Deliveries /\ h \in Hashes /\ rows[d].status = "absent"
      /\ rows' = [rows EXCEPT ![d] = ReceivedRow(h)]
      /\ serving' = [serving EXCEPT ![s] = Forwarding(d, h)]
      /\ forwarded' = forwarded /\ holding' = holding
  BY InsertFacts
<1>2. ReceivedRow(h).status = "received" /\ ReceivedRow(h).hash = h
  BY <1>1, InsertedFields DEF TypeOK
<1>3. /\ Forwarding(d, h).d = d /\ Forwarding(d, h).hash = h
      /\ Forwarding(d, h).pc = "forwarding"
  BY DEF Forwarding
<1>4. /\ rows \in [Deliveries -> Rows] /\ serving \in [Servers -> Calls]
      /\ holding \in [Workers -> SUBSET Deliveries]
  BY DEF TypeOK
<1>5. \A t \in Servers : PassingOn(t) => serving[t].d # d /\ serving[t].d \in Deliveries
  BY <1>1, <1>4, ForwardingFields DEF HandoffInv, PassingOn, Stored
<1> HIDE DEF d, h
<1>6. \A e \in Deliveries : rows'[e] = IF e = d THEN ReceivedRow(h) ELSE rows[e]
  BY <1>1, <1>4
<1>7. \A t \in Servers : serving'[t] = IF t = s THEN Forwarding(d, h) ELSE serving[t]
  BY <1>1, <1>4
<1>8. forwarded[d] = <<>>
  BY <1>1 DEF HandoffInv
<1> QED
  BY <1>1, <1>2, <1>3, <1>4, <1>5, <1>6, <1>7, <1>8 DEF HandoffInv, PassingOn, Stored

LEMMA ForwardHandoff ==
  ASSUME TypeOK, HandoffInv, NEW s \in Servers, Forward(s)
  PROVE  HandoffInv'
<1> DEFINE d == serving[s].d
           h == serving[s].hash
<1>1. /\ serving[s].pc = "forwarding" /\ d \in Deliveries /\ h \in Hashes
      /\ forwarded' = [forwarded EXCEPT ![d] = Append(@, h)]
      /\ serving' = [serving EXCEPT ![s] = Idle] /\ rows' = rows /\ holding' = holding
  BY ForwardFacts
<1>2. Stored(d) /\ rows[d].hash = h /\ forwarded[d] = <<>>
  BY <1>1 DEF HandoffInv, PassingOn
<1>3. \A t \in Servers \ {s} : PassingOn(t) => serving[t].d # d /\ serving[t].d \in Deliveries
  BY <1>1, ForwardingFields DEF HandoffInv, PassingOn, TypeOK
<1>4. serving \in [Servers -> Calls] /\ forwarded \in [Deliveries -> Seq(Hashes)]
      /\ Idle.pc = "idle"
  BY DEF TypeOK, Idle
<1> HIDE DEF d, h
<1>5. Append(<<>>, h) = <<h>>
  OBVIOUS
<1>6. \A e \in Deliveries : forwarded'[e] = IF e = d THEN <<h>> ELSE forwarded[e]
  BY <1>1, <1>2, <1>4, <1>5
<1>7. \A t \in Servers : serving'[t] = IF t = s THEN Idle ELSE serving[t]
  BY <1>1, <1>4
<1> QED
  BY <1>1, <1>2, <1>3, <1>4, <1>6, <1>7 DEF HandoffInv, PassingOn, Stored

LEMMA HandoffStep ==
  ASSUME TypeOK, HandoffInv, [Next]_vars
  PROVE  HandoffInv'
<1>0. rows \in [Deliveries -> Rows]
  BY DEF TypeOK
<1>1. CASE Quiet
  <2>1. \A w \in Workers : \A d \in holding'[w] : d \in Deliveries /\ Stored(d)
    BY <1>1 DEF Quiet, HandoffInv, TypeOK
  <2> QED
    BY <1>1, <2>1, RowsKeptHandoff DEF Quiet, Kept
<1>2. ASSUME NEW w \in Workers, NEW d \in Deliveries, ClaimNextForProcessing(w, d)
      PROVE  HandoffInv'
  <2>1. rows[d].status # "absent" /\ rows' = [rows EXCEPT ![d] = Claimed(rows[d], w)]
    BY <1>2, ClaimableIsOpen DEF ClaimNextForProcessing, NextUp, Open
  <2>2. /\ Claimed(rows[d], w).status = "processing"
        /\ Claimed(rows[d], w).hash = rows[d].hash
    BY <1>0, ClaimedFields
  <2>3. \A e \in Deliveries : /\ rows'[e].hash = rows[e].hash
                              /\ rows'[e].status = "absent" <=> rows[e].status = "absent"
    BY <1>0, <2>1, <2>2
  <2>4. \A v \in Workers : \A e \in holding'[v] : e \in Deliveries /\ Stored(e)
    BY <1>2, <2>1 DEF ClaimNextForProcessing, HandoffInv, TypeOK, Stored
  <2> QED
    BY <1>2, <2>3, <2>4, RowsKeptHandoff DEF ClaimNextForProcessing
<1>3. ASSUME NEW d \in Deliveries, (\E w \in Workers : Settle(w, d)) \/ Reopen(d)
      PROVE  HandoffInv'
  <2>0. rows[d].status # "absent"
    BY <1>3 DEF Settle, Reopen, HandoffInv, Stored
  <2>1. PICK q : Unlocked(q, rows[d]) /\ rows' = [rows EXCEPT ![d] = q]
                 /\ UNCHANGED <<serving, forwarded>>
    BY <1>3 DEF Settle, Reopen
  <2>2. q.hash = rows[d].hash /\ q.status # "absent"
    BY <2>1 DEF Unlocked, Final
  <2>3. \A e \in Deliveries : /\ rows'[e].hash = rows[e].hash
                              /\ rows'[e].status = "absent" <=> rows[e].status = "absent"
    BY <1>0, <2>0, <2>1, <2>2
  <2>4. \A v \in Workers : holding'[v] \subseteq holding[v]
    BY <1>3 DEF Settle, Reopen, TypeOK
  <2>5. \A v \in Workers : \A e \in holding'[v] : e \in Deliveries /\ Stored(e)
    BY <2>4 DEF HandoffInv, TypeOK
  <2> QED
    BY <2>1, <2>3, <2>5, RowsKeptHandoff
<1> QED
  BY <1>1, <1>2, <1>3, InsertHandoff, ForwardHandoff, StepCases

LEMMA InitHandoff == Init => HandoffInv
BY DEF Init, HandoffInv, PassingOn, Idle

(* However many servers race, a delivery goes downstream at most once, with    *)
(* the body its row keeps.                                                     *)
THEOREM HandedOnOnce == Spec => []ForwardedAtMostOnce
<1>1. TypeOK /\ HandoffInv => ForwardedAtMostOnce
  <2> SUFFICES ASSUME TypeOK, HandoffInv, NEW d \in Deliveries
               PROVE  /\ Len(forwarded[d]) <= 1
                      /\ forwarded[d] # <<>> => forwarded[d][1] = rows[d].hash
    BY DEF ForwardedAtMostOnce
  <2>1. CASE forwarded[d] = <<>>
    BY <2>1
  <2>2. CASE forwarded[d] # <<>>
    <3>1. forwarded[d] = <<rows[d].hash>>
      BY <2>2 DEF HandoffInv
    <3>2. Len(<<rows[d].hash>>) = 1
      OBVIOUS
    <3> QED
      BY <3>1, <3>2
  <2> QED
    BY <2>1, <2>2
<1> QED
  BY <1>1, InitHandoff, HandoffStep, TypeCorrect, PTL DEF Spec

----------------------------------------------------------------------------
(* The inbox implements the ledger.                                           *)

LEMMA StageOf ==
  /\ Stage("absent") = "unknown" /\ Stage("processing") = "working"
  /\ \A status \in Open : Stage(status) = "pending"
  /\ \A status \in Final : Stage(status) = "closed"
BY DEF Stage, Open, Final

(* The ledger's stages after a step that gives one row a new value.            *)
LEMMA StageUpdate ==
  ASSUME TypeOK, NEW d \in Deliveries, NEW q, rows' = [rows EXCEPT ![d] = q]
  PROVE  [e \in Deliveries |-> Stage(rows'[e].status)]
           = [[e \in Deliveries |-> Stage(rows[e].status)] EXCEPT ![d] = Stage(q.status)]
<1>1. rows \in [Deliveries -> Rows]
  BY DEF TypeOK
<1>2. rows'[d] = q /\ \A e \in Deliveries \ {d} : rows'[e] = rows[e]
  BY <1>1
<1>3. Stage(rows'[d].status) = Stage(q.status)
  BY <1>2
<1>4. \A e \in Deliveries \ {d} : Stage(rows'[e].status) = Stage(rows[e].status)
  BY <1>2
<1> QED
  BY <1>3, <1>4

LEMMA QuietStutters ==
  ASSUME Quiet
  PROVE  UNCHANGED Ledger!vars
BY DEF Quiet, Kept, Ledger!vars

LEMMA InsertAccepts ==
  ASSUME TypeOK, NEW s \in Servers, InsertRow(s)
  PROVE  \E i \in Deliveries, b \in Hashes : Ledger!Accept(i, b)
<1>1. PICK d \in Deliveries, h \in Hashes :
        /\ rows[d].status = "absent" /\ rows' = [rows EXCEPT ![d] = ReceivedRow(h)]
        /\ forwarded' = forwarded
  BY InsertFacts
<1>2. ReceivedRow(h).status \in Open /\ ReceivedRow(h).hash = h
  BY <1>1, InsertedFields DEF TypeOK, Open
<1>3. \A e \in Deliveries : rows'[e] = IF e = d THEN ReceivedRow(h) ELSE rows[e]
  BY <1>1 DEF TypeOK
<1>4. Stage(rows[d].status) = "unknown" /\ Stage(ReceivedRow(h).status) = "pending"
  BY <1>1, <1>2, StageOf
<1>5. Ledger!Accept(d, h)
  <2>1. [e \in Deliveries |-> rows'[e].hash]
          = [[e \in Deliveries |-> rows[e].hash] EXCEPT ![d] = h]
    BY <1>2, <1>3
  <2>2. [e \in Deliveries |-> Stage(rows'[e].status)]
          = [[e \in Deliveries |-> Stage(rows[e].status)] EXCEPT
               ![d] = Stage(ReceivedRow(h).status)]
    BY <1>1, StageUpdate
  <2>3. [e \in Deliveries |-> Stage(rows'[e].status)]
          = [[e \in Deliveries |-> Stage(rows[e].status)] EXCEPT ![d] = "pending"]
    BY <1>4, <2>2
  <2> QED
    BY <1>1, <1>4, <2>1, <2>3 DEF Ledger!Accept
<1> QED
  BY <1>5

LEMMA ForwardPasses ==
  ASSUME TypeOK, HandoffInv, NEW s \in Servers, Forward(s)
  PROVE  \E i \in Deliveries : Ledger!Pass(i)
<1>1. PICK d \in Deliveries, h \in Hashes :
        /\ serving[s].pc = "forwarding" /\ d = serving[s].d
        /\ forwarded' = [forwarded EXCEPT ![d] = Append(@, h)] /\ rows' = rows
  BY ForwardFacts
<1>2. Stored(d) /\ forwarded[d] = <<>>
  BY <1>1 DEF HandoffInv, PassingOn
<1>3. forwarded \in [Deliveries -> Seq(Hashes)]
  BY DEF TypeOK
<1>4. Append(<<>>, h) # <<>>
  OBVIOUS
<1>5. \A e \in Deliveries : forwarded'[e] # <<>> <=> (e = d \/ forwarded[e] # <<>>)
  BY <1>1, <1>2, <1>3, <1>4
<1>6. Stage(rows[d].status) # "unknown"
  BY <1>2 DEF Stage, Stored
<1>7. Ledger!Pass(d)
  BY <1>1, <1>2, <1>5, <1>6 DEF Ledger!Pass
<1> QED
  BY <1>7

(* A step that moves one row from one stage to another.                        *)
LEMMA MoveStep ==
  ASSUME TypeOK, NEW d \in Deliveries, NEW q, rows' = [rows EXCEPT ![d] = q],
         q.hash = rows[d].hash, forwarded' = forwarded
  PROVE  Ledger!Move(d, Stage(rows[d].status), Stage(q.status))
<1>1. \A e \in Deliveries : rows'[e] = IF e = d THEN q ELSE rows[e]
  BY DEF TypeOK
<1>2. [e \in Deliveries |-> rows'[e].hash] = [e \in Deliveries |-> rows[e].hash]
  BY <1>1
<1> QED
  BY <1>2, StageUpdate DEF Ledger!Move

LEMMA ClaimMoves ==
  ASSUME TypeOK, NEW w \in Workers, NEW d \in Deliveries, ClaimNextForProcessing(w, d)
  PROVE  Ledger!Move(d, "pending", "working")
<1>1. rows[d] \in Rows /\ rows[d].status \in Open
  BY ClaimableIsOpen DEF ClaimNextForProcessing, NextUp, TypeOK
<1>2. Claimed(rows[d], w).status = "processing" /\ Claimed(rows[d], w).hash = rows[d].hash
  BY <1>1, ClaimedFields
<1>3. rows' = [rows EXCEPT ![d] = Claimed(rows[d], w)] /\ forwarded' = forwarded
  BY DEF ClaimNextForProcessing
<1>4. Stage(rows[d].status) = "pending" /\ Stage("processing") = "working"
  BY <1>1, StageOf
<1> QED
  BY <1>2, <1>3, <1>4, MoveStep

LEMMA SettleMoves ==
  ASSUME TypeOK, ClaimIsExclusive, NEW w \in Workers, NEW d \in Deliveries, Settle(w, d)
  PROVE  Ledger!Move(d, "working", "pending") \/ Ledger!Move(d, "working", "closed")
<1>1. rows[d].status = "processing"
  BY DEF Settle, ClaimIsExclusive
<1>2. PICK q : Unlocked(q, rows[d]) /\ rows' = [rows EXCEPT ![d] = q]
  BY DEF Settle
<1>3. Stage(q.status) \in {"pending", "closed"} /\ q.hash = rows[d].hash
  BY <1>2, StageOf DEF Unlocked, Open
<1>4. Ledger!Move(d, Stage(rows[d].status), Stage(q.status))
  BY <1>2, <1>3, MoveStep DEF Settle
<1> QED
  BY <1>1, <1>3, <1>4, StageOf

LEMMA ReopenMoves ==
  ASSUME TypeOK, NEW d \in Deliveries, Reopen(d)
  PROVE  Ledger!Move(d, "working", "pending") \/ Ledger!Move(d, "working", "closed")
<1>1. PICK q : Unlocked(q, rows[d]) /\ rows' = [rows EXCEPT ![d] = q]
  BY DEF Reopen
<1>2. Stage(q.status) \in {"pending", "closed"} /\ q.hash = rows[d].hash
  BY <1>1, StageOf DEF Unlocked, Open
<1>3. Ledger!Move(d, Stage(rows[d].status), Stage(q.status))
  BY <1>1, <1>2, MoveStep DEF Reopen
<1> QED
  BY <1>2, <1>3, StageOf DEF Reopen

(* Initial states map to initial states and every step to a ledger step.       *)
THEOREM InboxImplementsLedger == ASSUME Sweeping # "expired" PROVE Spec => ImplementsLedger
<1>1. Init => Ledger!Init
  <2> SUFFICES ASSUME Init PROVE Ledger!Init
    OBVIOUS
  <2>1. \A d \in Deliveries :
          Stage(rows[d].status) = "unknown" /\ rows[d].hash = NoHash /\ forwarded[d] = <<>>
    BY StageOf DEF Init, AbsentRow
  <2> QED
    BY <2>1 DEF Ledger!Init
<1>2. TypeOK /\ HandoffInv /\ ClaimIsExclusive /\ [Next]_vars
        => [Ledger!Next]_(Ledger!vars)
  <2> SUFFICES ASSUME TypeOK, HandoffInv, ClaimIsExclusive, [Next]_vars
               PROVE  Ledger!Next \/ UNCHANGED Ledger!vars
    OBVIOUS
  <2> QED
    BY StepCases, ReopenMoves, QuietStutters, InsertAccepts, ForwardPasses, ClaimMoves,
       SettleMoves DEF Ledger!Next
<1> QED
  BY <1>1, <1>2, InitHandoff, HandoffStep, ClaimsAreExclusive, TypeCorrect, PTL
  DEF Spec, ImplementsLedger, Ledger!Spec

----------------------------------------------------------------------------
(* The server.  The invariant follows one request through its life: read,      *)
(* resolved or failed, answered, handed on.                                    *)

(* A request that is read, or was read and awaits its callback.                *)
Waiting(r) == incoming[r] \in Inbound /\ Route(incoming[r]) = None /\ answer[r] = None

Delivered == Range(handed) \cup taken \cup reported

Good(r) ==
  incoming[r] \in Inbound /\ Posted(incoming[r]) /\ Allowed(incoming[r]) /\ answer[r] = 202

ReadersWait == \A r \in reading : Waiting(r)
TaskIsSound ==
  /\ \A r \in Requests : Due("resolve", r) \/ Due("fail", r) => Waiting(r) /\ r \notin reading
  /\ \A r \in Requests : Due("enqueue", r) => Good(r) /\ r \notin Delivered
DeliveredAreGood == \A r \in Delivered : Good(r)
DeliveredOnce ==
  /\ \A i, j \in DOMAIN handed : handed[i] = handed[j] => i = j
  /\ \A i \in DOMAIN handed : handed[i] \notin reported

QueueWasHanded == Range(queue) \subseteq Range(handed)

Lives == ReadersWait /\ TaskIsSound /\ DeliveredAreGood /\ DeliveredOnce /\ QueueWasHanded
IInv == ServerTypeOK /\ Lives

----------------------------------------------------------------------------
(* The sequences of the handoff.                                             *)

(* A push keeps the queue a sequence of requests within its limit.             *)
LEMMA PushedIsBounded ==
  ASSUME NEW q \in Seq(Requests), NEW r \in Requests, Len(q) <= MaxQueued
  PROVE  Pushed(q, r) \in Seq(Requests) /\ Len(Pushed(q, r)) <= MaxQueued
<1> DEFINE s == Append(q, r)
<1>1. s \in Seq(Requests) /\ Len(s) = Len(q) + 1
  OBVIOUS
<1>2. s # <<>>
  BY <1>1
<1>3. Tail(s) \in Seq(Requests) /\ Len(Tail(s)) = Len(s) - 1
  BY <1>1, <1>2
<1>4. CASE Len(q) + 1 > MaxQueued
  <2>1. Pushed(q, r) = Tail(s)
    BY <1>4 DEF Pushed
  <2> QED BY <2>1, <1>1, <1>3
<1>5. CASE ~(Len(q) + 1 > MaxQueued)
  <2>1. Pushed(q, r) = s
    BY <1>5 DEF Pushed
  <2> QED BY <2>1, <1>1, <1>5, LimitsAreNaturals
<1> QED BY <1>4, <1>5

(* What is enqueued is added to what was handed on.                            *)
LEMMA RangeOfAppend ==
  ASSUME NEW S, NEW s \in Seq(S), NEW r \in S
  PROVE  Range(Append(s, r)) = Range(s) \cup {r}
<1>1. DOMAIN Append(s, r) = 1 .. Len(s) + 1 /\ DOMAIN s = 1 .. Len(s) /\ Len(s) \in Nat
  OBVIOUS
<1>2. \A i \in 1 .. Len(s) : Append(s, r)[i] = s[i]
  OBVIOUS
<1>3. Append(s, r)[Len(s) + 1] = r
  OBVIOUS
<1>4. Range(Append(s, r)) \subseteq Range(s) \cup {r}
  BY <1>1, <1>2, <1>3 DEF Range
<1>5. Range(s) \subseteq Range(Append(s, r))
  <2> SUFFICES ASSUME NEW i \in 1 .. Len(s) PROVE s[i] \in Range(Append(s, r))
    BY <1>1 DEF Range
  <2>1. i \in DOMAIN Append(s, r) /\ Append(s, r)[i] = s[i]
    BY <1>1, <1>2
  <2> QED BY <2>1 DEF Range
<1>6. r \in Range(Append(s, r))
  <2>1. Len(s) + 1 \in DOMAIN Append(s, r)
    BY <1>1
  <2> QED BY <2>1, <1>3 DEF Range
<1> QED BY <1>4, <1>5, <1>6

(* A new element keeps a sequence without repetitions.                         *)
LEMMA AppendStaysOnce ==
  ASSUME NEW S, NEW s \in Seq(S), NEW r \in S, r \notin Range(s),
         \A i, j \in DOMAIN s : s[i] = s[j] => i = j
  PROVE  \A i, j \in DOMAIN Append(s, r) : Append(s, r)[i] = Append(s, r)[j] => i = j
<1>1. DOMAIN Append(s, r) = 1 .. Len(s) + 1 /\ DOMAIN s = 1 .. Len(s) /\ Len(s) \in Nat
  OBVIOUS
<1>2. \A i \in 1 .. Len(s) : Append(s, r)[i] = s[i] /\ s[i] # r
  BY <1>1 DEF Range
<1>3. Append(s, r)[Len(s) + 1] = r
  OBVIOUS
<1>4. \A i \in 1 .. Len(s) + 1 : i \in 1 .. Len(s) \/ i = Len(s) + 1
  BY <1>1
<1> QED BY <1>1, <1>2, <1>3, <1>4

----------------------------------------------------------------------------
(* Types.                                                                    *)

LEMMA StatusTypes ==
  ASSUME NEW in \in Inbound
  PROVE  /\ Route(in) \in AnswerCodes \cup {None} /\ Route(in) # 202
         /\ Classify(in) \in AnswerCodes
<1>1. RouteKill(in) \in {404, 405, 401, None}
  BY DEF RouteKill
<1>2. 202 # None
  BY NoneIsNothing DEF AnswerCodes
<1>3. Route(in) \in {200, 404, 405, 401, None}
  BY <1>1 DEF Route
<1>4. Classify(in) \in {401, 400, 202}
  BY DEF Classify
<1> QED BY <1>2, <1>3, <1>4 DEF AnswerCodes

LEMMA NoneIsFresh == None \notin Inbound /\ None \notin AnswerCodes /\ None \notin Tasks
BY InboundAreInbounds, NoneIsNothing

LEMMA TaskOf ==
  ASSUME task \in Tasks \cup {None}, NEW what \in {"resolve", "enqueue", "fail"},
         NEW r \in Requests, Due(what, r)
  PROVE  /\ task \in Tasks /\ task.do = what /\ task.req = r
         /\ what = "fail" => task.status \in {500, Closed}
BY NoneIsFresh DEF Due, Tasks

LEMMA TypeStep == ASSUME ServerTypeOK, TaskIsSound, [ServerNext]_serverVars PROVE ServerTypeOK'
<1> USE DEF ServerTypeOK
<1>a. ASSUME NEW r \in Requests, NEW in \in Inbound, Arrive(r, in) PROVE ServerTypeOK'
  <2>1. Route(in) \in AnswerCodes \cup {None}
    BY StatusTypes
  <2> QED BY <1>a, <2>1 DEF Arrive, Answer, handoff
<1>b. ASSUME NEW r \in Requests, Data(r) PROVE ServerTypeOK'
  <2>1. CASE OverLimit(r)
    <3>1. [do |-> "fail", req |-> r, status |-> Closed] \in Tasks
      BY DEF Tasks
    <3> QED BY <1>b, <2>1, <3>1 DEF Data, handoff
  <2>2. CASE ~OverLimit(r)
    <3>1. got[r] + 1 \in 0 .. MaxBody
      BY <2>2, LimitsAreNaturals DEF OverLimit
    <3> QED BY <1>b, <2>2, <3>1 DEF Data, handoff
  <2> QED BY <2>1, <2>2
<1>c. ASSUME NEW r \in Requests, End(r) PROVE ServerTypeOK'
  <2>1. [do |-> "resolve", req |-> r] \in Tasks
    BY DEF Tasks
  <2> QED BY <1>c, <2>1 DEF End, handoff
<1>d. ASSUME NEW r \in Requests, Cut(r) PROVE ServerTypeOK'
  <2>1. [do |-> "fail", req |-> r, status |-> Closed] \in Tasks
    BY DEF Tasks
  <2> QED BY <1>d, <2>1 DEF Cut, handoff
<1>e. ASSUME NEW r \in Requests, Fail(r) PROVE ServerTypeOK'
  <2>1. task.status \in AnswerCodes
    BY <1>e, TaskOf DEF Fail, AnswerCodes
  <2> QED BY <1>e, <2>1 DEF Fail, Answer, handoff
<1>f. ASSUME NEW r \in Requests, incoming[r] \in Inbound, Respond(r) PROVE ServerTypeOK'
  <2>1. Classify(incoming[r]) \in AnswerCodes
    BY <1>f, StatusTypes
  <2>2. [do |-> "enqueue", req |-> r] \in Tasks
    BY DEF Tasks
  <2> QED BY <1>f, <2>1, <2>2 DEF Respond, Answer, handoff
<1>g. ASSUME NEW r \in Requests, Kill(r) PROVE ServerTypeOK'
  <2>1. 200 \in AnswerCodes
    BY DEF AnswerCodes
  <2> QED BY <1>g, <2>1 DEF Kill, Answer, handoff
<1>h. ASSUME NEW r \in Requests, KillThrows(r) PROVE ServerTypeOK'
  <2>1. [do |-> "fail", req |-> r, status |-> 500] \in Tasks
    BY DEF Tasks
  <2> QED BY <1>h, <2>1 DEF KillThrows, handoff
<1>i. ASSUME NEW r \in Requests, HandOff(r) PROVE ServerTypeOK'
  <2>1. Pushed(queue, r) \in Seq(Requests) /\ Len(Pushed(queue, r)) <= MaxQueued
    BY PushedIsBounded
  <2> QED BY <1>i, <2>1 DEF HandOff
<1>j. ASSUME NEW r \in Requests, HandOffRejects(r) PROVE ServerTypeOK'
  BY <1>j DEF HandOffRejects
<1>k. ASSUME Drain PROVE ServerTypeOK'
  <2>1. Range(queue) \subseteq Requests
    BY DEF Range
  <2> QED BY <1>k, <2>1, LimitsAreNaturals DEF Drain
<1>l. ASSUME Restore PROVE ServerTypeOK'
  BY <1>l DEF Restore, handoff
<1>m. ASSUME Crash PROVE ServerTypeOK'
  <2>1. Range(handed) \subseteq Requests
    BY DEF Range
  <2> QED BY <1>m, <2>1, LimitsAreNaturals DEF Crash
<1>n. ASSUME UNCHANGED serverVars PROVE ServerTypeOK'
  BY <1>n DEF serverVars, handoff
<1>o. ASSUME NEW r \in Requests, Respond(r) PROVE ServerTypeOK'
  BY <1>f, <1>o DEF TaskIsSound, Waiting, Respond
<1> QED
  BY <1>a, <1>b, <1>c, <1>d, <1>e, <1>g, <1>h, <1>i, <1>j, <1>k, <1>l, <1>m, <1>n, <1>o
  DEF ServerNext, Run

----------------------------------------------------------------------------
(* The life of a request.                                                    *)

LEMMA PushedIsHanded ==
  ASSUME NEW q \in Seq(Requests), NEW r \in Requests
  PROVE  Range(Pushed(q, r)) \subseteq Range(q) \cup {r}
<1> DEFINE s == Append(q, r)
<1>1. s \in Seq(Requests) /\ s # <<>> /\ Range(s) = Range(q) \cup {r}
  BY RangeOfAppend
<1> HIDE DEF s
<1>2. Range(Tail(s)) \subseteq Range(s)
  <2> SUFFICES ASSUME NEW i \in DOMAIN Tail(s) PROVE Tail(s)[i] \in Range(s)
    BY DEF Range
  <2>1. i + 1 \in DOMAIN s /\ Tail(s)[i] = s[i + 1]
    BY <1>1
  <2> QED BY <2>1 DEF Range
<1>3. Pushed(q, r) = Tail(s) \/ Pushed(q, r) = s
  BY DEF Pushed, s
<1> QED BY <1>1, <1>2, <1>3

LEMMA ArriveLives ==
  ASSUME IInv, NEW r \in Requests, NEW in \in Inbound, Arrive(r, in) PROVE Lives'
<1> USE DEF IInv, Lives, ServerTypeOK
<1>1. /\ task' = None /\ reading' \subseteq reading \cup {r}
      /\ r \in reading' => r \in reading \/ Route(in) = None
      /\ incoming' = [incoming EXCEPT ![r] = in]
      /\ answer' = [answer EXCEPT ![r] = Route(in)]
      /\ UNCHANGED <<queue, handed, taken, reported>>
  BY DEF Arrive, Answer, handoff
<1>2. incoming[r] \notin Inbound
  BY NoneIsFresh DEF Arrive
<1>3. r \notin reading /\ r \notin Delivered
  BY <1>2 DEF ReadersWait, Waiting, DeliveredAreGood, Good
<1>4. \A q \in Requests \ {r} : incoming'[q] = incoming[q] /\ answer'[q] = answer[q]
  BY <1>1
<1>5. incoming'[r] = in /\ answer'[r] = Route(in)
  BY <1>1
<1>6. Delivered' = Delivered
  BY <1>1 DEF Delivered
<1>7. ReadersWait'
  BY <1>1, <1>3, <1>4, <1>5 DEF ReadersWait, Waiting
<1>8. TaskIsSound'
  BY <1>1 DEF TaskIsSound, Due
<1>9. \A q \in Delivered : q \in Requests
  BY DEF Delivered, Range
<1>10. DeliveredAreGood'
  BY <1>3, <1>4, <1>6, <1>9 DEF DeliveredAreGood, Good
<1> QED BY <1>1, <1>7, <1>8, <1>10 DEF DeliveredOnce, QueueWasHanded

(* Reading moves nothing but the readers and their callback.                   *)
LEMMA ReadLives ==
  ASSUME IInv, NEW r \in Requests, Data(r) \/ End(r) \/ Cut(r) PROVE Lives'
<1> USE DEF IInv, Lives, ServerTypeOK
<1>1. /\ r \in reading /\ reading' \subseteq reading
      /\ UNCHANGED <<incoming, answer, queue, handed, taken, reported>>
  BY DEF Data, End, Cut, handoff
<1>2. \/ task' = None
      \/ r \notin reading' /\ task'.do \in {"fail", "resolve"} /\ task'.req = r
  BY DEF Data, End, Cut
<1>3. Waiting(r)
  BY <1>1 DEF ReadersWait
<1>4. ReadersWait'
  BY <1>1 DEF ReadersWait, Waiting
<1>5. TaskIsSound'
  BY <1>1, <1>2, <1>3 DEF TaskIsSound, Due, Waiting
<1> QED
  BY <1>1, <1>4, <1>5 DEF DeliveredAreGood, DeliveredOnce, QueueWasHanded, Good, Delivered

(* An answer to a request that waits disturbs nothing that is delivered.       *)
LEMMA AnswerLives ==
  ASSUME IInv, NEW r \in Requests, NEW status \in AnswerCodes,
         Waiting(r), r \notin reading, Answer(r, status),
         UNCHANGED <<incoming, reading, queue, handed, taken, reported>>
  PROVE  /\ ReadersWait' /\ DeliveredAreGood' /\ DeliveredOnce' /\ QueueWasHanded'
         /\ r \notin Delivered'
<1> USE DEF IInv, Lives, ServerTypeOK
<1>1. answer[r] # 202
  BY NoneIsFresh DEF Waiting, AnswerCodes
<1>2. r \notin Delivered /\ Delivered' = Delivered
  BY <1>1 DEF DeliveredAreGood, Good, Delivered
<1>3. \A q \in Requests \ {r} : answer'[q] = answer[q]
  BY DEF Answer
<1>4. \A q \in Delivered : q \in Requests
  BY DEF Delivered, Range
<1>5. ReadersWait'
  BY <1>3 DEF ReadersWait, Waiting
<1>6. DeliveredAreGood'
  BY <1>2, <1>3, <1>4 DEF DeliveredAreGood, Good
<1> QED BY <1>2, <1>5, <1>6 DEF DeliveredOnce, QueueWasHanded

LEMMA FailLives == ASSUME IInv, NEW r \in Requests, Fail(r) PROVE Lives'
<1> USE DEF IInv, Lives, ServerTypeOK
<1>1. Waiting(r) /\ r \notin reading
  BY DEF Fail, TaskIsSound
<1>2. task.status \in AnswerCodes
  BY TaskOf DEF Fail, AnswerCodes
<1>3. UNCHANGED <<incoming, reading, queue, handed, taken, reported>> /\ task' = None
      /\ Answer(r, task.status)
  BY DEF Fail, handoff
<1>4. TaskIsSound'
  BY <1>3 DEF TaskIsSound, Due
<1> QED BY <1>1, <1>2, <1>3, <1>4, AnswerLives

LEMMA AcceptedIsGood ==
  ASSUME NEW in \in Inbound, Route(in) = None, in.route = "webhook", Accepts(in)
  PROVE  Posted(in) /\ Allowed(in) /\ Classify(in) = 202
<1>1. in.method = "POST"
  BY NoneIsNothing DEF Route, AnswerCodes
<1>2. Signed(in) /\ in.has_id
  BY DEF Accepts, Classify
<1> QED BY <1>1, <1>2 DEF Posted, Allowed, Accepts

LEMMA RespondLives == ASSUME IInv, NEW r \in Requests, Respond(r) PROVE Lives'
<1> USE DEF IInv, Lives, ServerTypeOK
<1>1. Waiting(r) /\ r \notin reading /\ incoming[r].route = "webhook"
  BY DEF Respond, TaskIsSound
<1>2. Classify(incoming[r]) \in AnswerCodes
  BY <1>1, StatusTypes DEF Waiting
<1>3. UNCHANGED <<incoming, reading, queue, handed, taken, reported>>
      /\ Answer(r, Classify(incoming[r]))
  BY DEF Respond, handoff
<1>4. ReadersWait' /\ DeliveredAreGood' /\ DeliveredOnce' /\ QueueWasHanded' /\ r \notin Delivered'
  BY <1>1, <1>2, <1>3, AnswerLives
<1>5. TaskIsSound'
  <2>1. CASE ~Accepts(incoming[r])
    <3>1. task' = None
      BY <2>1 DEF Respond
    <3> QED BY <3>1 DEF TaskIsSound, Due
  <2>2. CASE Accepts(incoming[r])
    <3>1. task'.do = "enqueue" /\ task'.req = r
      BY <2>2 DEF Respond
    <3>2. Posted(incoming[r]) /\ Allowed(incoming[r]) /\ Classify(incoming[r]) = 202
      BY <1>1, <2>2, AcceptedIsGood DEF Waiting
    <3>3. answer'[r] = 202
      BY <1>3, <3>2 DEF Answer
    <3>4. Good(r)'
      BY <1>1, <1>3, <3>2, <3>3 DEF Good, Waiting
    <3> QED BY <1>4, <3>1, <3>4 DEF TaskIsSound, Due
  <2> QED BY <2>1, <2>2
<1> QED BY <1>4, <1>5

LEMMA KillLives == ASSUME IInv, NEW r \in Requests, Kill(r) PROVE Lives'
<1> USE DEF IInv, Lives, ServerTypeOK
<1>1. Waiting(r) /\ r \notin reading
  BY DEF Kill, TaskIsSound
<1>2. 200 \in AnswerCodes
  BY DEF AnswerCodes
<1>3. UNCHANGED <<incoming, reading, queue, handed, taken, reported>> /\ task' = None
      /\ Answer(r, 200)
  BY DEF Kill, handoff
<1>4. TaskIsSound'
  BY <1>3 DEF TaskIsSound, Due
<1> QED BY <1>1, <1>2, <1>3, <1>4, AnswerLives

LEMMA KillThrowsLives == ASSUME IInv, NEW r \in Requests, KillThrows(r) PROVE Lives'
<1> USE DEF IInv, Lives, ServerTypeOK
<1>1. Waiting(r) /\ r \notin reading
  BY DEF KillThrows, TaskIsSound
<1>2. UNCHANGED <<incoming, reading, answer, queue, handed, taken, reported>>
      /\ task'.do = "fail" /\ task'.req = r
  BY DEF KillThrows, handoff
<1>3. TaskIsSound'
  BY <1>1, <1>2 DEF TaskIsSound, Due, Waiting
<1> QED
  BY <1>2, <1>3
  DEF ReadersWait, Waiting, DeliveredAreGood, DeliveredOnce, QueueWasHanded, Good, Delivered

LEMMA HandOffLives == ASSUME IInv, NEW r \in Requests, HandOff(r) PROVE Lives'
<1> USE DEF IInv, Lives, ServerTypeOK
<1>1. Good(r) /\ r \notin Delivered
  BY DEF HandOff, TaskIsSound
<1>2. /\ handed' = Append(handed, r) /\ queue' = Pushed(queue, r) /\ task' = None
      /\ UNCHANGED <<incoming, reading, answer, taken, reported>>
  BY DEF HandOff
<1>3. Range(handed') = Range(handed) \cup {r}
  BY <1>2, RangeOfAppend
<1>4. Delivered' = Delivered \cup {r}
  BY <1>2, <1>3 DEF Delivered
<1>5. ReadersWait' /\ TaskIsSound'
  BY <1>2 DEF ReadersWait, Waiting, TaskIsSound, Due
<1>6. DeliveredAreGood'
  BY <1>1, <1>2, <1>4 DEF DeliveredAreGood, Good
<1>7. \A i, j \in DOMAIN handed' : handed'[i] = handed'[j] => i = j
  <2>1. r \notin Range(handed)
    BY <1>1 DEF Delivered
  <2>2. \A i, j \in DOMAIN handed : handed[i] = handed[j] => i = j
    BY DEF DeliveredOnce
  <2>3. \A i, j \in DOMAIN Append(handed, r) :
           Append(handed, r)[i] = Append(handed, r)[j] => i = j
    BY <2>1, <2>2, AppendStaysOnce
  <2> QED BY <1>2, <2>3
<1>8. \A i \in DOMAIN handed' : handed'[i] \notin reported'
  <2>1. r \notin reported
    BY <1>1 DEF Delivered
  <2>2. \A q \in Range(handed) : q \notin reported
    BY DEF DeliveredOnce, Range
  <2>3. \A i \in DOMAIN handed' : handed'[i] \in Range(handed')
    BY DEF Range
  <2> QED BY <1>2, <1>3, <2>1, <2>2, <2>3
<1>9. QueueWasHanded'
  BY <1>2, <1>3, PushedIsHanded DEF QueueWasHanded
<1> QED BY <1>5, <1>6, <1>7, <1>8, <1>9 DEF DeliveredOnce

LEMMA HandOffRejectsLives == ASSUME IInv, NEW r \in Requests, HandOffRejects(r) PROVE Lives'
<1> USE DEF IInv, Lives, ServerTypeOK
<1>1. Good(r) /\ r \notin Delivered
  BY DEF HandOffRejects, TaskIsSound
<1>2. /\ reported' = reported \cup {r} /\ task' = None
      /\ UNCHANGED <<incoming, reading, answer, queue, handed, taken>>
  BY DEF HandOffRejects
<1>3. Delivered' = Delivered \cup {r}
  BY <1>2 DEF Delivered
<1>4. ReadersWait' /\ TaskIsSound'
  BY <1>2 DEF ReadersWait, Waiting, TaskIsSound, Due
<1>5. DeliveredAreGood'
  BY <1>1, <1>2, <1>3 DEF DeliveredAreGood, Good
<1>6. \A i \in DOMAIN handed : handed[i] # r
  BY <1>1 DEF Delivered, Range
<1> QED BY <1>2, <1>4, <1>5, <1>6 DEF DeliveredOnce, QueueWasHanded

LEMMA DrainLives == ASSUME IInv, Drain PROVE Lives'
<1> USE DEF IInv, Lives, ServerTypeOK
<1>1. /\ taken' = taken \cup Range(queue) /\ queue' = <<>>
      /\ UNCHANGED <<incoming, reading, task, answer, handed, reported>>
  BY DEF Drain
<1>2. Delivered' = Delivered
  BY <1>1 DEF Delivered, QueueWasHanded
<1>3. Range(queue') = {}
  BY <1>1 DEF Range
<1>4. TaskIsSound'
  BY <1>1, <1>2 DEF TaskIsSound, Due, Waiting, Good
<1> QED
  BY <1>1, <1>2, <1>3, <1>4
  DEF ReadersWait, Waiting, DeliveredAreGood, Good, DeliveredOnce, QueueWasHanded

LEMMA CrashLives == ASSUME IInv, Crash PROVE Lives'
<1> USE DEF IInv, Lives, ServerTypeOK
<1>1. /\ reading' = {} /\ task' = None /\ queue' = <<>> /\ handed' = <<>>
      /\ UNCHANGED <<incoming, answer, taken, reported>>
  BY DEF Crash
<1>2. Range(handed') = {} /\ Range(queue') = {} /\ DOMAIN handed' = {}
  BY <1>1 DEF Range
<1>3. Delivered' \subseteq Delivered
  BY <1>1, <1>2 DEF Delivered
<1>4. TaskIsSound'
  BY <1>1 DEF TaskIsSound, Due
<1> QED
  BY <1>1, <1>2, <1>3, <1>4
  DEF ReadersWait, DeliveredAreGood, Good, DeliveredOnce, QueueWasHanded

(* Nothing the life of a request depends on changes.                           *)
LEMMA StillLives ==
  ASSUME IInv, UNCHANGED <<incoming, reading, task, answer, handoff>> PROVE Lives'
BY DEF IInv, Lives, handoff, ReadersWait, Waiting, TaskIsSound, Due, DeliveredAreGood,
       Good, Delivered, DeliveredOnce, QueueWasHanded

LEMMA StepKeepsIInv == ASSUME IInv, [ServerNext]_serverVars PROVE IInv'
<1>1. ServerTypeOK'
  BY TypeStep DEF IInv, Lives
<1>2. ASSUME ServerNext PROVE Lives'
  <2>1. ASSUME NEW r \in Requests, Run(r) PROVE Lives'
    BY <2>1, FailLives, RespondLives, KillLives, KillThrowsLives, HandOffLives,
       HandOffRejectsLives DEF Run
  <2>2. ASSUME Restore PROVE Lives'
    BY <2>2, StillLives DEF Restore
  <2> QED
    BY <1>2, <2>1, <2>2, ArriveLives, ReadLives, DrainLives, CrashLives DEF ServerNext
<1>3. ASSUME UNCHANGED serverVars PROVE Lives'
  BY <1>3, StillLives DEF serverVars
<1> QED BY <1>1, <1>2, <1>3 DEF IInv

LEMMA InitHasIInv == ASSUME ServerInit PROVE IInv
<1>1. Range(<<>>) = {} /\ <<>> \in Seq(Requests) /\ Len(<<>>) = 0
  BY DEF Range
<1>2. ServerTypeOK
  <2>1. 0 \in 0 .. MaxBody /\ 0 <= MaxQueued
    BY LimitsAreNaturals
  <2>2. queue \in Seq(Requests) /\ Len(queue) <= MaxQueued /\ handed \in Seq(Requests)
    BY <1>1, <2>1 DEF ServerInit
  <2> QED BY <2>1, <2>2 DEF ServerInit, ServerTypeOK
<1>3. Delivered = {}
  BY <1>1 DEF ServerInit, Delivered
<1> QED
  BY <1>1, <1>2, <1>3
  DEF IInv, Lives, ServerInit, ReadersWait, TaskIsSound, Due, DeliveredAreGood, DeliveredOnce,
      QueueWasHanded

LEMMA IInvHolds == ServerSpec => []IInv
BY InitHasIInv, StepKeepsIInv, PTL DEF ServerSpec

----------------------------------------------------------------------------
(* Theorems.                                                                 *)

(* Type correctness: bodies stay within their limit, the handoff within its.   *)
THEOREM ServerTypeCorrect == ServerSpec => []ServerTypeOK
<1>1. IInv => ServerTypeOK
  BY DEF IInv
<1> QED BY <1>1, IInvHolds, PTL

(* Whatever is handed on, drained or reported was signed, allowed, read in     *)
(* full and answered 202 before, and none of it is handed on twice.            *)
THEOREM OnlyAcceptedAreHandedOn == ServerSpec => []HandedOnWereAccepted
<1>1. IInv => HandedOnWereAccepted
  BY DEF IInv, Lives, DeliveredAreGood, DeliveredOnce, Delivered, Good, HandedOnWereAccepted
<1> QED BY <1>1, IInvHolds, PTL

LEMMA KillStep ==
  ASSUME IInv, ServerNext
  PROVE  /\ \A r \in Requests :
              answer[r] = None /\ answer'[r] = 200 /\ incoming'[r].route = "kill" => killed'
         /\ killed' /\ ~killed =>
              \E r \in Requests : /\ Due("resolve", r) /\ incoming[r].route = "kill"
                                  /\ incoming[r].method = "POST" /\ incoming[r].token
<1> USE DEF IInv, Lives, ServerTypeOK
<1> DEFINE Told(r) == answer[r] = None /\ answer'[r] = 200 /\ incoming'[r].route = "kill"
           Engages == killed' /\ ~killed
<1>1. None # 200
  BY NoneIsNothing DEF AnswerCodes
<1>2. ASSUME answer' = answer, killed' = killed PROVE ~Engages /\ \A r \in Requests : ~Told(r)
  BY <1>1, <1>2
<1>3. ASSUME NEW r \in Requests, NEW in \in Inbound, Arrive(r, in)
      PROVE  ~Engages /\ \A q \in Requests : ~Told(q)
  <2>1. in.route = "kill" => Route(in) # 200
    BY <1>1 DEF Route, RouteKill
  <2> QED BY <1>1, <1>3, <2>1 DEF Arrive, Answer
<1>4. ASSUME NEW r \in Requests, Fail(r) PROVE ~Engages /\ \A q \in Requests : ~Told(q)
  <2>1. Due("fail", r) /\ Answer(r, task.status) /\ killed' = killed
    BY <1>4 DEF Fail
  <2>2. task.status \in {500, Closed}
    BY <2>1, TaskOf
  <2> QED BY <1>1, <2>1, <2>2 DEF Answer, Closed
<1>5. ASSUME NEW r \in Requests, Respond(r) PROVE ~Engages /\ \A q \in Requests : ~Told(q)
  BY <1>1, <1>5 DEF Respond, Answer
<1>6. ASSUME NEW r \in Requests, Kill(r)
      PROVE  killed' /\ Due("resolve", r) /\ incoming[r].route = "kill"
             /\ incoming[r].method = "POST" /\ incoming[r].token
  <2>1. Waiting(r)
    BY <1>6 DEF Kill, TaskIsSound
  <2>2. RouteKill(incoming[r]) = None
    BY <1>6, <2>1 DEF Kill, Waiting, Route
  <2>3. incoming[r].method = "POST" /\ incoming[r].token
    BY <2>2, NoneIsNothing DEF RouteKill, AnswerCodes
  <2> QED BY <1>6, <2>3 DEF Kill
<1>7. ASSUME Restore PROVE ~Engages /\ \A q \in Requests : ~Told(q)
  BY <1>1, <1>7 DEF Restore
<1>8. ASSUME NEW r \in Requests,
             Data(r) \/ End(r) \/ Cut(r) \/ KillThrows(r) \/ HandOff(r) \/ HandOffRejects(r)
      PROVE  answer' = answer /\ killed' = killed
  BY <1>8 DEF Data, End, Cut, KillThrows, HandOff, HandOffRejects
<1>9. ASSUME Drain \/ Crash PROVE answer' = answer /\ killed' = killed
  BY <1>9 DEF Drain, Crash
<1> QED
  BY <1>2, <1>3, <1>4, <1>5, <1>6, <1>7, <1>8, <1>9 DEF ServerNext, Run

(* A kill request is told 200 only once the switch is engaged, and only a kill *)
(* request with the token engages it.                                          *)
THEOREM KillAnswersAreTrue == ServerSpec => KillSwitchAnswersAreTrue
<1>1. IInv /\ [ServerNext]_serverVars =>
       [/\ \A r \in Requests :
            answer[r] = None /\ answer'[r] = 200 /\ incoming'[r].route = "kill" => killed'
        /\ killed' /\ ~killed =>
            \E r \in Requests : /\ Due("resolve", r) /\ incoming[r].route = "kill"
                                /\ incoming[r].method = "POST" /\ incoming[r].token
       ]_serverVars
  BY KillStep
<1> QED BY <1>1, IInvHolds, PTL DEF ServerSpec, KillSwitchAnswersAreTrue

----------------------------------------------------------------------------
(* The answers of webhook deliveries.                                        *)

(* What is buffered of a body is a part of it, what is resolved is all of it,  *)
(* and only a kill request fails with its connection open.                     *)
NothingBeforeArrival ==
  \A r \in Requests : incoming[r] = None => got[r] = 0 /\ answer[r] = None
BodiesAreTheirs ==
  /\ \A r \in reading : got[r] <= incoming[r].size
  /\ \A r \in Requests : Due("resolve", r) => got[r] = incoming[r].size
  /\ \A r \in Requests : Due("fail", r) /\ task.status # Closed => incoming[r].route = "kill"
AInv == NothingBeforeArrival /\ BodiesAreTheirs /\ AnswersFollowTheReport

(* The classifier says what the report says.                                   *)
LEMMA ClassifyFollowsTheReport ==
  ASSUME NEW in \in Inbound
  PROVE  ReportedAnswer(in) = Classify(in)
<1>1. /\ in.has_id \in BOOLEAN
      /\ in.event \in {"missing", "unlisted", "listed"}
      /\ in.body \in {"not_json", "not_object", "unlisted_action", "listed_action"}
  BY InboundAreInbounds DEF Inbounds
<1>2. CASE ~Signed(in)
  BY <1>2 DEF Classify, ReportedAnswer
<1>3. CASE Signed(in) /\ (Allowed(in) \/ Unlisted(in))
  <2>1. Classify(in) = 202
    BY <1>3 DEF Allowed, Unlisted, Classify
  <2> QED BY <1>3, <2>1 DEF ReportedAnswer
<1>4. CASE Signed(in) /\ ~Allowed(in) /\ ~Unlisted(in)
  <2>1. Classify(in) = 400
    BY <1>1, <1>4 DEF Allowed, Unlisted, Classify
  <2> QED BY <1>4, <2>1 DEF ReportedAnswer
<1> QED BY <1>2, <1>3, <1>4

(* A request that is answered as reported leaves the other answers alone.      *)
LEMMA AnswerKeepsAInv ==
  ASSUME IInv, AInv, NEW r \in Requests, NEW status, Waiting(r), Answer(r, status),
         \/ status = Closed \/ ~Posted(incoming[r])
         \/ incoming[r].size <= MaxBody /\ status = ReportedAnswer(incoming[r]),
         UNCHANGED <<incoming, reading, got>>,
         task' = None \/ task' = [do |-> "enqueue", req |-> r]
  PROVE  AInv'
<1> USE DEF IInv, ServerTypeOK, AInv
<1>1. \A q \in Requests \ {r} : answer'[q] = answer[q]
  BY DEF Answer
<1>2. answer'[r] = status
  BY DEF Answer
<1>3. incoming[r] # None
  BY NoneIsFresh DEF Waiting
<1>4. NothingBeforeArrival'
  BY <1>1, <1>3 DEF NothingBeforeArrival
<1>5. BodiesAreTheirs'
  BY DEF BodiesAreTheirs, Due
<1>6. AnswersFollowTheReport'
  BY <1>1, <1>2 DEF AnswersFollowTheReport
<1> QED BY <1>4, <1>5, <1>6

LEMMA ArriveKeepsAInv ==
  ASSUME IInv, AInv, NEW r \in Requests, NEW in \in Inbound, Arrive(r, in) PROVE AInv'
<1> USE DEF IInv, ServerTypeOK, AInv
<1>1. /\ incoming' = [incoming EXCEPT ![r] = in] /\ answer' = [answer EXCEPT ![r] = Route(in)]
      /\ reading' \subseteq reading \cup {r} /\ task' = None /\ got' = got
      /\ incoming[r] = None
  BY DEF Arrive, Answer
<1>2. \A q \in Requests \ {r} : incoming'[q] = incoming[q] /\ answer'[q] = answer[q]
  BY <1>1
<1>3. incoming'[r] = in /\ answer'[r] = Route(in) /\ got'[r] = 0 /\ in # None /\ in.size \in Nat
  BY <1>1, NoneIsFresh, InboundAreInbounds DEF NothingBeforeArrival, Inbounds
<1>4. NothingBeforeArrival'
  BY <1>1, <1>2, <1>3 DEF NothingBeforeArrival
<1>5. BodiesAreTheirs'
  BY <1>1, <1>2, <1>3 DEF BodiesAreTheirs, Due
<1>6. Posted(in) => Route(in) = None
  BY DEF Posted, Route
<1>7. AnswersFollowTheReport'
  <2> SUFFICES ASSUME NEW q \in Requests, answer'[q] # None, Posted(incoming'[q]),
                      answer'[q] # Closed
               PROVE  incoming'[q].size <= MaxBody /\ answer'[q] = ReportedAnswer(incoming'[q])
    BY DEF AnswersFollowTheReport
  <2>1. q # r
    BY <1>3, <1>6
  <2> QED BY <1>2, <2>1 DEF AnswersFollowTheReport
<1> QED BY <1>4, <1>5, <1>7

LEMMA ReadKeepsAInv ==
  ASSUME IInv, AInv, NEW r \in Requests, Data(r) \/ End(r) \/ Cut(r) PROVE AInv'
<1> USE DEF IInv, ServerTypeOK, AInv
<1>1. /\ r \in reading /\ incoming[r] \in Inbound
      /\ incoming' = incoming /\ answer' = answer /\ reading' \subseteq reading
  BY DEF Data, End, Cut, Lives, ReadersWait, Waiting
<1>2. incoming[r].size \in Nat /\ got[r] \in Nat /\ incoming[r] # None
  BY <1>1, InboundAreInbounds, NoneIsFresh, LimitsAreNaturals DEF Inbounds
<1>3. \A q \in Requests \ {r} : got'[q] = got[q]
  BY DEF Data, End, Cut
<1>4. NothingBeforeArrival' /\ AnswersFollowTheReport'
  BY <1>1, <1>2, <1>3 DEF NothingBeforeArrival, AnswersFollowTheReport
<1>5. CASE Data(r) /\ OverLimit(r)
  <2>1. task' = [do |-> "fail", req |-> r, status |-> Closed] /\ got' = got
    BY <1>5 DEF Data
  <2>2. BodiesAreTheirs'
    BY <1>1, <2>1 DEF BodiesAreTheirs, Due
  <2> QED BY <1>4, <2>2
<1>6. CASE Data(r) /\ ~OverLimit(r)
  <2>1. task' = None /\ got'[r] = got[r] + 1 /\ got[r] < incoming[r].size
    BY <1>6 DEF Data
  <2>2. \A q \in reading' : got'[q] <= incoming'[q].size
    <3> SUFFICES ASSUME NEW q \in reading' PROVE got'[q] <= incoming'[q].size
      OBVIOUS
    <3>1. CASE q = r
      BY <1>1, <1>2, <2>1, <3>1
    <3>2. CASE q # r
      BY <1>1, <1>3, <3>2 DEF BodiesAreTheirs
    <3> QED BY <3>1, <3>2
  <2>3. BodiesAreTheirs'
    BY <2>1, <2>2 DEF BodiesAreTheirs, Due
  <2> QED BY <1>4, <2>3
<1>7. CASE End(r)
  <2>1. task' = [do |-> "resolve", req |-> r] /\ got' = got /\ got[r] = incoming[r].size
    BY <1>7 DEF End
  <2>2. BodiesAreTheirs'
    BY <1>1, <2>1 DEF BodiesAreTheirs, Due
  <2> QED BY <1>4, <2>2
<1>8. CASE Cut(r)
  <2>1. task' = [do |-> "fail", req |-> r, status |-> Closed] /\ got' = got
    BY <1>8 DEF Cut
  <2>2. BodiesAreTheirs'
    BY <1>1, <2>1 DEF BodiesAreTheirs, Due
  <2> QED BY <1>4, <2>2
<1> QED BY <1>5, <1>6, <1>7, <1>8

LEMMA RunKeepsAInv == ASSUME IInv, AInv, NEW r \in Requests, Run(r) PROVE AInv'
<1> USE DEF IInv, ServerTypeOK, AInv, Lives
<1>1. CASE Fail(r)
  <2>1. Due("fail", r) /\ Waiting(r) /\ Answer(r, task.status) /\ task' = None
        /\ UNCHANGED <<incoming, reading, got>>
    BY <1>1 DEF Fail, TaskIsSound
  <2>2. task.status = Closed \/ ~Posted(incoming[r])
    BY <2>1 DEF BodiesAreTheirs, Posted
  <2> QED BY <2>1, <2>2, AnswerKeepsAInv
<1>2. CASE Respond(r)
  <2>1. Due("resolve", r) /\ Waiting(r) /\ Answer(r, Classify(incoming[r]))
        /\ UNCHANGED <<incoming, reading, got>>
        /\ (task' = None \/ task' = [do |-> "enqueue", req |-> r])
    BY <1>2 DEF Respond, TaskIsSound
  <2>2. incoming[r].size <= MaxBody /\ incoming[r] \in Inbound
    BY <2>1, LimitsAreNaturals DEF BodiesAreTheirs, Waiting
  <2>3. Classify(incoming[r]) = ReportedAnswer(incoming[r])
    BY <2>2, ClassifyFollowsTheReport
  <2> QED BY <2>1, <2>2, <2>3, AnswerKeepsAInv
<1>3. CASE Kill(r)
  <2>1. Waiting(r) /\ Answer(r, 200) /\ task' = None /\ UNCHANGED <<incoming, reading, got>>
    BY <1>3 DEF Kill, TaskIsSound
  <2>2. ~Posted(incoming[r])
    BY <1>3 DEF Kill, Posted
  <2> QED BY <2>1, <2>2, AnswerKeepsAInv
<1>4. CASE KillThrows(r)
  <2>1. task' = [do |-> "fail", req |-> r, status |-> 500] /\ incoming[r].route = "kill"
    BY <1>4 DEF KillThrows
  <2> QED
    BY <1>4, <2>1 DEF KillThrows, NothingBeforeArrival, BodiesAreTheirs, AnswersFollowTheReport, Due
<1>5. CASE HandOff(r) \/ HandOffRejects(r)
  BY <1>5 DEF HandOff, HandOffRejects, NothingBeforeArrival, BodiesAreTheirs,
              AnswersFollowTheReport, Due
<1> QED BY <1>1, <1>2, <1>3, <1>4, <1>5 DEF Run

LEMMA StepKeepsAInv == ASSUME IInv, AInv, [ServerNext]_serverVars PROVE AInv'
<1>1. ASSUME Drain \/ Restore \/ UNCHANGED serverVars PROVE AInv'
  BY <1>1 DEF Drain, Restore, serverVars, AInv, NothingBeforeArrival, BodiesAreTheirs,
              AnswersFollowTheReport, Due
<1>2. ASSUME Crash PROVE AInv'
  BY <1>2 DEF Crash, AInv, NothingBeforeArrival, BodiesAreTheirs, AnswersFollowTheReport, Due
<1> QED BY <1>1, <1>2, ArriveKeepsAInv, ReadKeepsAInv, RunKeepsAInv DEF ServerNext

(* A webhook delivery that gets an answer has a body within the limit and gets *)
(* the answer the validation report lists, however its chunks and those of     *)
(* other requests interleave, and whatever the process lost in between.        *)
THEOREM AnswersAreReported == ServerSpec => []AnswersFollowTheReport
<1>1. ServerInit => AInv
  BY NoneIsFresh DEF ServerInit, AInv, NothingBeforeArrival, BodiesAreTheirs,
                     AnswersFollowTheReport, Due
<1>2. IInv /\ AInv /\ [ServerNext]_serverVars => AInv'
  BY StepKeepsAInv
<1>3. AInv => AnswersFollowTheReport
  BY DEF AInv
<1> QED BY <1>1, <1>2, <1>3, IInvHolds, PTL DEF ServerSpec
=============================================================================
