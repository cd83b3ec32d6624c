--------------------------- MODULE TransportChain ---------------------------
(* The gates between a composed change and a queued GitHub write, around the   *)
(* runtime-mode row they depend on.  A caller takes a change through           *)
(*   prepareGitHubPullRequest   request: what to send, and the gates seen then *)
(*   runApprovalCheckpoint      authorization: the approvals it rests on       *)
(*   runRateGovernor            queue entry                                    *)
(* storing each manifest for the next stage, while operators move the runtime  *)
(* mode, the rate limit opens and closes and people approve.  Lanes, budgets   *)
(* and cooldown times are RateGovernor's; here the rate limit is open or not.  *)
EXTENDS Naturals, FiniteSets, RuntimePolicy

CONSTANTS
  Changes,           \* pull request compositions
  Class, Risk,       \* review.approval_class and review.risk of a composition
  Sound,             \* changes whose composition and installation are well formed
  Governed,          \* changes that touch a governance path
  Traceable,         \* changes whose source issue can be found
  ReviewKept,        \* changes with human_review_required_before_merge
  People, SelfApprovers,  \* names an approval record carries
  Offered,           \* Offered[c]: the approval records that can be collected for c
  OperatorModes,     \* modes an operator asks for
  Dates, NoDate, KeepDate,  \* cooldownUntil: dates, null, undefined
  None,              \* a manifest that does not exist yet
  FreshAtCheckpoint, FreshAtGovernor, \* changes whose caller passes `runtime' there
  MaxRecords,        \* bound on the length of a list of approval records
  MaxQueued          \* bound on the entries of one change waiting for the worker

(* The controller's operators over its row; its processes are not used.        *)
Controller == INSTANCE RuntimeMode WITH
  Procs <- {}, Repos <- {}, NullRepo <- "null", AnyRepo <- "any",
  TargetModes <- OperatorModes, Cooldowns <- Dates, NoCooldown <- NoDate,
  KeepCooldown <- KeepDate, NoRow <- None, Window <- 1, MaxNow <- 0,
  MaxSignals <- 0, MaxEvents <- 0, state <- None, events <- <<>>,
  signals <- <<>>, now <- 0, call <- <<>>

Gates == [mode : Controller!Modes, allowed : BOOLEAN, lane_open : BOOLEAN,
          kill : BOOLEAN, cooldown : Dates \cup {NoDate}, live : BOOLEAN]
Records == [approver : People \cup SelfApprovers, approved : BOOLEAN, code_owner : BOOLEAN]
(* A list of records: the records in it, and how many it holds with those that *)
(* are in it twice.  Nothing depends on their order.                           *)
Lists == [records : SUBSET Records, length : Nat]
NoRecords == [records |-> {}, length |-> 0]
Requests == [dry_run : BOOLEAN, runtime_gate : Gates, rate_live : BOOLEAN]
Authorizations == [runtime_gate : Gates, human_approvals : Lists]
Entries == [change : Changes, human_approvals : Lists]

ASSUME ChangesHaveReviews ==
  /\ Class \in [Changes -> {"A", "B", "C", "D"}]
  /\ Risk \in [Changes -> {"low", "medium", "high", "critical"}]
ASSUME OfferedAreRecords == Offered \in [Changes -> SUBSET Records]
ASSUME ModesAreModes == OperatorModes \subseteq Controller!Modes
ASSUME DatesApart == NoDate \notin Dates /\ KeepDate \notin Dates \cup {NoDate}
ASSUME NoneIsNoManifest == None \notin Requests /\ None \notin Authorizations
ASSUME PassingIsByChange == FreshAtCheckpoint \cup FreshAtGovernor \subseteq Changes
ASSUME BoundsAreNatural == MaxQueued \in Nat /\ MaxRecords \in Nat

VARIABLES
  row,        \* the controller's row
  rate,       \* whether the rate-limit gate of the caller is open
  request,    \* request[c]: the adapter's request for c, or None
  authorization,  \* authorization[c]: the checkpoint's authorization, or None
  approvals,  \* approvals[c]: humanApprovals, the list of records collected for c
  queue,      \* entries handed to the transport worker and not yet performed
  standing    \* history: the changes that held an authorization when the controller
              \* began to refuse and have not been queued since

vars == <<row, rate, request, authorization, approvals, queue, standing>>
manifests == <<request, authorization, approvals, queue>>

----------------------------------------------------------------------------
(* What the stages decide.                                                   *)

(* The runtime argument a caller builds from the controller's present answer.  *)
GateOf(r) ==
  LET ok == Authorized("open_pull_request", r)
  IN [mode |-> r.mode, allowed |-> ok, lane_open |-> r.lane_open, kill |-> r.kill,
      cooldown |-> r.cooldown, live |-> ok]

(* The adapter's live gates, and the checkpoint's, which asks for `live' too.  *)
GateOpen(g) ==
  /\ g.mode \in Controller!LaneModes /\ g.allowed /\ g.lane_open /\ ~g.kill
  /\ g.cooldown = NoDate
TransportAllowed(g) == g.live /\ GateOpen(g)

(* `input.runtime ?? request.runtime_gate', and the governor's like it.        *)
(* Mutant: the stored gate is preferred to the one passed.                     *)
RuntimeAtCheckpointStored(c) == request[c].runtime_gate
RuntimeAtCheckpoint(c) ==
  IF c \in FreshAtCheckpoint THEN GateOf(row) ELSE request[c].runtime_gate
RateAtCheckpoint(c) ==
  IF c \in FreshAtCheckpoint THEN rate ELSE request[c].rate_live
RuntimeAtGovernor(c) ==
  IF c \in FreshAtGovernor THEN GateOf(row) ELSE authorization[c].runtime_gate

(* The parts of a change the stages read out of its composition and body.      *)
WellFormed(c) == c \in Sound
TouchesGovernance(c) == c \in Governed
SourceIssue(c) == c \in Traceable

(* quarantineIssuesFor: the runtime is stopped or the change is out of scope.  *)
Quarantined(c, g) ==
  \/ g.mode \in Controller!StopModes \/ g.kill
  \/ Class[c] = "D" \/ Risk[c] = "critical" \/ TouchesGovernance(c)

SelfService(c) == Class[c] = "A" /\ Risk[c] = "low"
(* Mutant: class C is treated like class B.                                    *)
RequiredApprovalsOne(c) == IF SelfService(c) THEN 0 ELSE 1
RequiredApprovals(c) ==
  IF SelfService(c) THEN 0 ELSE IF Class[c] = "C" THEN 2 ELSE 1

ValidRecord(r) == r.approved /\ r.approver \notin SelfApprovers
With(list, r) == [records |-> list.records \cup {r}, length |-> list.length + 1]

(* normalizedHumanApprovals: humanApproval, if any, before humanApprovals.     *)
(* Nothing looks for a record that is there twice.                             *)
RawApprovals(list) == {list} \cup {With(list, r) : r \in list.records}

Approved(c, raw) ==
  /\ \A r \in raw.records : ValidRecord(r)
  /\ raw.length >= RequiredApprovals(c)
  /\ Class[c] = "C" => \E r \in raw.records : r.code_owner

(* Mutant: a low-risk change too must keep human review.                       *)
ReviewPreservedAlways(c) == c \in ReviewKept
ReviewPreserved(c) == SelfService(c) \/ c \in ReviewKept

(* holdIssuesFor, negated.                                                    *)
Released(c, g, rate_live, raw) ==
  /\ ~request[c].dry_run /\ TransportAllowed(g) /\ rate_live
  /\ SourceIssue(c) /\ ReviewPreserved(c) /\ Approved(c, raw)

(* runtimeBlockIssues: the governor does not look at the cooldown.             *)
Blocked(g) ==
  \/ g.mode \notin Controller!LaneModes \/ g.kill
  \/ ~g.allowed \/ ~g.lane_open \/ ~g.live

----------------------------------------------------------------------------
Init ==
  /\ row = Controller!InitialRow
  /\ rate \in BOOLEAN
  /\ request = [c \in Changes |-> None] /\ authorization = [c \in Changes |-> None]
  /\ approvals = [c \in Changes |-> NoRecords]
  /\ queue = {} /\ standing = {}

(* Whether the controller refuses open_pull_request.                           *)
Refuses(r) == ~(r.lane_open /\ Authorized("open_pull_request", r))
Held == {c \in Changes : authorization[c] # None}

(* Operators and the rate-limit feedback, each call to the controller at once; *)
(* previous_mode, which no stage reads, is left as it was.                     *)
Write(to, kill, needs_ack, cooldown) ==
  /\ row' = [Controller!WrittenRow([to |-> to, kill |-> kill, needs_ack |-> needs_ack,
                                    cooldown |-> cooldown], row)
               EXCEPT !.previous_mode = row.previous_mode]
  /\ standing' = IF Refuses(row') /\ ~Refuses(row) THEN Held ELSE standing
  /\ UNCHANGED <<rate, manifests>>

SetMode(to, ack, cooldown) ==
  /\ ~Controller!AckMissing(row, to, ack)
  /\ Write(to, FALSE, FALSE, cooldown)
ActivateKillSwitch == Write("halted", TRUE, TRUE, KeepDate)
EnterQuarantine == Write("quarantine", FALSE, TRUE, KeepDate)
Downgrade ==
  /\ Controller!Downgrade(row.mode) # row.mode
  /\ Write(Controller!Downgrade(row.mode), FALSE, row.needs_ack, KeepDate)

RateTurns == rate' = ~rate /\ UNCHANGED <<row, manifests, standing>>

(* prepareGitHubPullRequest: ready. A dry run skips the live gates and stores  *)
(* gates that allow nothing.                                                  *)
Prepare(c, dry) ==
  /\ WellFormed(c)
  /\ dry \/ (GateOpen(GateOf(row)) /\ rate)
  /\ request' = [request EXCEPT ![c] =
       [dry_run |-> dry, rate_live |-> ~dry /\ rate,
        runtime_gate |-> [GateOf(row) EXCEPT !.live = ~dry /\ GateOpen(GateOf(row))]]]
  /\ UNCHANGED <<row, rate, authorization, approvals, queue, standing>>

(* A record is added to the change's approvals, whatever it says and whether   *)
(* or not it is there already.                                                 *)
Approve(c, r) ==
  /\ approvals[c].length < MaxRecords
  /\ approvals' = [approvals EXCEPT ![c] = With(@, r)]
  /\ UNCHANGED <<row, rate, request, authorization, queue, standing>>

(* The caller drops the records of a change that will not pass.                *)
DropApprovals(c) ==
  /\ \E r \in approvals[c].records : ~ValidRecord(r)
  /\ approvals' = [approvals EXCEPT ![c] = NoRecords]
  /\ UNCHANGED <<row, rate, request, authorization, queue, standing>>

(* runApprovalCheckpoint: authorized.  Invalid, quarantined and held calls     *)
(* return no manifest.                                                         *)
Authorize(c) ==
  /\ request[c] # None
  /\ LET g == RuntimeAtCheckpoint(c)
     IN /\ ~Quarantined(c, g)
        /\ \E raw \in RawApprovals(approvals[c]) :
             /\ Released(c, g, RateAtCheckpoint(c), raw)
             /\ authorization' = [authorization EXCEPT ![c] =
                  [runtime_gate |-> [g EXCEPT !.live = TRUE], human_approvals |-> raw]]
  /\ UNCHANGED <<row, rate, request, approvals, queue, standing>>

(* runRateGovernor: queued.  The caller gives the entry to the worker and      *)
(* forgets the authorization.                                                  *)
Govern(c) ==
  /\ authorization[c] # None /\ Cardinality({e \in queue : e.change = c}) < MaxQueued
  /\ ~Blocked(RuntimeAtGovernor(c))
  /\ queue' = queue \cup {[change |-> c, human_approvals |-> authorization[c].human_approvals]}
  /\ authorization' = [authorization EXCEPT ![c] = None]
  /\ standing' = standing \ {c}
  /\ UNCHANGED <<row, rate, request, approvals>>

Transport(e) ==
  /\ queue' = queue \ {e}
  /\ UNCHANGED <<row, rate, request, authorization, approvals, standing>>

Operate ==
  \/ \E to \in OperatorModes, ack \in BOOLEAN, d \in Dates \cup {NoDate, KeepDate} : SetMode(to, ack, d)
  \/ ActivateKillSwitch \/ EnterQuarantine \/ Downgrade
Review == \E c \in Changes : DropApprovals(c) \/ \E r \in Offered[c] : Approve(c, r)

Next ==
  \/ Operate \/ RateTurns \/ Review
  \/ \E c \in Changes : Authorize(c) \/ Govern(c) \/ \E dry \in BOOLEAN : Prepare(c, dry)
  \/ \E e \in queue : Transport(e)

Spec == Init /\ [][Next]_vars

(* The caller takes a change through the stages as long as they let it.        *)
FairSpec ==
  /\ Spec
  /\ \A c \in Changes :
       WF_vars(Prepare(c, FALSE)) /\ WF_vars(Authorize(c)) /\ WF_vars(Govern(c))

----------------------------------------------------------------------------
(* Properties.                                                              *)

(* Every variable has its type.                                               *)
TypeOK ==
  /\ row \in Controller!Rows /\ rate \in BOOLEAN
  /\ request \in [Changes -> Requests \cup {None}]
  /\ authorization \in [Changes -> Authorizations \cup {None}]
  /\ approvals \in [Changes -> Lists]
  /\ queue \subseteq Entries /\ standing \subseteq Changes

(* packages/approval-checkpoint/README.md, policy of T026, for everything that *)
(* reached the worker, however often the change was prepared again, approved,  *)
(* rejected and stopped on the way: class D, critical risk and governance      *)
(* changes never do, the others only with as many approval records as their    *)
(* class asks for, every one approved and none the runtime's own, a code       *)
(* owner's among those of class C.  Two records may be one person's, or one    *)
(* record passed twice: that two people approved a class C change is not so.   *)
EnoughApprovals(e) ==
  /\ \A r \in e.human_approvals.records : r.approved /\ r.approver \notin SelfApprovers
  /\ ~SelfService(e.change) => e.human_approvals.length >= 1
  /\ Class[e.change] = "C" =>
       /\ e.human_approvals.length >= 2
       /\ \E r \in e.human_approvals.records : r.code_owner
WritesAreApproved ==
  \A e \in queue :
    /\ e.change \in (Sound \cap Traceable) \ Governed
    /\ Class[e.change] # "D" /\ Risk[e.change] # "critical"
    /\ EnoughApprovals(e)

(* docs/ops/runtime-mode.md: mutating operations are authorized by the mode in *)
(* force.  How far a stop reaches: while the controller refuses                *)
(* open_pull_request, a caller that passes the runtime to the governor queues  *)
(* nothing, and one that passes it to the checkpoint alone, so that the        *)
(* governor falls back on the gate in the authorization, queues what was       *)
(* authorized before the stop, once, and nothing else however often it calls   *)
(* the stages again.  A caller that passes it to neither is not stopped.       *)
StopsReachTheQueue ==
  [][\A c \in FreshAtCheckpoint \cup FreshAtGovernor :
       Govern(c) /\ Refuses(row) => c \in standing \ FreshAtGovernor]_vars

(* Once the runtime runs without a cooldown, the rate limit stays open and a   *)
(* change has its approvals for good, the change is queued: no stage waits for *)
(* something another stage rules out.                                          *)
Ready(c) ==
  /\ GateOpen(GateOf(row)) /\ rate
  /\ Approved(c, approvals[c])
ReadyChangesAreQueued ==
  \A c \in Changes :
    c \in (Sound \cap Traceable) \ Governed /\ (SelfService(c) \/ c \in ReviewKept) /\ Class[c] # "D" /\ Risk[c] # "critical" =>
      (<>[](Ready(c) /\ (request[c] = None \/ ~request[c].dry_run)) =>
         <>(\E e \in queue : e.change = c))
============================================================================
