------------------------ MODULE TransportChain_proofs ------------------------
(* What the gates guarantee for every number of changes, people and records,   *)
(* whatever operators do to the runtime between two stages.                    *)
EXTENDS TransportChain, TLAPS

USE DEF vars, manifests

(* A write of the controller leaves a row of its type.                         *)
LEMMA RowTyped ==
  ASSUME row \in Controller!Rows, NEW to \in Controller!Modes, NEW kill \in BOOLEAN,
         NEW needs_ack \in BOOLEAN, NEW cooldown \in Dates \cup {NoDate, KeepDate}
  PROVE  [Controller!WrittenRow([to |-> to, kill |-> kill, needs_ack |-> needs_ack,
                                 cooldown |-> cooldown], row)
            EXCEPT !.previous_mode = row.previous_mode] \in Controller!Rows
<1>1. /\ row.previous_mode \in Controller!Modes \cup {Controller!NoMode}
      /\ row.mode \in Controller!Modes /\ row.cooldown \in Dates \cup {NoDate}
  BY DEF Controller!Rows, Controller!StoredCooldowns
<1>2. (~kill /\ to \in Controller!LaneModes) \in BOOLEAN
  OBVIOUS
<1> DEFINE written == Controller!WrittenRow([to |-> to, kill |-> kill, needs_ack |-> needs_ack,
                                             cooldown |-> cooldown], row)
<1>3. written \in Controller!Rows
  BY <1>1, <1>2 DEF Controller!WrittenRow, Controller!LaneOpen, Controller!Rows,
    Controller!StoredCooldowns
<1>4. ASSUME NEW w \in Controller!Rows, NEW m \in Controller!Modes \cup {Controller!NoMode}
      PROVE  [w EXCEPT !.previous_mode = m] \in Controller!Rows
  BY DEF Controller!Rows
<1> HIDE DEF written
<1>5. [written EXCEPT !.previous_mode = row.previous_mode] \in Controller!Rows
  BY <1>1, <1>3, <1>4
<1> QED
  BY <1>5 DEF written

(* So does each of its calls here.                                             *)
LEMMA OperateTyped == TypeOK /\ Operate => row' \in Controller!Rows
<1> SUFFICES ASSUME TypeOK, Operate PROVE row' \in Controller!Rows
  OBVIOUS
<1>0. row \in Controller!Rows /\ row.mode \in Controller!Modes /\ row.needs_ack \in BOOLEAN
  BY DEF TypeOK, Controller!Rows
<1>1. \A to \in Controller!Modes, kill, needs_ack \in BOOLEAN,
         cooldown \in Dates \cup {NoDate, KeepDate} :
        Write(to, kill, needs_ack, cooldown) => row' \in Controller!Rows
  BY <1>0, RowTyped DEF Write
<1>2. {"halted", "quarantine"} \subseteq Controller!Modes
  BY DEF Controller!Modes
<1>3. Controller!Downgrade(row.mode) \in Controller!Modes
  BY <1>0 DEF Controller!Downgrade, Controller!Modes, Controller!LaneModes
<1>a. ASSUME NEW to \in OperatorModes, NEW ack \in BOOLEAN,
             NEW d \in Dates \cup {NoDate, KeepDate}, SetMode(to, ack, d)
      PROVE  row' \in Controller!Rows
  BY <1>a, <1>1, ModesAreModes DEF SetMode
<1>b. CASE ActivateKillSwitch
  BY <1>b, <1>1, <1>2 DEF ActivateKillSwitch
<1>c. CASE EnterQuarantine
  BY <1>c, <1>1, <1>2 DEF EnterQuarantine
<1>d. CASE Downgrade
  BY <1>d, <1>0, <1>1, <1>3 DEF Downgrade
<1> QED
  BY <1>a, <1>b, <1>c, <1>d DEF Operate

(* What a caller builds from a row is a gate.                                  *)
LEMMA GateTyped ==
  ASSUME NEW r \in Controller!Rows
  PROVE  /\ GateOf(r) \in Gates
         /\ GateOf(r).lane_open = r.lane_open
         /\ GateOf(r).allowed = Authorized("open_pull_request", r)
<1>1. Authorized("open_pull_request", r) \in BOOLEAN
  <2>1. ("open_pull_request" \in HaltedOps) \in BOOLEAN
    OBVIOUS
  <2>2. ("open_pull_request" \in ModeAllowed(r.mode)) \in BOOLEAN
    OBVIOUS
  <2>3. CASE r.kill
    BY <2>1, <2>3 DEF Authorized
  <2>4. CASE ~r.kill
    BY <2>2, <2>4 DEF Authorized
  <2> QED
    BY <2>3, <2>4
<1> QED
  BY <1>1 DEF GateOf, Gates, Controller!Rows, Controller!StoredCooldowns

LEMMA RelabelTyped ==
  ASSUME NEW g \in Gates, NEW b \in BOOLEAN
  PROVE  [g EXCEPT !.live = b] \in Gates
BY DEF Gates

----------------------------------------------------------------------------
(* Every operator leaves the manifests alone.                                  *)
LEMMA OperateKeeps ==
  Operate => /\ UNCHANGED <<rate, manifests>>
             /\ standing' = IF Refuses(row') /\ ~Refuses(row) THEN Held ELSE standing
BY DEF Operate, SetMode, ActivateKillSwitch, EnterQuarantine, Downgrade, Write

(* What the checkpoint counts is a list again.                                 *)
LEMMA RawTyped == \A list \in Lists : RawApprovals(list) \subseteq Lists
BY DEF RawApprovals, With, Lists

LEMMA InitTyped == Init => TypeOK
<1> SUFFICES ASSUME Init PROVE TypeOK
  OBVIOUS
<1>1. Controller!InitialRow \in Controller!Rows
  BY DEF Controller!InitialRow, Controller!Rows, Controller!Modes, Controller!NoMode,
    Controller!StoredCooldowns
<1> QED
  BY <1>1 DEF Init, TypeOK, NoRecords, Lists

LEMMA NextTyped == TypeOK /\ [Next]_vars => TypeOK'
<1> SUFFICES ASSUME TypeOK, [Next]_vars PROVE TypeOK'
  OBVIOUS
<1> USE DEF TypeOK
<1>1. CASE Operate
  BY <1>1, OperateTyped, OperateKeeps DEF Held
<1>2. CASE RateTurns
  BY <1>2 DEF RateTurns
<1>3. ASSUME NEW c \in Changes, NEW r \in Offered[c], Approve(c, r) PROVE TypeOK'
  <2>1. r \in Records
    BY OfferedAreRecords
  <2>2. With(approvals[c], r) \in Lists
    BY <2>1 DEF With, Lists
  <2> QED
    BY <1>3, <2>2 DEF Approve
<1>4. ASSUME NEW c \in Changes, DropApprovals(c) PROVE TypeOK'
  BY <1>4 DEF DropApprovals, NoRecords, Lists
<1>5. ASSUME NEW c \in Changes, NEW dry \in BOOLEAN, Prepare(c, dry) PROVE TypeOK'
  <2> DEFINE gate == [GateOf(row) EXCEPT !.live = ~dry /\ GateOpen(GateOf(row))]
             made == [dry_run |-> dry, rate_live |-> ~dry /\ rate, runtime_gate |-> gate]
  <2>1. (~dry /\ GateOpen(GateOf(row))) \in BOOLEAN /\ (~dry /\ rate) \in BOOLEAN
    OBVIOUS
  <2>2. gate \in Gates
    BY <2>1, GateTyped, RelabelTyped
  <2>3. made \in Requests
    BY <2>1, <2>2 DEF Requests
  <2>4. request' = [request EXCEPT ![c] = made]
    BY <1>5 DEF Prepare
  <2> QED
    BY <1>5, <2>3, <2>4 DEF Prepare
<1>6. ASSUME NEW c \in Changes, Authorize(c) PROVE TypeOK'
  <2> DEFINE gate == RuntimeAtCheckpoint(c)
             made(raw) == [runtime_gate |-> [gate EXCEPT !.live = TRUE], human_approvals |-> raw]
  <2>1. gate \in Gates
    BY <1>6, GateTyped DEF RuntimeAtCheckpoint, Authorize, Requests
  <2>2. \A raw \in Lists : made(raw) \in Authorizations
    BY <2>1, RelabelTyped DEF Authorizations
  <2>3. \E raw \in RawApprovals(approvals[c]) : authorization' = [authorization EXCEPT ![c] = made(raw)]
    BY <1>6 DEF Authorize
  <2>4. RawApprovals(approvals[c]) \subseteq Lists
    BY RawTyped
  <2> HIDE DEF made
  <2> QED
    BY <1>6, <2>2, <2>3, <2>4 DEF Authorize
<1>7. ASSUME NEW c \in Changes, Govern(c) PROVE TypeOK'
  <2>1. authorization[c].human_approvals \in Lists
    BY <1>7 DEF Govern, Authorizations
  <2> QED
    BY <1>7, <2>1 DEF Govern, Entries
<1>8. ASSUME NEW e \in queue, Transport(e) PROVE TypeOK'
  BY <1>8 DEF Transport
<1>9. CASE UNCHANGED vars
  BY <1>9
<1> QED
  BY <1>1, <1>2, <1>3, <1>4, <1>5, <1>6, <1>7, <1>8, <1>9 DEF Next, Review

(* Type correctness of the runtime row, the rate gate and every stored         *)
(* manifest.                                                                   *)
THEOREM TypeCorrect == Spec => []TypeOK
BY InitTyped, NextTyped, PTL DEF Spec

----------------------------------------------------------------------------
(* Why what is queued is approved.  A stored request is of a sound change; a   *)
(* stored authorization rests on approvals that were enough when the           *)
(* checkpoint saw them, and later approvals or rejections do not reach into    *)
(* it; a queue entry copies them.                                              *)
InScope(c) ==
  /\ c \in (Sound \cap Traceable) \ Governed
  /\ Class[c] # "D" /\ Risk[c] # "critical"
EnoughFor(c, list) ==
  /\ \A r \in list.records : r.approved /\ r.approver \notin SelfApprovers
  /\ ~SelfService(c) => list.length >= 1
  /\ Class[c] = "C" =>
       /\ list.length >= 2
       /\ \E r \in list.records : r.code_owner
Approvable ==
  /\ \A c \in Changes : request[c] # None => c \in Sound
  /\ \A c \in Changes : authorization[c] # None =>
       InScope(c) /\ EnoughFor(c, authorization[c].human_approvals)
  /\ \A e \in queue : InScope(e.change) /\ EnoughFor(e.change, e.human_approvals)

LEMMA ApprovableIsEnough == Approvable => WritesAreApproved
BY DEF Approvable, WritesAreApproved, InScope, EnoughFor, EnoughApprovals

(* Records that the checkpoint accepts are enough.                             *)
LEMMA ApprovedIsEnough ==
  ASSUME NEW c \in Changes, NEW list \in Lists, Approved(c, list)
  PROVE  EnoughFor(c, list)
<1>1. list.length >= RequiredApprovals(c) /\ list.length \in Nat
  BY DEF Approved, Lists
<1>2. ~SelfService(c) => list.length >= 1
  BY <1>1 DEF RequiredApprovals
<1>3. Class[c] = "C" => list.length >= 2
  BY <1>1 DEF RequiredApprovals, SelfService
<1> QED
  BY <1>2, <1>3 DEF EnoughFor, Approved, ValidRecord

LEMMA ApprovableNext ==
  ASSUME TypeOK, Approvable, [Next]_vars
  PROVE  Approvable'
<1> USE DEF TypeOK
<1> HIDE DEF InScope, EnoughFor
<1>1. CASE Operate
  BY <1>1, OperateKeeps DEF Approvable
<1>2. CASE RateTurns \/ \E c \in Changes : DropApprovals(c) \/ \E r \in Offered[c] : Approve(c, r)
  BY <1>2 DEF RateTurns, Approve, DropApprovals, Approvable
<1>3. ASSUME NEW c \in Changes, NEW dry \in BOOLEAN, Prepare(c, dry) PROVE Approvable'
  <2>1. \A d \in Changes : request'[d] # None => d \in Sound
    BY <1>3 DEF Prepare, Approvable, WellFormed
  <2> QED
    BY <1>3, <2>1 DEF Prepare, Approvable
<1>4. ASSUME NEW c \in Changes, Authorize(c) PROVE Approvable'
  <2>1. PICK raw \in RawApprovals(approvals[c]) :
          /\ Released(c, RuntimeAtCheckpoint(c), RateAtCheckpoint(c), raw)
          /\ authorization' = [authorization EXCEPT ![c] =
               [runtime_gate |-> [RuntimeAtCheckpoint(c) EXCEPT !.live = TRUE],
                human_approvals |-> raw]]
    BY <1>4 DEF Authorize
  <2>2. InScope(c)
    BY <1>4, <2>1 DEF Authorize, Approvable, Quarantined, Released, InScope,
      TouchesGovernance, SourceIssue
  <2>3. raw \in Lists /\ Approved(c, raw)
    BY <2>1, RawTyped DEF Released
  <2>4. EnoughFor(c, raw)
    BY <2>3, ApprovedIsEnough
  <2>5. authorization'[c].human_approvals = raw
    BY <2>1
  <2>6. \A d \in Changes : d # c => authorization'[d] = authorization[d]
    BY <2>1
  <2>7. \A d \in Changes : authorization'[d] # None =>
          InScope(d) /\ EnoughFor(d, authorization'[d].human_approvals)
    BY <2>2, <2>4, <2>5, <2>6 DEF Approvable
  <2> QED
    BY <1>4, <2>7 DEF Authorize, Approvable
<1>5. ASSUME NEW c \in Changes, Govern(c) PROVE Approvable'
  <2> DEFINE made == [change |-> c, human_approvals |-> authorization[c].human_approvals]
  <2>1. InScope(made.change) /\ EnoughFor(made.change, made.human_approvals)
    BY <1>5 DEF Govern, Approvable
  <2>2. \A e \in queue' : InScope(e.change) /\ EnoughFor(e.change, e.human_approvals)
    BY <1>5, <2>1 DEF Govern, Approvable
  <2>3. \A d \in Changes : authorization'[d] # None => authorization'[d] = authorization[d]
    BY <1>5 DEF Govern
  <2> QED
    BY <1>5, <2>2, <2>3 DEF Govern, Approvable
<1>6. ASSUME NEW e \in queue, Transport(e) PROVE Approvable'
  BY <1>6 DEF Transport, Approvable
<1>7. CASE UNCHANGED vars
  BY <1>7 DEF Approvable
<1> QED
  BY <1>1, <1>2, <1>3, <1>4, <1>5, <1>6, <1>7 DEF Next, Review

(* Whatever reached the worker was in the checkpoint's scope and rests on as   *)
(* many approval records as its class asks for, a code owner's among them for  *)
(* class C, whatever records the callers repeat.                               *)
THEOREM QueuedIsApproved == Spec => []WritesAreApproved
<1>1. Init => Approvable
  BY DEF Init, Approvable
<1>2. TypeOK /\ Approvable /\ [Next]_vars => Approvable'
  BY ApprovableNext
<1> QED
  BY <1>1, <1>2, InitTyped, NextTyped, ApprovableIsEnough, PTL DEF Spec

----------------------------------------------------------------------------
(* How far a stop reaches.  A change whose caller passes the runtime to the    *)
(* checkpoint holds no authorization while the controller refuses but one that *)
(* stood when the refusal began.                                               *)
NothingNew ==
  Refuses(row) =>
    \A c \in FreshAtCheckpoint \cap Changes : authorization[c] # None => c \in standing

(* A gate that lets a transport through, built from the present row, is of a   *)
(* row that does not refuse.                                                   *)
LEMMA OpenIsNotRefused ==
  ASSUME row \in Controller!Rows, GateOf(row).lane_open, GateOf(row).allowed
  PROVE  ~Refuses(row)
BY GateTyped, Zenon DEF Refuses

LEMMA NothingNewNext ==
  ASSUME TypeOK, NothingNew, [Next]_vars
  PROVE  NothingNew'
<1> USE DEF TypeOK
<1>1. CASE Operate
  <2>1. CASE Refuses(row') /\ ~Refuses(row)
    BY <1>1, <2>1, OperateKeeps DEF NothingNew, Held
  <2>2. CASE Refuses(row') /\ Refuses(row)
    BY <1>1, <2>2, OperateKeeps DEF NothingNew
  <2>3. CASE ~Refuses(row')
    BY <2>3 DEF NothingNew, Refuses
  <2> QED
    BY <2>1, <2>2, <2>3
<1>2. CASE RateTurns \/ \E c \in Changes : DropApprovals(c) \/ \E r \in Offered[c] : Approve(c, r)
  BY <1>2 DEF RateTurns, Approve, DropApprovals, NothingNew, Refuses
<1>3. ASSUME NEW c \in Changes, NEW dry \in BOOLEAN, Prepare(c, dry) PROVE NothingNew'
  BY <1>3 DEF Prepare, NothingNew, Refuses
<1>4. ASSUME NEW c \in Changes, Authorize(c) PROVE NothingNew'
  <2>1. CASE c \in FreshAtCheckpoint
    <3>1. TransportAllowed(GateOf(row))
      BY <1>4, <2>1 DEF Authorize, Released, RuntimeAtCheckpoint
    <3>2. ~Refuses(row)
      BY <3>1, OpenIsNotRefused DEF TransportAllowed, GateOpen
    <3> QED
      BY <1>4, <3>2 DEF Authorize, NothingNew, Refuses
  <2>2. CASE c \notin FreshAtCheckpoint
    <3>1. \A d \in FreshAtCheckpoint \cap Changes : authorization'[d] = authorization[d]
      BY <1>4, <2>2 DEF Authorize
    <3> QED
      BY <1>4, <3>1 DEF Authorize, NothingNew, Refuses
  <2> QED
    BY <2>1, <2>2
<1>5. ASSUME NEW c \in Changes, Govern(c) PROVE NothingNew'
  <2>1. \A d \in Changes : authorization'[d] # None => d # c /\ authorization[d] # None
    BY <1>5 DEF Govern
  <2> QED
    BY <1>5, <2>1 DEF Govern, NothingNew, Refuses
<1>6. ASSUME NEW e \in queue, Transport(e) PROVE NothingNew'
  BY <1>6 DEF Transport, NothingNew, Refuses
<1>7. CASE UNCHANGED vars
  BY <1>7 DEF NothingNew, Refuses
<1> QED
  BY <1>1, <1>2, <1>3, <1>4, <1>5, <1>6, <1>7 DEF Next, Review

(* During a stop, a caller that passes the runtime to the governor queues      *)
(* nothing, and one that passes it to the checkpoint only what was authorized  *)
(* before the stop, once.                                                      *)
THEOREM StopsAreKept == Spec => StopsReachTheQueue
<1>1. Init => NothingNew
  BY DEF Init, NothingNew
<1>2. TypeOK /\ NothingNew /\ [Next]_vars => NothingNew'
  BY NothingNewNext
<1>3. TypeOK /\ NothingNew =>
        [\A c \in FreshAtCheckpoint \cup FreshAtGovernor :
           Govern(c) /\ Refuses(row) => c \in standing \ FreshAtGovernor]_vars
  <2> SUFFICES ASSUME TypeOK, NothingNew, NEW c \in FreshAtCheckpoint \cup FreshAtGovernor,
                      Govern(c), Refuses(row)
               PROVE  c \in standing \ FreshAtGovernor
    OBVIOUS
  <2>1. c \notin FreshAtGovernor
    <3> SUFFICES ASSUME c \in FreshAtGovernor PROVE FALSE
      OBVIOUS
    <3>1. GateOf(row).lane_open /\ GateOf(row).allowed
      BY DEF Govern, RuntimeAtGovernor, Blocked
    <3> QED
      BY <3>1, OpenIsNotRefused DEF TypeOK
  <2>2. authorization[c] # None
    BY DEF Govern
  <2> QED
    BY <2>1, <2>2, PassingIsByChange DEF NothingNew
<1> QED
  BY <1>1, <1>2, <1>3, InitTyped, NextTyped, PTL DEF Spec, StopsReachTheQueue
============================================================================
