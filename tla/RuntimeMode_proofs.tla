------------------------- MODULE RuntimeMode_proofs -------------------------
(* Theorems about RuntimeMode for every number of processes, repositories and  *)
(* cooldown dates, and without the bounds' values: any interleaving of calls,  *)
(* crashes and restarts over one database.                                     *)
EXTENDS RuntimeMode, TLAPS

(* What each row and each pending request satisfies.  A kill request always    *)
(* asks for the halted mode and an acknowledgement, a kill switch or a policy  *)
(* breach for a mode that stops, and an operator's call never demands an       *)
(* acknowledgement of the next one; a row is what some request                 *)
(* asked for, so a stale read can mix up previous_mode but never the columns   *)
(* that say whether the lane is open.                                          *)
RequestShape(req) ==
  /\ req.kill => req.to = "halted" /\ req.needs_ack
  /\ req.trigger \in {"kill_switch", "policy_breach"} => req.to \in StopModes /\ req.needs_ack
  /\ req.trigger \in {"manual", "restore"} => ~req.needs_ack
RowShape(row) ==
  /\ row.lane_open <=> (~row.kill /\ row.mode \in LaneModes)
  /\ row.kill => row.mode = "halted" /\ row.needs_ack

(* A running process has initialised the row.                                  *)
RunningHasRow == \A p \in Procs : call[p] # Down => Initialized
RequestsShaped ==
  \A p \in Procs : call[p].pc \in {"called", "read"} => RequestShape(call[p].req)
StateShaped == Initialized => RowShape(state)

IInv == TypeOK /\ RunningHasRow /\ RequestsShaped /\ StateShaped

----------------------------------------------------------------------------
(* Lemmas on the operators.                                                   *)

LEMMA InitialRowTyped == InitialRow \in Rows /\ RowShape(InitialRow)
BY DEF InitialRow, Rows, RowShape, Modes, NoMode, LaneModes, StoredCooldowns

LEMMA WrittenRowTyped ==
  ASSUME NEW req \in Requests, NEW seen \in Rows
  PROVE  WrittenRow(req, seen) \in Rows
BY DEF WrittenRow, LaneOpen, Requests, Rows, StoredCooldowns

LEMMA LoggedEventTyped ==
  ASSUME NEW req \in Requests, NEW seen \in Rows
  PROVE  LoggedEvent(req, seen) \in LogRows
BY DEF LoggedEvent, LaneOpen, EventType, Requests, Rows, LogRows, LogTypes

LEMMA WrittenRowShaped ==
  ASSUME NEW req \in Requests, NEW seen \in Rows, RequestShape(req)
  PROVE  RowShape(WrittenRow(req, seen))
BY DEF WrittenRow, LaneOpen, RequestShape, RowShape, LaneModes

(* The shapes of a pending call, read off its pc.                              *)
LEMMA CalledIsRequest ==
  ASSUME NEW c \in Calls, c.pc = "called"
  PROVE  c.req \in Requests
BY DEF Calls, Down, Idle, Called

LEMMA ReadIsRequest ==
  ASSUME NEW c \in Calls, c.pc = "read"
  PROVE  c.req \in Requests /\ c.seen \in Rows
BY DEF Calls, Down, Idle, Called

LEMMA SignallingIsSignal ==
  ASSUME NEW c \in Calls, c.pc \in {"signal", "counting", "over"}
  PROVE  c.repo \in SignalRepos /\ c.at \in Nat
BY DEF Calls, Down, Idle, Called

LEMMA CallsMade ==
  /\ Down \in Calls /\ Idle \in Calls
  /\ \A req \in Requests : Called(req) \in Calls
  /\ \A req \in Requests, seen \in Rows : Read(req, seen) \in Calls
  /\ \A pc \in {"signal", "counting", "over"}, repo \in SignalRepos, at \in Nat :
       Signalling(pc, repo, at) \in Calls
BY DEF Calls, Read, Signalling

LEMMA DowngradeTyped == \A m \in Modes : Downgrade(m) \in Modes
BY DEF Downgrade, Modes, LaneModes

----------------------------------------------------------------------------
(* The invariant is inductive.                                                *)

LEMMA InitIInv == Init => IInv
BY DEF Init, IInv, TypeOK, RunningHasRow, RequestsShaped, StateShaped, Initialized,
       Calls, Down

(* A step that begins or continues a call with a typed, shaped call record.    *)
LEMMA CallStep ==
  ASSUME IInv, NEW p \in Procs, NEW c \in Calls, call' = [call EXCEPT ![p] = c],
         c.pc \in {"called", "read"} => RequestShape(c.req),
         c # Down => Initialized,
         UNCHANGED <<state, events, signals, now>>
  PROVE  IInv'
BY DEF IInv, TypeOK, RunningHasRow, RequestsShaped, StateShaped, Initialized

LEMMA InvokeIInv ==
  ASSUME IInv, NEW p \in Procs, NEW req \in Requests, RequestShape(req), Invoke(p, req)
  PROVE  IInv'
<1>1. Idle # Down
  BY DEF Idle, Down
<1>2. Called(req) \in Calls /\ Called(req).req = req
  BY CallsMade DEF Called
<1>3. Initialized
  BY <1>1 DEF Invoke, IInv, RunningHasRow
<1> QED
  BY <1>2, <1>3, CallStep DEF Invoke

LEMMA NextIInv == IInv /\ [Next]_vars => IInv'
<1> SUFFICES ASSUME IInv, [Next]_vars PROVE IInv'
  OBVIOUS
<1> USE DEF IInv
<1>0. Idle # Down
  BY DEF Idle, Down
<1>1. CASE UNCHANGED vars
  BY <1>1 DEF vars, TypeOK, RunningHasRow, RequestsShaped, StateShaped, Initialized
<1>2. CASE Tick
  BY <1>2 DEF Tick, TypeOK, RunningHasRow, RequestsShaped, StateShaped, Initialized
<1>3. ASSUME NEW p \in Procs, Start(p) PROVE IInv'
  <2>1. state' \in Rows /\ RowShape(state')
    BY <1>3, InitialRowTyped, ModelValuesApart
    DEF Start, EnsureInitialState, TypeOK, StateShaped, Initialized
  <2>2. state' # NoRow
    BY <2>1, ModelValuesApart
  <2>3. TypeOK'
    BY <1>3, <2>1, CallsMade DEF Start, TypeOK
  <2>4. RequestsShaped'
    BY <1>3 DEF Start, RequestsShaped, Idle, TypeOK
  <2> QED
    BY <2>1, <2>2, <2>3, <2>4 DEF RunningHasRow, StateShaped, Initialized
<1>4. ASSUME NEW p \in Procs, Crash(p) PROVE IInv'
  BY <1>4, CallsMade, CallStep DEF Crash, Down
<1>5. ASSUME NEW p \in Procs, NEW to \in TargetModes, NEW ack \in BOOLEAN,
             NEW trigger \in {"manual", "restore"},
             NEW cooldown \in StoredCooldowns \cup {KeepCooldown},
             SetMode(p, to, trigger, ack, cooldown)
      PROVE IInv'
  <2> DEFINE req == [to |-> to, kill |-> FALSE, needs_ack |-> FALSE, trigger |-> trigger,
                     cooldown |-> cooldown, ack |-> ack]
  <2>1. req \in Requests /\ RequestShape(req)
    BY TargetsAreModes DEF Requests, RequestShape
  <2> QED
    BY <1>5, <2>1, InvokeIInv DEF SetMode
<1>6. ASSUME NEW p \in Procs, NEW to \in TargetModes, NEW ack \in BOOLEAN,
             RestoreMode(p, to, ack)
      PROVE IInv'
  BY <1>5, <1>6 DEF RestoreMode
<1>7. ASSUME NEW p \in Procs, ActivateKillSwitch(p) PROVE IInv'
  <2> DEFINE req == [to |-> "halted", kill |-> TRUE, needs_ack |-> TRUE,
                     trigger |-> "kill_switch", cooldown |-> KeepCooldown, ack |-> FALSE]
  <2>1. req \in Requests /\ RequestShape(req)
    BY DEF Requests, RequestShape, Modes, StopModes
  <2> QED
    BY <1>7, <2>1, InvokeIInv DEF ActivateKillSwitch
<1>8. ASSUME NEW p \in Procs, EnterQuarantine(p) PROVE IInv'
  <2> DEFINE req == [to |-> "quarantine", kill |-> FALSE, needs_ack |-> TRUE,
                     trigger |-> "policy_breach", cooldown |-> KeepCooldown, ack |-> FALSE]
  <2>1. req \in Requests /\ RequestShape(req)
    BY DEF Requests, RequestShape, Modes, StopModes
  <2> QED
    BY <1>8, <2>1, InvokeIInv DEF EnterQuarantine
<1>9. ASSUME NEW p \in Procs, ReadCurrent(p) PROVE IInv'
  <2>1. call[p] \in Calls /\ call[p].req \in Requests /\ RequestShape(call[p].req)
    BY <1>9, CalledIsRequest DEF ReadCurrent, TypeOK, RequestsShaped
  <2>2. Initialized /\ state \in Rows
    BY <1>9 DEF ReadCurrent, TypeOK, RunningHasRow, Initialized, Down
  <2>3. Read(call[p].req, state) \in Calls /\ Read(call[p].req, state).req = call[p].req
    BY <2>1, <2>2, CallsMade DEF Read
  <2> QED
    BY <1>9, <2>1, <2>2, <2>3, CallStep DEF ReadCurrent
<1>10. ASSUME NEW p \in Procs, CommitTransition(p) PROVE IInv'
  <2>1. /\ call[p].req \in Requests /\ call[p].seen \in Rows
        /\ RequestShape(call[p].req)
    BY <1>10, ReadIsRequest DEF CommitTransition, TypeOK, RequestsShaped
  <2>2. state' \in Rows /\ RowShape(state')
    BY <1>10, <2>1, WrittenRowTyped, WrittenRowShaped DEF CommitTransition
  <2>3. state' # NoRow
    BY <2>2, ModelValuesApart
  <2>4. TypeOK'
    BY <1>10, <2>1, <2>2, LoggedEventTyped, CallsMade DEF CommitTransition, TypeOK
  <2>5. RequestsShaped'
    BY <1>10 DEF CommitTransition, RequestsShaped, Idle, TypeOK
  <2> QED
    BY <2>2, <2>3, <2>4, <2>5 DEF RunningHasRow, StateShaped, Initialized
<1>11. ASSUME NEW p \in Procs, NEW repo \in SignalRepos, RateLimited(p, repo)
       PROVE IInv'
  <2>1. /\ Signalling("signal", repo, now) \in Calls
        /\ Signalling("signal", repo, now).pc = "signal"
    BY CallsMade DEF Signalling, TypeOK
  <2>2. Initialized
    BY <1>0, <1>11 DEF RateLimited, RunningHasRow
  <2> QED
    BY <1>11, <2>1, <2>2, CallStep DEF RateLimited
<1>12. ASSUME NEW p \in Procs, InsertSignal(p) PROVE IInv'
  <2>1. call[p].repo \in SignalRepos /\ call[p].at \in Nat
    BY <1>12, SignallingIsSignal DEF InsertSignal, TypeOK
  <2> DEFINE c == Signalling("counting", call[p].repo, call[p].at)
  <2>2. call' = [call EXCEPT ![p] = c]
    BY <1>12 DEF InsertSignal
  <2>3. c \in Calls /\ c.pc = "counting"
    BY <2>1, CallsMade DEF Signalling
  <2>4. signals' \in Seq([at : Nat, repo : StoredRepos])
    BY <1>12, <2>1 DEF InsertSignal, TypeOK, SignalRepos, StoredRepos
  <2>5. call[p] # Down
    BY <1>12 DEF InsertSignal, Down
  <2> HIDE DEF c
  <2> QED
    BY <1>12, <2>2, <2>3, <2>4, <2>5
    DEF InsertSignal, TypeOK, RunningHasRow, RequestsShaped, StateShaped, Initialized
<1>13. ASSUME NEW p \in Procs, CountSignals(p) PROVE IInv'
  <2>1. call[p].repo \in SignalRepos /\ call[p].at \in Nat
    BY <1>13, SignallingIsSignal DEF CountSignals, TypeOK
  <2> DEFINE over == Signalling("over", call[p].repo, call[p].at)
  <2>2. over \in Calls /\ over.pc = "over" /\ Idle \in Calls /\ Idle.pc = "idle"
    BY <2>1, CallsMade DEF Signalling, Idle
  <2>3. Initialized
    BY <1>13 DEF CountSignals, RunningHasRow, Down
  <2> HIDE DEF over
  <2>4. PICK c \in {over, Idle} : call' = [call EXCEPT ![p] = c]
    BY <1>13 DEF CountSignals, over
  <2> QED
    <3>1. c \in Calls /\ c.pc \notin {"called", "read"}
      BY <2>2
    <3>2. UNCHANGED <<state, events, signals, now>>
      BY <1>13 DEF CountSignals
    <3> QED
      BY <2>3, <2>4, <3>1, <3>2, CallStep
<1>14. ASSUME NEW p \in Procs, DecideDowngrade(p) PROVE IInv'
  <2>1. Initialized /\ state \in Rows
    BY <1>14 DEF DecideDowngrade, RunningHasRow, Initialized, TypeOK, Down
  <2> DEFINE req == [to |-> Downgrade(state.mode), kill |-> FALSE,
                     needs_ack |-> state.needs_ack, trigger |-> "rate_limit",
                     cooldown |-> KeepCooldown, ack |-> FALSE]
  <2>2. req \in Requests /\ RequestShape(req)
    BY <2>1, DowngradeTyped DEF Requests, RequestShape, Rows
  <2>3. /\ Called(req) \in Calls /\ Called(req).req = req
        /\ Idle \in Calls /\ Idle.pc = "idle"
    BY <2>2, CallsMade DEF Called, Idle
  <2>4. CASE Downgrade(state.mode) = state.mode
    BY <1>14, <2>1, <2>3, <2>4, CallStep DEF DecideDowngrade
  <2>5. CASE Downgrade(state.mode) # state.mode
    <3>1. call' = [call EXCEPT ![p] = Called(req)]
      BY <1>14, <2>5 DEF DecideDowngrade
    <3> HIDE DEF req
    <3> QED
      BY <1>14, <2>1, <2>2, <2>3, <3>1, CallStep DEF DecideDowngrade
  <2> QED
    BY <2>4, <2>5
<1> QED
  <2>1. KeepCooldown \in StoredCooldowns \cup {KeepCooldown}
    OBVIOUS
  <2> HIDE DEF IInv
  <2> QED
    BY <1>1, <1>2, <1>3, <1>4, <1>5, <1>6, <1>7, <1>8, <1>9, <1>10, <1>11, <1>12,
       <1>13, <1>14 DEF Next

(* Every history keeps the inductive invariant.                                *)
THEOREM IInvHolds == Spec => []IInv
BY InitIInv, NextIInv, PTL DEF Spec

(* Type correctness of the controller's database and of its calls.             *)
THEOREM TypeCorrect == Spec => []TypeOK
BY IInvHolds, PTL DEF IInv

----------------------------------------------------------------------------
(* Safety for any number of processes.                                        *)

(* The stored lane column and the authorization matrix never disagree on a     *)
(* mutating operation, however stale the rows that the writers read.           *)
THEOREM LaneAgrees == Spec => []LaneAgreesWithAuthorization
<1>1. IInv => LaneAgreesWithAuthorization
  <2> SUFFICES ASSUME IInv, Initialized, NEW op \in MutatingOps
               PROVE  Authorized(op, state) <=> state.lane_open
    BY DEF LaneAgreesWithAuthorization
  <2>1. state \in Rows /\ RowShape(state)
    BY DEF IInv, TypeOK, StateShaped, Initialized
  <2>2. state.mode \in Modes
    BY <2>1 DEF Rows
  <2>3. op # "restore_runtime_mode" /\ op \notin HaltedOps
    BY DEF MutatingOps, HaltedOps
  <2>4. op \in ModeAllowed(state.mode) <=> state.mode \in LaneModes
    BY <2>2 DEF ModeAllowed, Modes, LaneModes, MutatingOps, BaseOps, ProposeOps,
                QuarantineOps, HaltedOps
  <2> QED
    BY <2>1, <2>3, <2>4 DEF Authorized, RowShape
<1> QED
  BY <1>1, IInvHolds, PTL

(* An engaged kill switch is a hard stop in every reachable row.               *)
THEOREM KillSwitchStops == Spec => []KillSwitchIsAHardStop
<1>1. IInv => KillSwitchIsAHardStop
  <2> SUFFICES ASSUME IInv, Initialized, state.kill
               PROVE  /\ state.mode = "halted" /\ ~state.lane_open /\ state.needs_ack
                      /\ \A op \in Operations : Authorized(op, state) => op \in HaltedOps
    BY DEF KillSwitchIsAHardStop
  <2>1. state \in Rows /\ RowShape(state)
    BY DEF IInv, TypeOK, StateShaped, Initialized
  <2>2. state.mode = "halted" /\ ~state.lane_open /\ state.needs_ack
    BY <2>1 DEF RowShape
  <2>3. ASSUME NEW op \in Operations, Authorized(op, state) PROVE op \in HaltedOps
    BY <2>2, <2>3 DEF Authorized, ModeAllowed
  <2> QED
    BY <2>2, <2>3
<1> QED
  BY <1>1, IInvHolds, PTL

(* What a committed transition is.                                             *)
LEMMA CommitFacts ==
  ASSUME IInv, NEW p \in Procs, CommitTransition(p)
  PROVE  /\ call[p].req \in Requests /\ call[p].seen \in Rows
         /\ state' = WrittenRow(call[p].req, call[p].seen) /\ state' \in Rows
         /\ state' # NoRow /\ Initialized
         /\ events' = Append(events, LoggedEvent(call[p].req, call[p].seen))
         /\ Len(events') = Len(events) + 1
         /\ events'[Len(events')] = LoggedEvent(call[p].req, call[p].seen)
         /\ \A i \in DOMAIN events : events'[i] = events[i]
<1>1. call[p].req \in Requests /\ call[p].seen \in Rows
  BY ReadIsRequest DEF CommitTransition, IInv, TypeOK
<1>2. state' = WrittenRow(call[p].req, call[p].seen) /\ state' \in Rows /\ state' # NoRow
  BY <1>1, WrittenRowTyped, ModelValuesApart DEF CommitTransition
<1>3. Initialized
  BY DEF CommitTransition, IInv, RunningHasRow, Down
<1>4. /\ events \in Seq(LogRows) /\ LoggedEvent(call[p].req, call[p].seen) \in LogRows
      /\ events' = Append(events, LoggedEvent(call[p].req, call[p].seen))
  BY <1>1, LoggedEventTyped DEF CommitTransition, IInv, TypeOK
<1> HIDE DEF LogRows
<1> QED
  BY <1>1, <1>2, <1>3, <1>4

(* Only a process that starts and one that commits touch the row or the trail. *)
LEMMA OtherStepsKeepRow ==
  ASSUME [Next]_vars, \A p \in Procs : ~Start(p) /\ ~CommitTransition(p)
  PROVE  UNCHANGED <<state, events>>
BY DEF Next, vars, Tick, Crash, SetMode, RestoreMode, ActivateKillSwitch, EnterQuarantine,
       Invoke, ReadCurrent, RateLimited, InsertSignal, CountSignals, DecideDowngrade

(* The trail is empty until a row exists, and its end describes the row.       *)
TrailDescribesRow == (~Initialized => events = <<>>) /\ LastEventDescribesState

LEMMA TrailStep ==
  IInv /\ TrailDescribesRow /\ [Next]_vars => TrailDescribesRow'
<1> SUFFICES ASSUME IInv, TrailDescribesRow, [Next]_vars PROVE TrailDescribesRow'
  OBVIOUS
<1>1. CASE \A p \in Procs : ~Start(p) /\ ~CommitTransition(p)
  BY <1>1, OtherStepsKeepRow DEF TrailDescribesRow, LastEventDescribesState, Initialized
<1>2. ASSUME NEW p \in Procs, Start(p) PROVE TrailDescribesRow'
  <2>1. CASE ~Initialized
    <3>1. events' = <<>> /\ state' # NoRow
      BY <1>2, <2>1, InitialRowTyped, ModelValuesApart
      DEF Start, EnsureInitialState, Initialized, TrailDescribesRow
    <3> QED
      BY <3>1 DEF TrailDescribesRow, LastEventDescribesState, Initialized
  <2>2. CASE Initialized
    BY <1>2, <2>2 DEF Start, EnsureInitialState, Initialized, TrailDescribesRow,
                      LastEventDescribesState
  <2> QED
    BY <2>1, <2>2
<1>3. ASSUME NEW p \in Procs, CommitTransition(p) PROVE TrailDescribesRow'
  <2> DEFINE e == LoggedEvent(call[p].req, call[p].seen)
  <2>1. /\ state' = WrittenRow(call[p].req, call[p].seen) /\ state' # NoRow
        /\ events'[Len(events')] = e
    BY <1>3, CommitFacts
  <2>2. <<e.to, e.from, e.kill, e.lane_open, e.needs_ack>>
          = <<state'.mode, state'.previous_mode, state'.kill, state'.lane_open,
              state'.needs_ack>>
    BY <2>1 DEF LoggedEvent, WrittenRow
  <2> QED
    BY <2>1, <2>2 DEF TrailDescribesRow, LastEventDescribesState, Initialized
<1> QED
  BY <1>1, <1>2, <1>3

(* The newest audit row describes the row in force, for any interleaving.      *)
THEOREM AuditDescribesState == Spec => []LastEventDescribesState
<1>1. Init => TrailDescribesRow
  BY DEF Init, TrailDescribesRow, LastEventDescribesState
<1>2. TrailDescribesRow => LastEventDescribesState
  BY DEF TrailDescribesRow
<1> QED
  BY <1>1, <1>2, TrailStep, IInvHolds, PTL DEF Spec

(* No step changes the row without one more audit row.                         *)
THEOREM ChangesAudited == Spec => EveryChangeIsAudited
<1>1. IInv /\ [Next]_vars
        => [Initialized /\ state' # state => Len(events') = Len(events) + 1]_vars
  <2> SUFFICES ASSUME IInv, [Next]_vars, Initialized, state' # state
               PROVE  Len(events') = Len(events) + 1
    OBVIOUS
  <2>1. \A p \in Procs : ~Start(p)
    BY DEF Start, EnsureInitialState, Initialized
  <2>2. PICK p \in Procs : CommitTransition(p)
    BY <2>1, OtherStepsKeepRow
  <2> QED
    BY <2>2, CommitFacts
<1> QED
  BY <1>1, IInvHolds, PTL DEF Spec, EveryChangeIsAudited

(***************************************************************************)
(* One process.                                                            *)
(* When one process owns the database a call's reads cannot go stale, so   *)
(* the acknowledgement checked when setMode starts still binds the write.  *)
(* The runs RuntimeModeKill and RuntimeModeMany show that none of this     *)
(* survives a second process.                                              *)
(***************************************************************************)

OneProcess == \A p, q \in Procs : p = q

(* What a pending request may do to the row in force.  A downgrade is only      *)
(* pending while the system runs; any other call that leaves a latched stop     *)
(* carries an acknowledgement.                                                  *)
Permitted(req, row) ==
  /\ req.trigger = "rate_limit" =>
       /\ ~Stopped(row) /\ ~req.kill
       /\ req.to = Downgrade(row.mode) /\ Downgrade(row.mode) # row.mode
  /\ Stopped(row) /\ row.needs_ack /\ req.to \notin StopModes => req.ack

PendingPermitted ==
  \A p \in Procs :
    /\ call[p].pc \in {"called", "read"} => Permitted(call[p].req, state)
    /\ call[p].pc = "read" => call[p].seen = state

(* The trail is a chain that ends in the mode in force.                         *)
TrailEndsInMode ==
  /\ ~Initialized => events = <<>>
  /\ Initialized =>
       state.mode = IF events = <<>> THEN "observe" ELSE events[Len(events)].to
SingleInv == PendingPermitted /\ TrailEndsInMode /\ AuditTrailIsAChain

----------------------------------------------------------------------------
LEMMA InitSingle == Init => SingleInv
BY DEF Init, SingleInv, PendingPermitted, TrailEndsInMode, AuditTrailIsAChain, Down,
       Initialized

(* A step that gives the one process a new call and leaves the rest alone.      *)
LEMMA CallStepSingle ==
  ASSUME OneProcess, IInv, SingleInv, NEW p \in Procs, NEW c,
         call' = [call EXCEPT ![p] = c],
         c.pc \in {"called", "read"} => Permitted(c.req, state),
         c.pc = "read" => c.seen = state,
         UNCHANGED <<state, events>>
  PROVE  SingleInv'
BY DEF OneProcess, IInv, TypeOK, SingleInv, PendingPermitted, TrailEndsInMode,
       AuditTrailIsAChain, Initialized

(* A step that leaves calls, row and trail alone.                               *)
LEMMA StutterSingle ==
  ASSUME SingleInv, UNCHANGED <<state, events, call>>
  PROVE  SingleInv'
BY DEF SingleInv, PendingPermitted, TrailEndsInMode, AuditTrailIsAChain, Initialized

LEMMA InvokeSingle ==
  ASSUME OneProcess, IInv, SingleInv, NEW p \in Procs, NEW req,
         Permitted(req, state), Invoke(p, req)
  PROVE  SingleInv'
<1>1. Called(req).pc = "called" /\ Called(req).req = req
  BY DEF Called
<1> QED
  BY <1>1, CallStepSingle DEF Invoke

LEMMA SetModeSingle ==
  ASSUME OneProcess, IInv, SingleInv, NEW p \in Procs, NEW to, NEW ack \in BOOLEAN,
         NEW trigger \in {"manual", "restore"}, NEW cooldown,
         SetMode(p, to, trigger, ack, cooldown)
  PROVE  SingleInv'
<1> DEFINE req == [to |-> to, kill |-> FALSE, needs_ack |-> FALSE, trigger |-> trigger,
                   cooldown |-> cooldown, ack |-> ack]
<1>1. Permitted(req, state)
  BY DEF SetMode, AckMissing, Permitted
<1> QED
  BY <1>1, InvokeSingle DEF SetMode

LEMMA CommitSingle ==
  ASSUME OneProcess, IInv, SingleInv, NEW p \in Procs, CommitTransition(p)
  PROVE  SingleInv'
<1>1. /\ call[p].seen = state /\ Initialized
      /\ state' = WrittenRow(call[p].req, state) /\ state' # NoRow
      /\ events \in Seq(LogRows) /\ events' \in Seq(LogRows)
      /\ Len(events') = Len(events) + 1
      /\ events'[Len(events')] = LoggedEvent(call[p].req, state)
      /\ \A i \in DOMAIN events : events'[i] = events[i]
  <2>1. call[p].seen = state
    BY DEF CommitTransition, SingleInv, PendingPermitted
  <2>2. events \in Seq(LogRows) /\ LoggedEvent(call[p].req, call[p].seen) \in LogRows
    BY CommitFacts, LoggedEventTyped DEF IInv, TypeOK
  <2>3. events' \in Seq(LogRows)
    <3> HIDE DEF LogRows
    <3> QED BY <2>2, CommitFacts
  <2> QED
    BY <2>1, <2>2, <2>3, CommitFacts
<1>2. PendingPermitted'
  <2>1. call' = [call EXCEPT ![p] = Idle] /\ call \in [Procs -> Calls]
    BY DEF CommitTransition, IInv, TypeOK
  <2>2. \A q \in Procs : call'[q].pc = "idle"
    BY <2>1 DEF OneProcess, Idle
  <2> QED
    BY <2>2 DEF PendingPermitted
<1> HIDE DEF LogRows
<1>3. state'.mode = call[p].req.to /\ events'[Len(events')].to = call[p].req.to
      /\ events'[Len(events')].from = state.mode
  BY <1>1 DEF WrittenRow, LoggedEvent
<1>4. events' # <<>>
  BY <1>1
<1>5. TrailEndsInMode'
  BY <1>1, <1>3, <1>4 DEF TrailEndsInMode, Initialized
<1>6. AuditTrailIsAChain'
  <2> SUFFICES ASSUME NEW i \in DOMAIN events'
               PROVE  events'[i].from = IF i = 1 THEN "observe" ELSE events'[i - 1].to
    BY DEF AuditTrailIsAChain
  <2>1. CASE i \in DOMAIN events
    BY <1>1, <2>1 DEF SingleInv, AuditTrailIsAChain
  <2>2. CASE i \notin DOMAIN events
    <3>1. i = Len(events) + 1
      BY <1>1, <2>2
    <3>2. events = <<>> <=> Len(events) = 0
      BY <1>1
    <3>3. state.mode = IF i = 1 THEN "observe" ELSE events[i - 1].to
      BY <1>1, <3>1, <3>2 DEF SingleInv, TrailEndsInMode
    <3>4. i # 1 => events'[i - 1] = events[i - 1]
      BY <1>1, <3>1
    <3> QED
      BY <1>1, <1>3, <3>1, <3>3, <3>4
  <2> QED
    BY <2>1, <2>2
<1> QED
  BY <1>2, <1>5, <1>6 DEF SingleInv

LEMMA DecideSingle ==
  ASSUME OneProcess, IInv, SingleInv, NEW p \in Procs, DecideDowngrade(p)
  PROVE  SingleInv'
<1>1. state \in Rows /\ RowShape(state)
  BY DEF DecideDowngrade, IInv, RunningHasRow, Initialized, TypeOK, Down, StateShaped
<1> DEFINE req == [to |-> Downgrade(state.mode), kill |-> FALSE,
                   needs_ack |-> state.needs_ack, trigger |-> "rate_limit",
                   cooldown |-> KeepCooldown, ack |-> FALSE]
<1>2. Idle.pc = "idle" /\ Called(req).pc = "called" /\ Called(req).req = req
  BY DEF Idle, Called
<1>3. CASE Downgrade(state.mode) = state.mode
  <2>1. call' = [call EXCEPT ![p] = Idle] /\ UNCHANGED <<state, events>>
    BY <1>3 DEF DecideDowngrade
  <2> QED
    BY <1>2, <2>1, CallStepSingle
<1>4. CASE Downgrade(state.mode) # state.mode
  <2>1. ~Stopped(state)
    BY <1>1, <1>4 DEF Stopped, RowShape, Downgrade, StopModes, LaneModes
  <2>2. Permitted(req, state)
    BY <1>4, <2>1 DEF Permitted
  <2>3. call' = [call EXCEPT ![p] = Called(req)]
    BY <1>4 DEF DecideDowngrade
  <2>4. UNCHANGED <<state, events>>
    BY DEF DecideDowngrade
  <2> HIDE DEF req
  <2>5. Called(req).pc \notin {"read"}
    BY <1>2
  <2> QED
    BY <1>2, <2>2, <2>3, <2>4, <2>5, CallStepSingle
<1> QED
  BY <1>3, <1>4

LEMMA StartSingle ==
  ASSUME OneProcess, IInv, SingleInv, NEW p \in Procs, Start(p)
  PROVE  SingleInv'
<1>1. call' = [call EXCEPT ![p] = Idle] /\ Idle.pc = "idle" /\ events' = events
  BY DEF Start, Idle
<1>2. CASE Initialized
  BY <1>1, <1>2, CallStepSingle DEF Start, EnsureInitialState, Initialized
<1>3. CASE ~Initialized
  <2>1. state' = InitialRow /\ events' = <<>> /\ events = <<>>
    BY <1>1, <1>3 DEF Start, EnsureInitialState, Initialized, SingleInv, TrailEndsInMode
  <2>2. \A q \in Procs : call'[q].pc = "idle"
    BY <1>1 DEF OneProcess, IInv, TypeOK
  <2>3. state' # NoRow /\ state'.mode = "observe"
    BY <2>1, InitialRowTyped, ModelValuesApart DEF InitialRow
  <2> QED
    BY <2>1, <2>2, <2>3 DEF SingleInv, PendingPermitted, TrailEndsInMode,
                            AuditTrailIsAChain, Initialized
<1> QED
  BY <1>2, <1>3

LEMMA NextSingle == OneProcess /\ IInv /\ SingleInv /\ [Next]_vars => SingleInv'
<1> SUFFICES ASSUME OneProcess, IInv, SingleInv, [Next]_vars PROVE SingleInv'
  OBVIOUS
<1>1. CASE UNCHANGED vars \/ Tick
  BY <1>1, StutterSingle DEF vars, Tick
<1>2. ASSUME NEW p \in Procs, Crash(p) PROVE SingleInv'
  BY <1>2, CallStepSingle DEF Crash, Down
<1>3. ASSUME NEW p \in Procs, ReadCurrent(p) PROVE SingleInv'
  <2>1. /\ Read(call[p].req, state).pc = "read" /\ Read(call[p].req, state).seen = state
        /\ Read(call[p].req, state).req = call[p].req
    BY DEF Read
  <2>2. Permitted(call[p].req, state)
    BY <1>3 DEF ReadCurrent, SingleInv, PendingPermitted
  <2> QED
    BY <1>3, <2>1, <2>2, CallStepSingle DEF ReadCurrent
<1>4. ASSUME NEW p \in Procs, ActivateKillSwitch(p) \/ EnterQuarantine(p) PROVE SingleInv'
  <2>1. \A req : /\ req.trigger \in {"kill_switch", "policy_breach"} /\ req.to \in StopModes
                 => Permitted(req, state)
    BY DEF Permitted
  <2> QED
    BY <1>4, <2>1, InvokeSingle DEF ActivateKillSwitch, EnterQuarantine, StopModes
<1>5. ASSUME NEW p \in Procs, NEW repo \in SignalRepos, RateLimited(p, repo)
      PROVE SingleInv'
  BY <1>5, CallStepSingle DEF RateLimited, Signalling
<1>6. ASSUME NEW p \in Procs, InsertSignal(p) PROVE SingleInv'
  BY <1>6, CallStepSingle DEF InsertSignal, Signalling
<1>7. ASSUME NEW p \in Procs, CountSignals(p) PROVE SingleInv'
  <2>1. PICK c \in {Signalling("over", call[p].repo, call[p].at), Idle} :
          call' = [call EXCEPT ![p] = c]
    BY <1>7 DEF CountSignals
  <2>2. c.pc \notin {"called", "read"}
    BY <2>1 DEF Signalling, Idle
  <2> QED
    BY <1>7, <2>1, <2>2, CallStepSingle DEF CountSignals
<1> QED
  BY <1>1, <1>2, <1>3, <1>4, <1>5, <1>6, <1>7, StartSingle, SetModeSingle, CommitSingle,
     DecideSingle DEF Next, RestoreMode

THEOREM SingleHolds == ASSUME OneProcess PROVE Spec => [](IInv /\ SingleInv)
BY InitSingle, NextSingle, InitIInv, NextIInv, PTL DEF Spec

----------------------------------------------------------------------------
(* A call that returns from a pending write has committed it.                   *)
LEMMA CommitsIsCommit ==
  ASSUME IInv, [Next]_vars, NEW p \in Procs, Commits(p)
  PROVE  CommitTransition(p)
<1>1. call[p].pc = "read" /\ call'[p] = Idle /\ Idle.pc = "idle" /\ Down.pc = "down"
      /\ call \in [Procs -> Calls] /\ Idle # Down
  BY DEF Commits, Idle, Down, IInv, TypeOK
<1>2. ASSUME NEW q \in Procs, NEW c, call' = [call EXCEPT ![q] = c]
      PROVE  q = p /\ c = Idle
  BY <1>1, <1>2
<1>3. ~(UNCHANGED vars \/ Tick)
  BY <1>1 DEF vars, Tick
<1>4. ASSUME NEW q \in Procs PROVE ~Start(q) /\ ~Crash(q)
  BY <1>1, <1>2 DEF Start, Crash
<1>5. ASSUME NEW q \in Procs, NEW req PROVE ~Invoke(q, req)
  BY <1>1, <1>2 DEF Invoke
<1>6. ASSUME NEW q \in Procs, NEW repo PROVE ~RateLimited(q, repo)
  BY <1>1, <1>2 DEF RateLimited
<1>7. ASSUME NEW q \in Procs
      PROVE  ~ReadCurrent(q) /\ ~InsertSignal(q)
  BY <1>1, <1>2 DEF ReadCurrent, InsertSignal
<1>8. ASSUME NEW q \in Procs, CountSignals(q) \/ DecideDowngrade(q) PROVE FALSE
  <2>1. PICK c : call' = [call EXCEPT ![q] = c] /\ call[q].pc \in {"counting", "over"}
    BY <1>8 DEF CountSignals, DecideDowngrade
  <2> QED
    BY <1>1, <1>2, <2>1
<1>9. PICK q \in Procs : CommitTransition(q)
  BY <1>3, <1>4, <1>5, <1>6, <1>7, <1>8
  DEF Next, SetMode, RestoreMode, ActivateKillSwitch, EnterQuarantine
<1> QED
  BY <1>2, <1>9 DEF CommitTransition

(* What a commit does when one process owns the row.                            *)
LEMMA CommitPermitted ==
  ASSUME IInv, SingleInv, NEW p \in Procs, CommitTransition(p)
  PROVE  /\ Permitted(call[p].req, state) /\ Initialized /\ state' # NoRow
         /\ state' = WrittenRow(call[p].req, state)
         /\ state \in Rows /\ call[p].req \in Requests /\ RequestShape(call[p].req)
<1>1. Permitted(call[p].req, state) /\ call[p].seen = state
  BY DEF CommitTransition, SingleInv, PendingPermitted
<1>2. RequestShape(call[p].req)
  BY DEF CommitTransition, IInv, RequestsShaped
<1>3. state \in Rows
  BY CommitFacts DEF IInv, TypeOK, Initialized
<1> QED
  BY <1>1, <1>2, <1>3, CommitFacts

(* The audit trail of one process is a chain.                                   *)
THEOREM AuditTrailChains == ASSUME OneProcess PROVE Spec => []AuditTrailIsAChain
<1>1. SingleInv => AuditTrailIsAChain
  BY DEF SingleInv
<1> QED
  BY <1>1, SingleHolds, PTL

(* A latched stop is only left by an acknowledged call.                         *)
THEOREM LatchedStops == ASSUME OneProcess PROVE Spec => LatchedStopNeedsAck
<1>1. IInv /\ SingleInv /\ [Next]_vars
        => [\A p \in Procs :
              Commits(p) /\ Stopped(state) /\ state.needs_ack /\ ~Stopped(state')
                => call[p].req.ack]_vars
  <2> SUFFICES ASSUME IInv, SingleInv, [Next]_vars, NEW p \in Procs, Commits(p),
                      Stopped(state), state.needs_ack, ~Stopped(state')
               PROVE  call[p].req.ack
    OBVIOUS
  <2>1. CommitTransition(p)
    BY CommitsIsCommit
  <2>2. call[p].req.to \notin StopModes
    BY <2>1, CommitPermitted DEF WrittenRow, Stopped
  <2> QED
    BY <2>1, <2>2, CommitPermitted DEF Permitted
<1> QED
  BY <1>1, SingleHolds, PTL DEF Spec, LatchedStopNeedsAck

(* A rate-limit downgrade never stops, restores or raises anything.             *)
THEOREM DowngradesLower == ASSUME OneProcess PROVE Spec => DowngradeOnlyLowers
<1>1. IInv /\ SingleInv /\ [Next]_vars
        => [\A p \in Procs :
              Commits(p) /\ call[p].req.trigger = "rate_limit"
                => /\ ~Stopped(state)
                   /\ Rank(state'.mode) < Rank(state.mode) /\ ~state'.lane_open]_vars
  <2> SUFFICES ASSUME IInv, SingleInv, [Next]_vars, NEW p \in Procs, Commits(p),
                      call[p].req.trigger = "rate_limit"
               PROVE  /\ ~Stopped(state)
                      /\ Rank(state'.mode) < Rank(state.mode) /\ ~state'.lane_open
    OBVIOUS
  <2>1. CommitTransition(p)
    BY CommitsIsCommit
  <2>2. /\ ~Stopped(state) /\ state.mode \in Modes
        /\ state'.mode = Downgrade(state.mode) /\ state'.mode # state.mode
        /\ state'.lane_open = (~call[p].req.kill /\ state'.mode \in LaneModes)
    BY <2>1, CommitPermitted DEF Permitted, WrittenRow, LaneOpen, Rows
  <2>3. state.mode \in {"propose", "evolve", "federate"}
    BY <2>2 DEF Downgrade, Modes, LaneModes
  <2>4. state'.mode = IF state.mode = "propose" THEN "observe" ELSE "propose"
    BY <2>2, <2>3 DEF Downgrade, LaneModes
  <2>5. /\ Rank("observe") = 1 /\ Rank("propose") = 2
        /\ Rank("evolve") = 3 /\ Rank("federate") = 4
    BY DEF Rank
  <2>6. Rank(state'.mode) < Rank(state.mode)
    BY <2>3, <2>4, <2>5
  <2>7. ~state'.lane_open
    BY <2>2, <2>4 DEF LaneModes
  <2> QED
    BY <2>2, <2>6, <2>7
<1> QED
  BY <1>1, SingleHolds, PTL DEF Spec, DowngradeOnlyLowers

(* The only steps that end a call after its signal was counted.                 *)
LEMMA EndOfSignal ==
  ASSUME IInv, [Next]_vars, NEW p \in Procs, call[p].pc \in {"counting", "over"},
         call'[p] = Idle
  PROVE  CountSignals(p) \/ DecideDowngrade(p)
<1>1. Idle.pc = "idle" /\ Down.pc = "down" /\ Idle # Down /\ call \in [Procs -> Calls]
  BY DEF Idle, Down, IInv, TypeOK
<1>2. ASSUME NEW q \in Procs, NEW c, call' = [call EXCEPT ![q] = c]
      PROVE  q = p
  BY <1>1, <1>2
<1>3. ~(UNCHANGED vars \/ Tick)
  BY <1>1 DEF vars, Tick
<1>4. ASSUME NEW q \in Procs PROVE ~Start(q) /\ ~Crash(q)
  BY <1>1, <1>2 DEF Start, Crash
<1>5. ASSUME NEW q \in Procs, NEW req PROVE ~Invoke(q, req)
  BY <1>1, <1>2 DEF Invoke
<1>6. ASSUME NEW q \in Procs, NEW repo PROVE ~RateLimited(q, repo)
  BY <1>1, <1>2 DEF RateLimited
<1>7. ASSUME NEW q \in Procs
      PROVE  ~ReadCurrent(q) /\ ~CommitTransition(q) /\ ~InsertSignal(q)
  BY <1>1, <1>2 DEF ReadCurrent, CommitTransition, InsertSignal
<1>8. PICK q \in Procs : CountSignals(q) \/ DecideDowngrade(q)
  BY <1>3, <1>4, <1>5, <1>6, <1>7
  DEF Next, SetMode, RestoreMode, ActivateKillSwitch, EnterQuarantine
<1>9. q = p
  <2>1. PICK c : call' = [call EXCEPT ![q] = c]
    BY <1>8 DEF CountSignals, DecideDowngrade
  <2> QED
    BY <1>2, <2>1
<1> QED
  BY <1>8, <1>9

(* When a repeated signal's call returns, the mutating lane is closed.          *)
THEOREM RepeatedSignalsClose ==
  ASSUME OneProcess PROVE Spec => RepeatedSignalsCloseTheLane
<1>1. IInv /\ SingleInv /\ [Next]_vars
        => [\A p \in Procs :
              /\ \/ call[p].pc \in {"counting", "over"} /\ Repeated(call[p].at, call[p].repo)
                 \/ call[p].pc = "read" /\ call[p].req.trigger = "rate_limit"
              /\ call'[p] = Idle
              => ~state'.lane_open]_vars
  <2> SUFFICES ASSUME IInv, SingleInv, [Next]_vars, NEW p \in Procs, call'[p] = Idle,
                      \/ /\ call[p].pc \in {"counting", "over"}
                         /\ Repeated(call[p].at, call[p].repo)
                      \/ call[p].pc = "read" /\ call[p].req.trigger = "rate_limit"
               PROVE  ~state'.lane_open
    OBVIOUS
  <2>1. CASE call[p].pc = "read" /\ call[p].req.trigger = "rate_limit"
    <3>1. CommitTransition(p)
      BY <2>1, CommitsIsCommit DEF Commits
    <3>2. /\ Downgrade(state.mode) = call[p].req.to /\ ~Stopped(state)
          /\ Downgrade(state.mode) # state.mode
          /\ state'.lane_open = (~call[p].req.kill /\ call[p].req.to \in LaneModes)
      BY <2>1, <3>1, CommitPermitted DEF Permitted, WrittenRow, LaneOpen
    <3>3. Downgrade(state.mode) \notin LaneModes
      BY <3>2 DEF Downgrade, LaneModes
    <3> QED
      BY <3>2, <3>3
  <2>2. CASE call[p].pc \in {"counting", "over"} /\ Repeated(call[p].at, call[p].repo)
    <3>1. CASE CountSignals(p)
      <4>1. call'[p] = Signalling("over", call[p].repo, call[p].at)
        BY <2>2, <3>1 DEF CountSignals, IInv, TypeOK
      <4> QED
        BY <4>1 DEF Signalling, Idle
    <3>2. CASE DecideDowngrade(p)
      <4>1. state \in Rows /\ RowShape(state) /\ state' = state
        BY <3>2 DEF DecideDowngrade, IInv, RunningHasRow, Initialized, TypeOK, Down,
                    StateShaped
      <4>2. Downgrade(state.mode) = state.mode
        BY <3>2 DEF DecideDowngrade, IInv, TypeOK, Called, Idle
      <4>3. state.mode \notin LaneModes
        BY <4>2 DEF Downgrade, LaneModes
      <4> QED
        BY <4>1, <4>3 DEF RowShape
    <3> QED
      BY <2>2, <3>1, <3>2, EndOfSignal
  <2> QED
    BY <2>1, <2>2
<1> QED
  BY <1>1, SingleHolds, PTL DEF Spec, RepeatedSignalsCloseTheLane

----------------------------------------------------------------------------
(* One process implements StopLatch.                                            *)

LEMMA CallsAreDemands ==
  ASSUME NEW c \in [Procs -> Calls]
  PROVE  {Demanded(c[p].req) : p \in {q \in Procs : c[q].pc \in {"called", "read"}}} \in SUBSET Latch!Demands
<1>1. ASSUME NEW p \in Procs, c[p].pc \in {"called", "read"} PROVE Demanded(c[p].req) \in Latch!Demands
  <2>1. c[p].req \in Requests
    BY <1>1, CalledIsRequest, ReadIsRequest
  <2> QED
    BY <2>1 DEF Demanded, Latch!Demands, Requests
<1> QED
  BY <1>1

(* Steps of the controller that leave the row alone only ever move calls.       *)
LEMMA RowKeptIsCall ==
  ASSUME state' = state
  PROVE  Latch!Call
BY DEF Latch!Call, Initialized

LEMMA CommitImplements ==
  ASSUME IInv, SingleInv, NEW p \in Procs, CommitTransition(p)
  PROVE  Latch!Latch \/ Latch!Park \/ Latch!Run \/ Latch!Release \/ Latch!Lower
<1> DEFINE req == call[p].req
           calls == {Demanded(call[q].req) : q \in {q \in Procs : call[q].pc \in {"called", "read"}}}
<1>1. /\ Initialized /\ Initialized' /\ Permitted(req, state) /\ req \in Requests
      /\ RequestShape(req)
      /\ state'.mode = req.to /\ state'.kill = req.kill
      /\ state'.needs_ack = req.needs_ack
      /\ state'.lane_open = LaneOpen(req)
  BY CommitPermitted DEF WrittenRow, Initialized
<1>2. Demanded(req) \in calls
  BY DEF CommitTransition
<1>3. state'.lane_open \in BOOLEAN /\ (req.to \in StopModes => ~state'.lane_open)
  BY <1>1 DEF LaneOpen, StopModes, LaneModes
<1>4. (req.to \in StopModes => Stopped(state')) /\ (req.to \notin StopModes => ~Stopped(state'))
  BY <1>1 DEF Stopped, RequestShape, StopModes
<1> HIDE DEF req
<1>5. CASE req.trigger \in {"kill_switch", "policy_breach"}
  <2>1. "latch" \in calls
    BY <1>2, <1>5 DEF Demanded
  <2>2. Stopped(state') /\ state'.needs_ack /\ ~state'.lane_open
    BY <1>1, <1>3, <1>4, <1>5 DEF RequestShape
  <2> QED
    BY <1>1, <2>1, <2>2 DEF Latch!Latch
<1>6. CASE req.trigger = "rate_limit"
  <2>1. "lower" \in calls
    BY <1>2, <1>6 DEF Demanded
  <2>2. ~Stopped(state) /\ req.to \in {"observe", "propose"}
    BY <1>1, <1>6 DEF Permitted, Downgrade, Stopped, StopModes, Requests, Modes
  <2>3. ~Stopped(state') /\ ~state'.lane_open
    BY <1>1, <1>4, <2>2 DEF StopModes, LaneOpen, LaneModes
  <2> QED
    BY <1>1, <1>3, <2>1, <2>2, <2>3 DEF Latch!Lower
<1>7. CASE req.trigger \in {"manual", "restore"} /\ req.to \in StopModes
  <2>1. "park" \in calls
    BY <1>2, <1>7 DEF Demanded
  <2>2. Stopped(state') /\ ~state'.needs_ack /\ ~state'.lane_open
    BY <1>1, <1>3, <1>4, <1>7 DEF RequestShape
  <2> QED
    BY <1>1, <2>1, <2>2 DEF Latch!Park
<1>8. CASE req.trigger \in {"manual", "restore"} /\ req.to \notin StopModes
  <2>1. IF req.ack THEN "release" \in calls ELSE "run" \in calls
    BY <1>2, <1>8 DEF Demanded
  <2>2. ~Stopped(state') /\ (Stopped(state) /\ state.needs_ack => req.ack)
    BY <1>1, <1>4, <1>8 DEF Permitted
  <2> QED
    BY <1>1, <1>3, <2>1, <2>2 DEF Latch!Run, Latch!Release
<1> QED
  BY <1>1, <1>5, <1>6, <1>7, <1>8 DEF Requests

LEMMA StartImplements ==
  ASSUME IInv, NEW p \in Procs, Start(p)
  PROVE  Latch!Call
<1>1. CASE Initialized
  BY <1>1, RowKeptIsCall DEF Start, EnsureInitialState, Initialized
<1>2. CASE ~Initialized
  <2>1. state' = InitialRow
    BY <1>2 DEF Start, EnsureInitialState, Initialized
  <2>2. ~Stopped(state') /\ state'.lane_open = FALSE
    BY <2>1 DEF InitialRow, Stopped, StopModes
  <2> QED
    BY <1>2, <2>2 DEF Latch!Call
<1> QED
  BY <1>1, <1>2

(* One controller process refines the latch: initial states and every step.     *)
THEOREM SingleImplementsLatch == ASSUME OneProcess PROVE Spec => ImplementsStopLatch
<1>1. Init => Latch!Init
  BY DEF Init, Latch!Init, Initialized, Down
<1>2. IInv /\ SingleInv /\ [Next]_vars => [Latch!Next]_(Latch!vars)
  <2> SUFFICES ASSUME IInv, SingleInv, [Next]_vars PROVE Latch!Next
    OBVIOUS
  <2>1. call' \in [Procs -> Calls]
    BY NextIInv DEF IInv, TypeOK
  <2>2. {Demanded(call[p].req) : p \in {q \in Procs : call[q].pc \in {"called", "read"}}}' \in SUBSET Latch!Demands
    BY <2>1, CallsAreDemands
  <2>3. CASE \A p \in Procs : ~Start(p) /\ ~CommitTransition(p)
    BY <2>2, <2>3, OtherStepsKeepRow, RowKeptIsCall DEF Latch!Next
  <2> QED
    BY <2>2, <2>3, StartImplements, CommitImplements DEF Latch!Next
<1> QED
  BY <1>1, <1>2, SingleHolds, PTL DEF Spec, ImplementsStopLatch, Latch!Spec
=============================================================================
