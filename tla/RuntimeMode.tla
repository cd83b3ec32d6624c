---------------------------- MODULE RuntimeMode ----------------------------
(* The runtime-mode controller of the GitHub App and the SQLite row it keeps.  *)
(* Several Node processes may hold a connection to the same database file      *)
(* (WAL, busy_timeout).  Inside one process a call is synchronous; between     *)
(* processes every SQL statement is a step of its own, so what a call read may *)
(* be stale when the call writes.                                              *)
EXTENDS Naturals, Sequences, FiniteSets, RuntimePolicy

CONSTANTS
  Procs,              \* processes that opened the runtime database
  Repos,              \* repository names a rate-limit signal can carry
  NullRepo, AnyRepo,  \* repositoryFullName given as null / left undefined
  TargetModes,        \* modes a caller asks setMode for
  Cooldowns,          \* dates a caller of setMode can pass as cooldownUntil
  NoCooldown, KeepCooldown,  \* cooldownUntil given as null / left undefined
  NoRow,              \* the state table before the first process initialised it
  Window,             \* RATE_LIMIT_WINDOW_MS, in clock ticks
  MaxNow, MaxSignals, MaxEvents   \* bounds: clock, signal rows, audit rows

Threshold == 2        \* RATE_LIMIT_DOWNGRADE_THRESHOLD

NoMode == "none"      \* the NULL of previous_mode

StoredRepos == Repos \cup {NullRepo}
SignalRepos == StoredRepos \cup {AnyRepo}
StoredCooldowns == Cooldowns \cup {NoCooldown}

Rows == [mode : Modes, previous_mode : Modes \cup {NoMode}, kill : BOOLEAN,
         lane_open : BOOLEAN, needs_ack : BOOLEAN, cooldown : StoredCooldowns]

ASSUME ModelValuesApart ==
  /\ NoRow \notin Rows
  /\ AnyRepo \notin StoredRepos /\ NullRepo \notin Repos
  /\ KeepCooldown \notin StoredCooldowns /\ NoCooldown \notin Cooldowns
ASSUME TargetsAreModes == TargetModes \subseteq Modes
ASSUME BoundsAreNaturals ==
  {Window, MaxNow, MaxSignals, MaxEvents} \subseteq Nat

VARIABLES
  state,     \* forge_runtime_state: the row with singleton_id = 1, or NoRow
  events,    \* forge_runtime_mode_events, in event_id order
  signals,   \* forge_runtime_rate_limit_signals, in signal_id order
  now,       \* the wall clock the processes read
  call       \* call[p]: the controller call process p is inside, if any

vars == <<state, events, signals, now, call>>

----------------------------------------------------------------------------

Downgrade(m) == CASE m \in LaneModes  -> "propose"
                  [] m = "propose"    -> "observe"
                  [] OTHER            -> m

EventType(trigger, to) ==
  IF trigger = "kill_switch" THEN "kill_switch_engaged"
  ELSE IF trigger = "restore" THEN "runtime_mode_restored"
  ELSE IF trigger = "rate_limit" THEN "runtime_mode_downgraded"
  ELSE IF to = "quarantine" THEN "quarantine_entered" ELSE "runtime_mode_changed"

Stopped(row) == row.mode \in StopModes \/ row.kill

(* leavingStop and the acknowledgement it asks for, in setMode.               *)
AckMissing(row, to, ack) ==
  Stopped(row) /\ to \notin StopModes /\ row.needs_ack /\ ~ack

InitialRow == [mode |-> "observe", previous_mode |-> NoMode, kill |-> FALSE,
               lane_open |-> FALSE, needs_ack |-> FALSE, cooldown |-> NoCooldown]

(* Mutant: INSERT OR REPLACE.                                                 *)
ResetInitialState(row) == InitialRow

(* INSERT OR IGNORE: an existing row survives the restart of a process.       *)
EnsureInitialState(row) == IF row = NoRow THEN InitialRow ELSE row

LaneOpen(req) == ~req.kill /\ req.to \in LaneModes

(* Mutant: the lane column is left out of the UPDATE.                          *)
WrittenRowLaneKept(req, seen) ==
  [seen EXCEPT !.mode = req.to, !.previous_mode = seen.mode, !.kill = req.kill,
               !.needs_ack = req.needs_ack]

(* Mutant: the INSERT logs the previous row's own previous mode.               *)
LoggedEventFromPrevious(req, seen) ==
  [type |-> EventType(req.trigger, req.to), from |-> seen.previous_mode, to |-> req.to,
   kill |-> req.kill, lane_open |-> LaneOpen(req), needs_ack |-> req.needs_ack,
   trigger |-> req.trigger]

(* The statements of writeTransition: the UPDATE takes mode, kill switch and   *)
(* acknowledgement from the request, previous_mode and an undefined cooldown   *)
(* from the row read BEFORE the transaction; the INSERT logs the same values.  *)
WrittenRow(req, seen) ==
  [mode |-> req.to, previous_mode |-> seen.mode, kill |-> req.kill,
   lane_open |-> LaneOpen(req), needs_ack |-> req.needs_ack,
   cooldown |-> IF req.cooldown = KeepCooldown THEN seen.cooldown ELSE req.cooldown]

LoggedEvent(req, seen) ==
  [type |-> EventType(req.trigger, req.to), from |-> seen.mode, to |-> req.to,
   kill |-> req.kill, lane_open |-> LaneOpen(req), needs_ack |-> req.needs_ack,
   trigger |-> req.trigger]

(* countRateLimitSignalsSince: an undefined repository counts every row, null  *)
(* only the rows stored with null.                                             *)
SignalsInWindow(at, repo) ==
  { i \in DOMAIN signals :
      /\ signals[i].at <= at /\ at <= signals[i].at + Window
      /\ repo = AnyRepo \/ signals[i].repo = repo }
Repeated(at, repo) == Cardinality(SignalsInWindow(at, repo)) >= Threshold

----------------------------------------------------------------------------
(* The call a process is inside.  pc: down (not running), idle, then           *)
(*   called  -> read  -> idle           writeTransition with request req       *)
(*   signal  -> counting -> over -> ... recordRateLimitSignal                  *)

Requests == [to : Modes, kill : BOOLEAN, needs_ack : BOOLEAN,
             trigger : {"manual", "restore", "kill_switch", "policy_breach", "rate_limit"},
             cooldown : StoredCooldowns \cup {KeepCooldown}, ack : BOOLEAN]

Down == [pc |-> "down"]
Idle == [pc |-> "idle"]
Called(req) == [pc |-> "called", req |-> req]
Read(req, seen) == [pc |-> "read", req |-> req, seen |-> seen]
Signalling(pc, repo, at) == [pc |-> pc, repo |-> repo, at |-> at]

Calls == {Down, Idle}
  \cup { Called(req) : req \in Requests }
  \cup [pc : {"read"}, req : Requests, seen : Rows]
  \cup [pc : {"signal", "counting", "over"}, repo : SignalRepos, at : Nat]

Init ==
  /\ state = NoRow
  /\ events = <<>> /\ signals = <<>>
  /\ now = 0
  /\ call = [p \in Procs |-> Down]

Start(p) ==
  /\ call[p] = Down
  /\ state' = EnsureInitialState(state)
  /\ call' = [call EXCEPT ![p] = Idle]
  /\ UNCHANGED <<events, signals, now>>

(* The process dies between two statements: an open transaction rolls back,    *)
(* what it had committed stays.                                                *)
Crash(p) ==
  /\ call[p] # Down
  /\ call' = [call EXCEPT ![p] = Down]
  /\ UNCHANGED <<state, events, signals, now>>

Invoke(p, req) ==
  /\ call[p] = Idle
  /\ call' = [call EXCEPT ![p] = Called(req)]
  /\ UNCHANGED <<state, events, signals, now>>

(* setMode: the snapshot is read and checked here, the write comes later.  A   *)
(* refused call changes nothing and is not a step.                             *)
SetMode(p, to, trigger, ack, cooldown) ==
  /\ call[p] = Idle /\ ~AckMissing(state, to, ack)
  /\ Invoke(p, [to |-> to, kill |-> FALSE, needs_ack |-> FALSE,
                trigger |-> trigger, cooldown |-> cooldown, ack |-> ack])

(* restoreMode: setMode with its own trigger, no cooldown argument, and a type *)
(* that keeps the stop modes out of its targets.                               *)
RestoreMode(p, to, ack) ==
  /\ to \notin StopModes
  /\ SetMode(p, to, "restore", ack, KeepCooldown)

(* Mutant: the kill switch leaves the mode as it is.                           *)
ActivateKillSwitchOnly(p) ==
  Invoke(p, [to |-> state.mode, kill |-> TRUE, needs_ack |-> TRUE,
             trigger |-> "kill_switch", cooldown |-> KeepCooldown, ack |-> FALSE])

ActivateKillSwitch(p) ==
  Invoke(p, [to |-> "halted", kill |-> TRUE, needs_ack |-> TRUE,
             trigger |-> "kill_switch", cooldown |-> KeepCooldown, ack |-> FALSE])

EnterQuarantine(p) ==
  Invoke(p, [to |-> "quarantine", kill |-> FALSE, needs_ack |-> TRUE,
             trigger |-> "policy_breach", cooldown |-> KeepCooldown, ack |-> FALSE])

(* writeTransition, line by line: getSnapshot outside the transaction, then    *)
(* UPDATE and INSERT inside one BEGIN IMMEDIATE transaction.                   *)
ReadCurrent(p) ==
  /\ call[p].pc = "called"
  /\ call' = [call EXCEPT ![p] = Read(call[p].req, state)]
  /\ UNCHANGED <<state, events, signals, now>>

(* Mutant: the INSERT is committed without the UPDATE.                         *)
CommitEventOnly(p) ==
  /\ call[p].pc = "read"
  /\ Len(events) < MaxEvents
  /\ events' = Append(events, LoggedEvent(call[p].req, call[p].seen))
  /\ call' = [call EXCEPT ![p] = Idle]
  /\ UNCHANGED <<state, signals, now>>

CommitTransition(p) ==
  /\ call[p].pc = "read"
  /\ Len(events) < MaxEvents
  /\ state' = WrittenRow(call[p].req, call[p].seen)
  /\ events' = Append(events, LoggedEvent(call[p].req, call[p].seen))
  /\ call' = [call EXCEPT ![p] = Idle]
  /\ UNCHANGED <<signals, now>>

(* recordRateLimitSignal: take the time, insert the signal, count the window,  *)
(* read the row, and only then decide the mode to write.                       *)
RateLimited(p, repo) ==
  /\ call[p] = Idle
  /\ call' = [call EXCEPT ![p] = Signalling("signal", repo, now)]
  /\ UNCHANGED <<state, events, signals, now>>

InsertSignal(p) ==
  /\ call[p].pc = "signal"
  /\ Len(signals) < MaxSignals
  /\ signals' = Append(signals,
       [at |-> call[p].at,
        repo |-> IF call[p].repo = AnyRepo THEN NullRepo ELSE call[p].repo])
  /\ call' = [call EXCEPT ![p] = Signalling("counting", call[p].repo, call[p].at)]
  /\ UNCHANGED <<state, events, now>>

(* Mutant: more than the threshold instead of at least.                        *)
CountSignalsAbove(p) ==
  /\ call[p].pc = "counting"
  /\ call' = [call EXCEPT ![p] =
       IF Cardinality(SignalsInWindow(call[p].at, call[p].repo)) > Threshold
       THEN Signalling("over", call[p].repo, call[p].at) ELSE Idle]
  /\ UNCHANGED <<state, events, signals, now>>

CountSignals(p) ==
  /\ call[p].pc = "counting"
  /\ call' = [call EXCEPT ![p] =
       IF Repeated(call[p].at, call[p].repo)
       THEN Signalling("over", call[p].repo, call[p].at) ELSE Idle]
  /\ UNCHANGED <<state, events, signals, now>>

DecideDowngrade(p) ==
  /\ call[p].pc = "over"
  /\ call' = [call EXCEPT ![p] =
       IF Downgrade(state.mode) = state.mode THEN Idle
       ELSE Called([to |-> Downgrade(state.mode), kill |-> FALSE,
                    needs_ack |-> state.needs_ack, trigger |-> "rate_limit",
                    cooldown |-> KeepCooldown, ack |-> FALSE])]
  /\ UNCHANGED <<state, events, signals, now>>

Tick ==
  /\ now < MaxNow
  /\ now' = now + 1
  /\ UNCHANGED <<state, events, signals, call>>

Next ==
  \/ Tick
  \/ \E p \in Procs :
       \/ Start(p) \/ Crash(p)
       \/ \E to \in TargetModes, ack \in BOOLEAN :
            \/ \E cooldown \in StoredCooldowns \cup {KeepCooldown} :
                 SetMode(p, to, "manual", ack, cooldown)
            \/ RestoreMode(p, to, ack)
       \/ ActivateKillSwitch(p) \/ EnterQuarantine(p)
       \/ ReadCurrent(p) \/ CommitTransition(p)
       \/ \E repo \in SignalRepos : RateLimited(p, repo)
       \/ InsertSignal(p) \/ CountSignals(p) \/ DecideDowngrade(p)

Spec == Init /\ [][Next]_vars

----------------------------------------------------------------------------
(* Properties.                                                              *)

LogTypes == {"kill_switch_engaged", "runtime_mode_restored", "runtime_mode_downgraded",
             "quarantine_entered", "runtime_mode_changed"}
LogRows == [type : LogTypes, from : Modes, to : Modes, kill : BOOLEAN,
            lane_open : BOOLEAN, needs_ack : BOOLEAN,
            trigger : {"manual", "restore", "kill_switch", "policy_breach", "rate_limit"}]

(* Every variable has its type.                                               *)
TypeOK ==
  /\ state \in Rows \cup {NoRow}
  /\ events \in Seq(LogRows)
  /\ signals \in Seq([at : Nat, repo : StoredRepos])
  /\ now \in Nat
  /\ call \in [Procs -> Calls]

Initialized == state # NoRow

(* The stored mutating_lane_open column and the authorization matrix are two   *)
(* answers to one question, given by different code to different readers: they *)
(* agree on every mutating operation in every row any history of calls leaves. *)
LaneAgreesWithAuthorization ==
  Initialized =>
    \A op \in MutatingOps : Authorized(op, state) <=> state.lane_open

(* While the kill switch is engaged the row is a hard stop: halted, lane       *)
(* closed, acknowledgement demanded, and only the halted operations authorized.*)
KillSwitchIsAHardStop ==
  Initialized /\ state.kill =>
    /\ state.mode = "halted" /\ ~state.lane_open /\ state.needs_ack
    /\ \A op \in Operations : Authorized(op, state) => op \in HaltedOps

(* The audit trail's last row describes the row in force, whatever processes   *)
(* wrote and died in between.                                                  *)
LastEventDescribesState ==
  events # <<>> =>
    LET e == events[Len(events)] IN
      /\ Initialized
      /\ <<e.to, e.from, e.kill, e.lane_open, e.needs_ack>>
           = <<state.mode, state.previous_mode, state.kill, state.lane_open, state.needs_ack>>

(* Each audit row starts in the mode the one before it ended in, back to the   *)
(* initial observe.  One process only: with two, from_mode is a stale read.    *)
AuditTrailIsAChain ==
  \A i \in DOMAIN events :
    events[i].from = IF i = 1 THEN "observe" ELSE events[i - 1].to

(* Nothing changes the row without adding an audit row for it; in particular a *)
(* process that restarts leaves a stop exactly as it found it.                 *)
EveryChangeIsAudited ==
  [][Initialized /\ state' # state => Len(events') = Len(events) + 1]_vars

Commits(p) == call[p].pc = "read" /\ call'[p] = Idle

(* A row that demands an acknowledgement is left for a running mode only by a  *)
(* call that carried one.  One process: the check is made on an earlier read.  *)
LatchedStopNeedsAck ==
  [][\A p \in Procs :
       Commits(p) /\ Stopped(state) /\ state.needs_ack /\ ~Stopped(state')
         => call[p].req.ack]_vars

Rank(m) == CASE m \in {"halted", "quarantine"} -> 0 [] m = "observe" -> 1
             [] m = "propose" -> 2 [] m = "evolve" -> 3 [] m = "federate" -> 4

(* The automatic downgrade only ever lowers the mode and leaves every stop in  *)
(* place.  One process.                                                        *)
DowngradeOnlyLowers ==
  [][\A p \in Procs :
       Commits(p) /\ call[p].req.trigger = "rate_limit"
         => /\ ~Stopped(state)
            /\ Rank(state'.mode) < Rank(state.mode) /\ ~state'.lane_open]_vars

(* When recordRateLimitSignal returns and its window holds two signals, the    *)
(* mutating lane is closed.  One process.                                      *)
RepeatedSignalsCloseTheLane ==
  [][\A p \in Procs :
       /\ \/ call[p].pc \in {"counting", "over"} /\ Repeated(call[p].at, call[p].repo)
          \/ call[p].pc = "read" /\ call[p].req.trigger = "rate_limit"
       /\ call'[p] = Idle
       => ~state'.lane_open]_vars

(* docs/ops/runtime-mode.md: "Restore is deliberately not automatic": the      *)
(* rate-limit downgrade never releases an engaged kill switch.                 *)
RestoreIsNotAutomatic ==
  [][\A p \in Procs :
       Commits(p) /\ call[p].req.trigger = "rate_limit" /\ state.kill
         => state'.kill]_vars

(* The row and the calls as StopLatch sees them.                              *)
Demanded(req) ==
  CASE req.trigger \in {"kill_switch", "policy_breach"} -> "latch"
    [] req.trigger = "rate_limit" -> "lower"
    [] req.trigger \in {"manual", "restore"} ->
         IF req.to \in StopModes THEN "park" ELSE IF req.ack THEN "release" ELSE "run"
Latch == INSTANCE StopLatch WITH
  stop  <- IF ~Initialized \/ ~Stopped(state) THEN "running"
           ELSE IF state.needs_ack THEN "latched" ELSE "parked",
  lane  <- Initialized /\ state.lane_open,
  calls <- {Demanded(call[p].req) : p \in {q \in Procs : call[q].pc \in {"called", "read"}}}

(* One controller process implements the latch over all its calls, crashes and *)
(* restarts: no signal and no restart moves a stop or opens the lane, and no   *)
(* call without an acknowledgement makes a latched stop run.                   *)
ImplementsStopLatch == Latch!Spec
============================================================================
