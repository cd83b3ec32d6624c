---------------------------- MODULE RateGovernor ----------------------------
(* The rate governor and the caller it serves, for one repository.  The        *)
(* governor is a pure function: an authorization, the rate state its caller    *)
(* kept and the last response observed go in, a dispatch comes out.  The       *)
(* caller stores what the dispatch says and asks again once execute_after has  *)
(* come; a transport worker, which is not part of the sources, performs queued *)
(* entries and reports GitHub's answers.  Times are kept as the ticks left     *)
(* until them, so the clock needs no bound.                                    *)
EXTENDS Naturals, Sequences, FiniteSets

CONSTANTS
  Auths,          \* transport authorizations of the repository
  Nobody, NoObs, None,
  Base, Jitter,   \* writeBaseDelayMs; the deterministic jitter of an authorization
  LaneTtl,        \* repoLaneLockTtlSeconds
  Budgets,        \* content per minute, content per hour, PRs per hour, REST points
  Cap, Cost, Period,  \* per budget: the limit, what one PR reserves, the window
  Backoff,        \* secondaryCooldownBackoffSeconds
  RetryAfters, Resets,  \* values GitHub's headers take
  Resubmitting    \* whether the caller asks again for what is still queued

ASSUME DelaysAreNaturals ==
  Base \in Nat \ {0} /\ Jitter \in [Auths -> Nat] /\ LaneTtl \in Nat \ {0}
ASSUME BudgetsAreNaturals ==
  Cap \in [Budgets -> Nat] /\ Cost \in [Budgets -> Nat] /\ Period \in [Budgets -> Nat]
ASSUME BackoffIsNonempty == Backoff \in Seq(Nat) /\ Len(Backoff) > 0
ASSUME HeadersAreNaturals == RetryAfters \subseteq Nat /\ Resets \subseteq Nat /\ None \notin Nat
ASSUME ResubmittingIsBoolean == Resubmitting \in BOOLEAN
ASSUME NobodyIsNoAuth == Nobody \notin Auths
ASSUME NoObsIsNoResponse ==
  NoObs \notin [limited : BOOLEAN, retry_after : Nat \cup {None}, reset : Nat \cup {None}]

VARIABLES
  stage,     \* "authorized", "delayed", "queued" or "created", per authorization
  retry,     \* retry[a]: ticks until the execute_after of a's delayed dispatch
  lane,      \* rateState.repoLane: owner and ticks until lockedUntil
  used,      \* rateState counters, per budget
  window,    \* ticks until the counter's reset time; 0 when no window is open
  cooldown,  \* rateState.cooldown: ticks until cooldown_until, requires_human_ack
  observed,  \* the response the caller passes with its next call, or NoObs
  failures,  \* consecutiveFailures the caller passes
  entries,   \* queue entries the worker has not finished
  owed,      \* ticks GitHub asked to wait, counted from its answer
  since      \* ticks since the last write, up to Base

rateState == <<lane, used, window, cooldown>>
vars == <<stage, retry, rateState, observed, failures, entries, owed, since>>

Stages == {"authorized", "delayed", "queued", "created"}
Limits == [limited : BOOLEAN, retry_after : RetryAfters \cup {None},
           reset : Resets \cup {None}]   \* reset: the header, given with remaining = 0
Cooldowns == [left : Nat, needs_ack : BOOLEAN]
Entries == [auth : Auths, wait : Nat, lock : Nat]

Inactive == [left |-> 0, needs_ack |-> FALSE]
Greater(m, n) == IF m >= n THEN m ELSE n
Lesser(m, n) == IF m <= n THEN m ELSE n
Elapse(n) == IF n = 0 THEN 0 ELSE n - 1

----------------------------------------------------------------------------
(* The governor's decision.                                                  *)

(* deriveRateGovernorCooldown: nothing to wait for unless the response was a   *)
(* 403 or 429 or carries a limit header; then retry-after, the reset header,   *)
(* or the backoff of the consecutive failures, in that order.                  *)
CooldownTicks(obs, n) ==
  CASE ~obs.limited /\ obs.retry_after = None /\ obs.reset = None -> 0
    [] obs.retry_after # None -> obs.retry_after
    [] obs.retry_after = None /\ obs.reset # None -> obs.reset
    [] OTHER -> Backoff[Lesser(n, Len(Backoff))]

FailureCount == Greater(1, failures)
Derived ==
  IF observed = NoObs THEN Inactive
  ELSE [left |-> CooldownTicks(observed, FailureCount),
        needs_ack |-> FailureCount >= Len(Backoff)]

(* Of the stored cooldown and the observed one, that which ends last.          *)
ActiveCooldown ==
  CASE Derived.left > cooldown.left -> Derived
    [] Derived.left <= cooldown.left /\ cooldown.left > 0 -> cooldown
    [] OTHER -> Inactive

(* Mutant: the owner is not compared when the lane has one.                    *)
LaneBusyWhenUnowned(a) == lane.left > 0 /\ lane.owner = Nobody
LaneBusy(a) == lane.left > 0 /\ lane.owner # a

(* Mutant: a budget is exhausted one request early.                           *)
ExhaustedAtCap == { b \in Budgets : used[b] + Cost[b] >= Cap[b] }
Exhausted == { b \in Budgets : used[b] + Cost[b] > Cap[b] }

Delayed(a) == ActiveCooldown.left > 0 \/ LaneBusy(a) \/ Exhausted # {}

(* The times a delayed dispatch waits for; execute_after is the last of them.  *)
Waits(a) ==
  {ActiveCooldown.left} \cup (IF LaneBusy(a) THEN {lane.left} ELSE {})
    \cup { window[b] : b \in Exhausted }
LastOf(n, waits) == n \in waits /\ \A m \in waits : m <= n

(* Mutant: only the jitter is waited for.                                      *)
WriteWaitJitterOnly(a) == Jitter[a]

(* writeSpacing: max(now, lastMutatingRequestAt) + delay, and no write the      *)
(* caller recorded lies in the future.                                         *)
WriteWait(a) == Base + Jitter[a]

Dispatch(a) == [auth |-> a, wait |-> WriteWait(a), lock |-> WriteWait(a) + LaneTtl]

(* An entry one tick later.                                                   *)
Later(e) == [auth |-> e.auth, wait |-> Elapse(e.wait), lock |-> Elapse(e.lock)]

----------------------------------------------------------------------------
Init ==
  /\ stage = [a \in Auths |-> "authorized"]
  /\ retry = [a \in Auths |-> 0]
  /\ lane = [owner |-> Nobody, left |-> 0]
  /\ used = [b \in Budgets |-> 0] /\ window = [b \in Budgets |-> 0]
  /\ cooldown = Inactive /\ observed = NoObs /\ failures = 0
  /\ entries = {} /\ owed = 0 /\ since = Base

(* The caller asks for a new authorization, for a delayed one whose            *)
(* execute_after has come and, when it resubmits, for a queued one.            *)
Asks(a) ==
  \/ stage[a] = "authorized"
  \/ stage[a] = "delayed" /\ retry[a] = 0
  \/ stage[a] = "queued" /\ Resubmitting

(* runRateGovernor, queued: the caller stores the lane, the reservations and   *)
(* the cleared cooldown of the dispatch and hands its entry to the worker.     *)
Queue(a) ==
  /\ Asks(a) /\ ~Delayed(a)
  /\ stage' = [stage EXCEPT ![a] = "queued"]
  /\ entries' = entries \cup {Dispatch(a)}
  /\ lane' = [owner |-> a, left |-> Dispatch(a).lock]
  /\ used' = [b \in Budgets |-> used[b] + Cost[b]]
  /\ window' = [b \in Budgets |-> IF window[b] = 0 THEN Period[b] ELSE window[b]]
  /\ cooldown' = Inactive /\ observed' = NoObs
  /\ UNCHANGED <<retry, failures, owed, since>>

(* Mutant: the observation is used up and its cooldown is not stored.          *)
DelayForgetsCooldown(a) ==
  /\ Asks(a) /\ Delayed(a)
  /\ stage' = [stage EXCEPT ![a] = IF @ = "queued" THEN @ ELSE "delayed"]
  /\ \E n \in Waits(a) : LastOf(n, Waits(a)) /\ retry' = [retry EXCEPT ![a] = n]
  /\ observed' = NoObs
  /\ UNCHANGED <<rateState, failures, entries, owed, since>>

(* runRateGovernor, delayed: the dispatch's cooldown becomes the stored one.   *)
Delay(a) ==
  /\ Asks(a) /\ Delayed(a)
  /\ stage' = [stage EXCEPT ![a] = IF @ = "queued" THEN @ ELSE "delayed"]
  /\ \E n \in Waits(a) : LastOf(n, Waits(a)) /\ retry' = [retry EXCEPT ![a] = n]
  /\ cooldown' = ActiveCooldown /\ observed' = NoObs
  /\ UNCHANGED <<lane, used, window, failures, entries, owed, since>>

Owing(obs) ==
  IF obs = NoObs THEN 0
  ELSE CASE obs.retry_after # None -> obs.retry_after
         [] obs.retry_after = None /\ obs.reset # None -> obs.reset
         [] OTHER -> 0

(* The worker sends the request of an entry whose execute_after has come, and  *)
(* releases the lane with GitHub's answer.                                     *)
Sent(e, obs) ==
  /\ e.wait = 0
  /\ entries' = entries \ {e}
  /\ lane' = (IF lane.owner = e.auth THEN [owner |-> Nobody, left |-> 0] ELSE lane)
  /\ observed' = (IF obs = NoObs THEN observed ELSE obs)
  /\ owed' = Greater(owed, Owing(obs)) /\ since' = 0
  /\ UNCHANGED <<retry, used, window, cooldown>>

(* The pull request is created; the answer may say that nothing remains.       *)
Create(e) ==
  /\ \E obs \in { o \in Limits : ~o.limited /\ o.retry_after = None /\ o.reset # None }
                \cup {NoObs} : Sent(e, obs)
  /\ stage' = [stage EXCEPT ![e.auth] = "created"]
  /\ failures' = 0

(* A 403 or 429.                                                               *)
Limit(e) ==
  /\ \E obs \in { o \in Limits : o.limited } : Sent(e, obs)
  /\ stage' = [stage EXCEPT ![e.auth] = IF @ = "queued" THEN "authorized" ELSE @]
  /\ failures' = Lesser(failures + 1, Len(Backoff))

(* The worker dies or drops the entry: the lane stays locked until it expires. *)
GiveUp(e) ==
  /\ entries' = entries \ {e}
  /\ stage' = [stage EXCEPT ![e.auth] = IF @ = "queued" THEN "authorized" ELSE @]
  /\ UNCHANGED <<retry, rateState, observed, failures, owed, since>>

(* A worker that has not given an entry up has sent it when its lock ends.     *)
Tick ==
  /\ \A e \in entries : e.lock > 1
  /\ entries' = { Later(e) : e \in entries }
  /\ retry' = [a \in Auths |-> Elapse(retry[a])]
  /\ lane' = [lane EXCEPT !.left = Elapse(@)]
  /\ window' = [b \in Budgets |-> Elapse(window[b])]
  /\ used' = [b \in Budgets |-> IF window[b] <= 1 THEN 0 ELSE used[b]]
  /\ cooldown' = [cooldown EXCEPT !.left = Elapse(@)]
  /\ observed' = (IF observed = NoObs \/ observed.reset = None THEN observed
                  ELSE [observed EXCEPT !.reset = Elapse(@)])
  /\ owed' = Elapse(owed)
  /\ since' = Lesser(since + 1, Base)
  /\ UNCHANGED <<stage, failures>>

Govern(a) == Queue(a) \/ Delay(a)
Work == \E e \in entries : Create(e) \/ Limit(e)
Drop == \E e \in entries : GiveUp(e)

Next == Tick \/ (\E a \in Auths : Govern(a)) \/ Work \/ Drop

Spec == Init /\ [][Next]_vars

(* The caller asks when execute_after has come, the worker works, time passes. *)
FairSpec ==
  /\ Spec
  /\ WF_vars(Tick) /\ WF_vars(Work) /\ \A a \in Auths : WF_vars(Govern(a))

----------------------------------------------------------------------------
(* Properties.                                                              *)

(* Every variable has its type.                                               *)
TypeOK ==
  /\ stage \in [Auths -> Stages] /\ retry \in [Auths -> Nat]
  /\ lane \in [owner : Auths \cup {Nobody}, left : Nat]
  /\ used \in [Budgets -> Nat] /\ window \in [Budgets -> Nat]
  /\ cooldown \in Cooldowns
  /\ observed \in [limited : BOOLEAN, retry_after : Nat \cup {None},
                   reset : Nat \cup {None}] \cup {NoObs}
  /\ failures \in Nat /\ entries \subseteq Entries
  /\ owed \in Nat /\ since \in Nat

(* One mutating lane per repository (the contract forbids                      *)
(* parallel_repo_mutating_lanes): at most one entry is outstanding, and the    *)
(* lane it was given is still locked for it, whatever was delayed, limited,    *)
(* dropped or left locked by a dead worker before.                             *)
OneEntryHoldsTheLane ==
  /\ \A e, f \in entries : e = f
  /\ \A e \in entries : lane.owner = e.auth /\ lane.left = e.lock /\ e.lock > 0

(* Two writes to the repository are at least the base delay apart.             *)
WritesAreSpaced == [][Work => since >= Base]_vars

(* The worker never sends a request before the time GitHub's last answers      *)
(* asked to wait for: an observation reaches the governor only with the next   *)
(* call, of any authorization, and from then on lives in the stored cooldown.  *)
RetryAfterIsHonoured == [][Work => owed = 0]_vars

(* If GitHub stops limiting and workers stop dropping entries, every           *)
(* authorization ends as a created pull request: no lane lock, exhausted       *)
(* window or cooldown is waited for forever, and delayed ones are not starved. *)
Calm == <>[][\A e \in entries : ~Limit(e) /\ ~GiveUp(e)]_vars
EveryAuthorizationIsWritten ==
  Calm => \A a \in Auths : <>(stage[a] = "created")
============================================================================
