------------------------ MODULE RateGovernor_proofs ------------------------
(* Proofs about the rate governor and a caller that asks for each              *)
(* authorization once at a time (~Resubmitting), for every number of           *)
(* authorizations, every delay, lock time, budget and header value.            *)
EXTENDS RateGovernor, TLAPS

Observations == [limited : BOOLEAN, retry_after : Nat \cup {None},
                 reset : Nat \cup {None}]

(* The ticks to wait an observation leads to are a natural number.             *)
LEMMA CooldownTicksNat ==
  ASSUME NEW obs \in Observations, NEW n \in Nat, n > 0
  PROVE  CooldownTicks(obs, n) \in Nat
<1>1. Lesser(n, Len(Backoff)) \in 1..Len(Backoff)
  BY BackoffIsNonempty DEF Lesser
<1>2. Backoff[Lesser(n, Len(Backoff))] \in Nat
  BY <1>1, BackoffIsNonempty
<1>. QED BY <1>2 DEF CooldownTicks, Observations

(* FailureCount is positive, Derived and ActiveCooldown are cooldowns.         *)
LEMMA CooldownTypes ==
  ASSUME TypeOK
  PROVE  /\ FailureCount \in Nat /\ FailureCount > 0
         /\ Derived \in Cooldowns
         /\ ActiveCooldown \in Cooldowns
         /\ ActiveCooldown.left >= Derived.left
         /\ ActiveCooldown.left >= cooldown.left
<1>1. FailureCount \in Nat /\ FailureCount > 0
  BY DEF TypeOK, FailureCount, Greater
<1>2. Derived \in Cooldowns
  <2>1. CASE observed = NoObs
    BY <2>1 DEF Derived, Inactive, Cooldowns
  <2>2. CASE observed # NoObs
    <3>1. observed \in Observations
      BY <2>2 DEF TypeOK, Observations
    <3>2. CooldownTicks(observed, FailureCount) \in Nat
      BY <3>1, <1>1, CooldownTicksNat
    <3>3. (FailureCount >= Len(Backoff)) \in BOOLEAN
      OBVIOUS
    <3>. QED BY <2>2, <3>2, <3>3 DEF Derived, Cooldowns
  <2>. QED BY <2>1, <2>2
<1>3. cooldown \in Cooldowns
  BY DEF TypeOK
<1>. HIDE DEF Derived
<1>4. /\ ActiveCooldown \in Cooldowns
      /\ ActiveCooldown.left >= Derived.left
      /\ ActiveCooldown.left >= cooldown.left
  BY <1>2, <1>3 DEF ActiveCooldown, Inactive, Cooldowns
<1>. QED BY <1>1, <1>2, <1>4

(* What one tick does to an entry.                                            *)
LEMMA LaterFields ==
  ASSUME NEW e \in Entries
  PROVE  /\ Later(e) \in Entries
         /\ Later(e).auth = e.auth
         /\ Later(e).wait = Elapse(e.wait) /\ Later(e).lock = Elapse(e.lock)
BY DEF Later, Entries, Elapse

LEMMA DispatchFields ==
  ASSUME NEW a \in Auths
  PROVE  /\ Dispatch(a) \in Entries
         /\ Dispatch(a).auth = a /\ Dispatch(a).wait >= Base
         /\ Dispatch(a).lock > 0
BY DelaysAreNaturals DEF Dispatch, Entries, WriteWait

(* What GitHub asks for is a natural number of ticks.                          *)
LEMMA OwingNat ==
  ASSUME NEW obs \in Observations \cup {NoObs}
  PROVE  Owing(obs) \in Nat
BY DEF Owing, Observations

(* Type correctness.                                                          *)
TypedRate ==
  /\ lane \in [owner : Auths \cup {Nobody}, left : Nat]
  /\ used \in [Budgets -> Nat] /\ window \in [Budgets -> Nat]
  /\ cooldown \in Cooldowns

LEMMA WaitsNat ==
  ASSUME TypeOK, NEW a \in Auths
  PROVE  Waits(a) \subseteq Nat
<1>1. ActiveCooldown.left \in Nat
  BY CooldownTypes DEF Cooldowns
<1>2. lane.left \in Nat
  BY DEF TypeOK
<1>3. \A b \in Exhausted : window[b] \in Nat
  BY DEF TypeOK, Exhausted
<1>. HIDE DEF ActiveCooldown, Exhausted
<1>. QED BY <1>1, <1>2, <1>3 DEF Waits

LEMMA LimitsAreObservations == Limits \subseteq Observations
BY HeadersAreNaturals DEF Limits, Observations

(* What a request sent leaves behind, whatever GitHub answered.                *)
LEMMA SentTypes ==
  ASSUME TypeOK, NEW e \in entries, NEW obs \in Limits \cup {NoObs}, Sent(e, obs)
  PROVE  /\ TypedRate' /\ retry' \in [Auths -> Nat]
         /\ observed' \in Observations \cup {NoObs}
         /\ entries' \subseteq Entries /\ owed' \in Nat /\ since' \in Nat
<1>1. Owing(obs) \in Nat
  BY LimitsAreObservations, OwingNat
<1>2. owed' \in Nat
  BY <1>1 DEF Sent, TypeOK, Greater
<1>3. lane' \in [owner : Auths \cup {Nobody}, left : Nat]
  BY DEF Sent, TypeOK
<1>. QED BY <1>2, <1>3, LimitsAreObservations
     DEF Sent, TypeOK, TypedRate, Observations

LEMMA TypeInit == Init => TypeOK
BY DelaysAreNaturals DEF Init, TypeOK, Stages, Inactive, Cooldowns

LEMMA TypeQueue ==
  ASSUME TypeOK, NEW a \in Auths, Queue(a)
  PROVE  TypeOK'
<1>1. Dispatch(a) \in Entries /\ Dispatch(a).lock \in Nat
  BY DispatchFields DEF Entries
<1>2. lane' \in [owner : Auths \cup {Nobody}, left : Nat]
  BY <1>1 DEF Queue
<1>3. used' \in [Budgets -> Nat] /\ window' \in [Budgets -> Nat]
  BY BudgetsAreNaturals DEF Queue, TypeOK
<1>4. cooldown' \in Cooldowns
  BY DEF Queue, Inactive, Cooldowns
<1>5. stage' \in [Auths -> Stages]
  BY DEF Queue, TypeOK, Stages
<1>6. entries' \subseteq Entries
  BY <1>1 DEF Queue, TypeOK
<1>. QED BY <1>2, <1>3, <1>4, <1>5, <1>6 DEF Queue, TypeOK

LEMMA TypeDelay ==
  ASSUME TypeOK, NEW a \in Auths, Delay(a)
  PROVE  TypeOK'
<1>1. retry' \in [Auths -> Nat]
  BY WaitsNat DEF Delay, TypeOK
<1>2. cooldown' \in Cooldowns
  BY CooldownTypes DEF Delay
<1>3. stage' \in [Auths -> Stages]
  BY DEF Delay, TypeOK, Stages
<1>. QED BY <1>1, <1>2, <1>3 DEF Delay, TypeOK

LEMMA TypeWork ==
  ASSUME TypeOK, Work
  PROVE  TypeOK'
<1>1. PICK e \in entries : Create(e) \/ Limit(e)
  BY DEF Work
<1>2. PICK obs \in Limits \cup {NoObs} : Sent(e, obs)
  BY <1>1 DEF Create, Limit
<1>3. e.auth \in Auths
  BY DEF TypeOK, Entries
<1>4. stage' \in [Auths -> Stages]
  BY <1>1, <1>3 DEF Create, Limit, TypeOK, Stages
<1>5. failures' \in Nat
  BY <1>1, BackoffIsNonempty DEF Create, Limit, TypeOK, Lesser
<1>. QED BY <1>2, <1>4, <1>5, SentTypes DEF TypedRate, TypeOK, Observations

LEMMA TypeDrop ==
  ASSUME TypeOK, Drop
  PROVE  TypeOK'
<1>1. PICK e \in entries : GiveUp(e)
  BY DEF Drop
<1>2. stage' \in [Auths -> Stages]
  BY <1>1 DEF GiveUp, TypeOK, Stages
<1>. QED BY <1>1, <1>2 DEF GiveUp, TypeOK, rateState

LEMMA TypeTick ==
  ASSUME TypeOK, Tick
  PROVE  TypeOK'
<1>1. \A n \in Nat : Elapse(n) \in Nat
  BY DEF Elapse
<1>2. lane' \in [owner : Auths \cup {Nobody}, left : Nat]
  BY <1>1 DEF Tick, TypeOK
<1>3. used' \in [Budgets -> Nat] /\ window' \in [Budgets -> Nat]
  BY <1>1 DEF Tick, TypeOK
<1>4. cooldown' \in Cooldowns
  BY <1>1 DEF Tick, TypeOK, Cooldowns
<1>5. observed' \in Observations \cup {NoObs}
  BY <1>1 DEF Tick, TypeOK, Observations
<1>6. entries' \subseteq Entries
  BY LaterFields DEF Tick, TypeOK
<1>7. since' \in Nat
  BY DelaysAreNaturals DEF Tick, TypeOK, Lesser
<1>8. retry' \in [Auths -> Nat] /\ owed' \in Nat
  BY <1>1 DEF Tick, TypeOK
<1>. QED BY <1>2, <1>3, <1>4, <1>5, <1>6, <1>7, <1>8
     DEF Tick, TypeOK, Observations

LEMMA TypeNext == TypeOK /\ [Next]_vars => TypeOK'
<1>. SUFFICES ASSUME TypeOK, [Next]_vars PROVE TypeOK'
  OBVIOUS
<1>1. CASE Tick
  BY <1>1, TypeTick
<1>2. ASSUME NEW a \in Auths, Govern(a) PROVE TypeOK'
  BY <1>2, TypeQueue, TypeDelay DEF Govern
<1>3. CASE Work
  BY <1>3, TypeWork
<1>4. CASE Drop
  BY <1>4, TypeDrop
<1>5. CASE UNCHANGED vars
  BY <1>5 DEF vars, rateState, TypeOK
<1>. QED BY <1>1, <1>2, <1>3, <1>4, <1>5 DEF Next

(* Every variable has its type in every state of every run.                   *)
THEOREM TypeCorrect == Spec => []TypeOK
<1>1. Init => TypeOK
  BY TypeInit
<1>2. TypeOK /\ [Next]_vars => TypeOK'
  BY TypeNext
<1>. QED BY <1>1, <1>2, PTL DEF Spec

----------------------------------------------------------------------------
(* The inductive invariant: the one outstanding entry holds the lane, the time *)
(* since the last write and the entry's wait together cover the base delay,    *)
(* and what GitHub is owed is covered by the stored or the pending cooldown    *)
(* and leaves no entry outstanding.                                            *)
LaneInv ==
  /\ OneEntryHoldsTheLane
  /\ \A e \in entries : stage[e.auth] = "queued"
SpacingInv == \A e \in entries : e.wait + since >= Base
OwedInv ==
  /\ entries # {} => owed = 0
  /\ owed <= Derived.left \/ owed <= cooldown.left

IInv == TypeOK /\ LaneInv /\ SpacingInv /\ OwedInv

LEMMA InvInit == Init => IInv
BY TypeInit DEF Init, IInv, LaneInv, OneEntryHoldsTheLane, SpacingInv, OwedInv,
   Derived, Inactive

(* An authorization is queued only when no entry is outstanding.               *)
LEMMA QueueFindsNoEntry ==
  ASSUME IInv, ~Resubmitting, NEW a \in Auths, Queue(a)
  PROVE  entries = {} /\ owed = 0
<1>1. \A e \in entries : e.auth = a
  <2>1. ASSUME NEW e \in entries, e.auth # a PROVE FALSE
    <3>1. lane.left > 0 /\ lane.owner = e.auth
      BY <2>1 DEF IInv, LaneInv, OneEntryHoldsTheLane
    <3>. QED BY <2>1, <3>1 DEF Queue, Delayed, LaneBusy
  <2>. QED BY <2>1
<1>2. \A e \in entries : FALSE
  BY <1>1 DEF IInv, LaneInv, Queue, Asks
<1>3. ActiveCooldown.left = 0
  BY CooldownTypes DEF IInv, Queue, Delayed, Cooldowns
<1>4. Derived.left = 0 /\ cooldown.left = 0
  BY <1>3, CooldownTypes DEF IInv, TypeOK, Cooldowns
<1>. HIDE DEF Derived
<1>5. owed = 0
  BY <1>4 DEF IInv, OwedInv, TypeOK
<1>. QED BY <1>2, <1>5

LEMMA InvQueue ==
  ASSUME IInv, ~Resubmitting, NEW a \in Auths, Queue(a)
  PROVE  LaneInv' /\ SpacingInv' /\ OwedInv'
<1>1. entries' = {Dispatch(a)} /\ owed = 0
  BY QueueFindsNoEntry DEF Queue
<1>2. /\ Dispatch(a).auth = a /\ Dispatch(a).wait >= Base
      /\ Dispatch(a).lock > 0 /\ Dispatch(a) \in Entries
  BY DispatchFields
<1>. HIDE DEF Dispatch
<1>3. LaneInv'
  BY <1>1, <1>2 DEF LaneInv, OneEntryHoldsTheLane, Queue, IInv, TypeOK
<1>4. SpacingInv'
  BY <1>1, <1>2, DelaysAreNaturals DEF SpacingInv, Queue, IInv, TypeOK, Entries
<1>5. OwedInv'
  BY <1>1 DEF OwedInv, Queue, Derived, Inactive
<1>. QED BY <1>3, <1>4, <1>5

LEMMA InvDelay ==
  ASSUME IInv, NEW a \in Auths, Delay(a)
  PROVE  LaneInv' /\ SpacingInv' /\ OwedInv'
<1>1. LaneInv'
  BY DEF LaneInv, OneEntryHoldsTheLane, Delay, IInv, TypeOK, Entries
<1>2. SpacingInv'
  BY DEF SpacingInv, Delay, IInv
<1>3. OwedInv'
  <2>1. cooldown' = ActiveCooldown /\ owed' = owed /\ entries' = entries
    BY DEF Delay
  <2>2. /\ ActiveCooldown \in Cooldowns /\ Derived \in Cooldowns
        /\ ActiveCooldown.left >= Derived.left
        /\ ActiveCooldown.left >= cooldown.left
    BY CooldownTypes DEF IInv
  <2>. HIDE DEF ActiveCooldown, Derived
  <2>3. owed <= ActiveCooldown.left
    BY <2>2 DEF IInv, OwedInv, TypeOK, Cooldowns
  <2>. QED BY <2>1, <2>3 DEF OwedInv, IInv
<1>. QED BY <1>1, <1>2, <1>3

(* The cooldown derived from an answer covers what the answer asked for.       *)
LEMMA DerivedCoversOwing ==
  ASSUME NEW obs \in Observations, NEW n \in Nat, n > 0
  PROVE  Owing(obs) <= CooldownTicks(obs, n)
<1>1. CooldownTicks(obs, n) \in Nat
  BY CooldownTicksNat
<1>2. obs.retry_after \in Nat \cup {None} /\ obs.reset \in Nat \cup {None}
  BY DEF Observations
<1>0. obs # NoObs
  BY NoObsIsNoResponse DEF Observations
<1>3. CASE obs.retry_after # None
  <2>1. Owing(obs) = obs.retry_after /\ CooldownTicks(obs, n) = obs.retry_after
    BY <1>0, <1>3 DEF Owing, CooldownTicks
  <2>. HIDE DEF Owing, CooldownTicks
  <2>. QED BY <1>1, <2>1
<1>4. CASE obs.retry_after = None /\ obs.reset # None
  BY <1>2, <1>4 DEF Owing, CooldownTicks
<1>5. CASE obs.retry_after = None /\ obs.reset = None
  <2>1. Owing(obs) = 0
    BY <1>5 DEF Owing
  <2>. HIDE DEF CooldownTicks, Owing
  <2>. QED BY <1>1, <2>1
<1>. QED BY <1>3, <1>4, <1>5

LEMMA InvSent ==
  ASSUME IInv, TypeOK', NEW e \in entries, NEW obs \in Limits \cup {NoObs}, Sent(e, obs)
  PROVE  /\ since >= Base /\ owed = 0
         /\ LaneInv' /\ SpacingInv' /\ OwedInv'
<1>1. entries' = {}
  BY DEF Sent, IInv, LaneInv, OneEntryHoldsTheLane
<1>2. since >= Base
  BY DelaysAreNaturals DEF Sent, IInv, SpacingInv, TypeOK
<1>3. owed = 0
  BY DEF IInv, OwedInv
<1>4. OwedInv'
  <2>1. owed' = Owing(obs)
    BY <1>3, OwingNat, LimitsAreObservations DEF Sent, Greater
  <2>2. CASE obs = NoObs
    BY <2>1, <2>2, <1>1 DEF OwedInv, Owing, TypeOK, Cooldowns
  <2>3. CASE obs # NoObs
    <3>1. obs \in Observations /\ observed' = obs
      BY <2>3, LimitsAreObservations DEF Sent
    <3>2. FailureCount' \in Nat /\ FailureCount' > 0
      BY DEF FailureCount, Greater, TypeOK
    <3>3. Derived'.left = CooldownTicks(obs, FailureCount')
      BY <2>3, <3>1 DEF Derived
    <3>4. Owing(obs) <= CooldownTicks(obs, FailureCount')
      BY <3>1, <3>2, DerivedCoversOwing
    <3>. HIDE DEF Derived
    <3>. QED BY <1>1, <2>1, <3>3, <3>4 DEF OwedInv
  <2>. QED BY <2>2, <2>3
<1>. QED BY <1>1, <1>2, <1>3, <1>4 DEF LaneInv, OneEntryHoldsTheLane, SpacingInv

LEMMA InvWork ==
  ASSUME IInv, TypeOK', Work
  PROVE  /\ since >= Base /\ owed = 0
         /\ LaneInv' /\ SpacingInv' /\ OwedInv'
<1>1. PICK e \in entries : Create(e) \/ Limit(e)
  BY DEF Work
<1>2. PICK obs \in Limits \cup {NoObs} : Sent(e, obs)
  BY <1>1 DEF Create, Limit
<1>. QED BY <1>2, InvSent

LEMMA InvDrop ==
  ASSUME IInv, Drop
  PROVE  LaneInv' /\ SpacingInv' /\ OwedInv'
<1>1. PICK e \in entries : GiveUp(e)
  BY DEF Drop
<1>2. entries' = {}
  BY <1>1 DEF GiveUp, IInv, LaneInv, OneEntryHoldsTheLane
<1>3. OwedInv'
  BY <1>1, <1>2 DEF GiveUp, rateState, IInv, OwedInv, Derived, FailureCount, CooldownTicks
<1>. QED BY <1>2, <1>3 DEF LaneInv, OneEntryHoldsTheLane, SpacingInv

(* A tick takes at most one from what an observation leads to.                 *)
LEMMA TickDerived ==
  ASSUME TypeOK, Tick
  PROVE  Derived'.left >= Derived.left - 1
<1>1. FailureCount' = FailureCount
  BY DEF Tick, FailureCount
<1>2. FailureCount \in Nat /\ FailureCount > 0
  BY CooldownTypes
<1>3. CASE observed = NoObs
  BY <1>3 DEF Tick, Derived, Inactive
<1>4. CASE observed # NoObs
  <2>1. observed \in Observations
    BY <1>4 DEF TypeOK, Observations
  <2>2. CooldownTicks(observed, FailureCount) \in Nat
    BY <1>2, <2>1, CooldownTicksNat
  <2>3. CASE observed.reset = None
    <3>1. observed' = observed
      BY <1>4, <2>3 DEF Tick
    <3>2. Derived'.left = Derived.left
      BY <1>1, <3>1 DEF Derived
    <3>3. Derived.left \in Nat
      BY CooldownTypes DEF Cooldowns
    <3>. HIDE DEF Derived
    <3>. QED BY <3>2, <3>3
  <2>4. CASE observed.reset # None
    <3>1. observed' = [observed EXCEPT !.reset = Elapse(observed.reset)]
      BY <1>4, <2>4 DEF Tick
    <3>2. /\ observed'.retry_after = observed.retry_after
          /\ observed'.limited = observed.limited
          /\ observed'.reset = Elapse(observed.reset)
          /\ observed.reset \in Nat /\ observed.retry_after \in Nat \cup {None}
      BY <2>1, <2>4, <3>1 DEF Observations
    <3>3. observed'.reset \in Nat /\ observed'.reset >= observed.reset - 1
      BY <3>2 DEF Elapse
    <3>4. CooldownTicks(observed', FailureCount)
            >= CooldownTicks(observed, FailureCount) - 1
      <4>1. CASE observed.retry_after # None
        BY <3>2, <4>1 DEF CooldownTicks
      <4>2. CASE observed.retry_after = None
        <5>1. CooldownTicks(observed, FailureCount) = observed.reset
          BY <2>4, <4>2 DEF CooldownTicks
        <5>2. observed'.reset # None
          BY <3>3, HeadersAreNaturals
        <5>3. CooldownTicks(observed', FailureCount) = observed'.reset
          BY <3>2, <4>2, <5>2 DEF CooldownTicks
        <5>. HIDE DEF CooldownTicks
        <5>. QED BY <3>3, <5>1, <5>3
      <4>. QED BY <4>1, <4>2
    <3>5. Derived.left = CooldownTicks(observed, FailureCount)
      BY <1>4 DEF Derived
    <3>6. observed' # NoObs
      <4>1. observed' \in Observations
        BY <2>1, <3>1, <3>3, <3>2 DEF Observations
      <4>. QED BY <4>1, NoObsIsNoResponse DEF Observations
    <3>7. Derived'.left = CooldownTicks(observed', FailureCount)
      BY <1>1, <3>6 DEF Derived
    <3>. HIDE DEF Derived, CooldownTicks
    <3>. QED BY <3>4, <3>5, <3>7
  <2>. QED BY <2>3, <2>4
<1>. QED BY <1>3, <1>4

LEMMA InvTick ==
  ASSUME IInv, TypeOK', Tick
  PROVE  LaneInv' /\ SpacingInv' /\ OwedInv'
<1>1. entries' = { Later(e) : e \in entries }
  BY DEF Tick
<1>2. \A e \in entries : /\ Later(e).auth = e.auth /\ e.lock \in Nat /\ e.wait \in Nat
                         /\ Later(e).wait = Elapse(e.wait)
                         /\ Later(e).lock = Elapse(e.lock)
  BY LaterFields DEF IInv, TypeOK, Entries
<1>. HIDE DEF Later
<1>3. LaneInv'
  <2>1. \A e \in entries : e.lock > 1 /\ lane.owner = e.auth /\ lane.left = e.lock
    BY DEF Tick, IInv, LaneInv, OneEntryHoldsTheLane
  <2>2. lane'.owner = lane.owner /\ lane'.left = Elapse(lane.left)
    BY DEF Tick, IInv, TypeOK
  <2>3. \A e, f \in entries' : e = f
    BY <1>1 DEF IInv, LaneInv, OneEntryHoldsTheLane
  <2>4. \A e \in entries' : lane'.owner = e.auth /\ lane'.left = e.lock /\ e.lock > 0
    BY <1>1, <1>2, <2>1, <2>2 DEF Elapse
  <2>5. \A e \in entries' : stage'[e.auth] = "queued"
    BY <1>1, <1>2 DEF Tick, IInv, LaneInv
  <2>. QED BY <2>3, <2>4, <2>5 DEF LaneInv, OneEntryHoldsTheLane
<1>4. SpacingInv'
  <2>1. \A e \in entries : Elapse(e.wait) + since' >= Base
    BY <1>2, DelaysAreNaturals DEF Tick, IInv, SpacingInv, TypeOK, Elapse, Lesser
  <2>. QED BY <1>1, <1>2, <2>1 DEF SpacingInv
<1>5. OwedInv'
  <2>1. owed' = Elapse(owed) /\ cooldown'.left = Elapse(cooldown.left)
    BY DEF Tick, IInv, TypeOK, Cooldowns
  <2>2. entries' # {} => entries # {}
    BY <1>1
  <2>3. Derived'.left >= Derived.left - 1 /\ Derived.left \in Nat
    BY TickDerived, CooldownTypes DEF IInv, Cooldowns
  <2>4. Derived'.left \in Nat
    <3>1. CASE observed' = NoObs
      BY <3>1 DEF Derived, Inactive
    <3>2. CASE observed' # NoObs
      <4>1. observed' \in Observations
        BY <3>2 DEF TypeOK, Observations
      <4>2. FailureCount' \in Nat /\ FailureCount' > 0
        BY DEF TypeOK, FailureCount, Greater
      <4>3. CooldownTicks(observed', FailureCount') \in Nat
        BY <4>1, <4>2, CooldownTicksNat
      <4>. HIDE DEF CooldownTicks, FailureCount
      <4>. QED BY <3>2, <4>3 DEF Derived
    <3>. QED BY <3>1, <3>2
  <2>. HIDE DEF Derived
  <2>. QED BY <2>1, <2>2, <2>3, <2>4 DEF OwedInv, IInv, TypeOK, Cooldowns, Elapse
<1>. QED BY <1>3, <1>4, <1>5

LEMMA InvNext ==
  ASSUME ~Resubmitting, IInv, [Next]_vars
  PROVE  IInv'
<1>0. TypeOK'
  BY TypeNext DEF IInv
<1>1. CASE Tick
  BY <1>0, <1>1, InvTick DEF IInv
<1>2. ASSUME NEW a \in Auths, Govern(a) PROVE IInv'
  BY <1>0, <1>2, InvQueue, InvDelay DEF Govern, IInv
<1>3. CASE Work
  BY <1>0, <1>3, InvWork DEF IInv
<1>4. CASE Drop
  BY <1>0, <1>4, InvDrop DEF IInv
<1>5. CASE UNCHANGED vars
  BY <1>0, <1>5 DEF vars, rateState, IInv, LaneInv, OneEntryHoldsTheLane, SpacingInv,
     OwedInv, Derived, FailureCount, CooldownTicks
<1>. QED BY <1>1, <1>2, <1>3, <1>4, <1>5 DEF Next

LEMMA IInvHolds == ASSUME ~Resubmitting PROVE Spec => []IInv
<1>1. Init => IInv
  BY InvInit
<1>2. IInv /\ [Next]_vars => IInv'
  BY InvNext
<1>. QED BY <1>1, <1>2, PTL DEF Spec

(* At most one entry is outstanding, and it holds the lane: a caller that does *)
(* not resubmit never has two mutating lanes in one repository.                *)
THEOREM OneEntryHolds == ASSUME ~Resubmitting PROVE Spec => []OneEntryHoldsTheLane
<1>1. IInv => OneEntryHoldsTheLane
  BY DEF IInv, LaneInv
<1>. QED BY <1>1, IInvHolds, PTL

(* Writes are at least the base delay apart, for a caller that does not        *)
(* resubmit: run.ts:237 admits the authorization that holds the lane again,    *)
(* and its two entries may have one not-before.                                *)
THEOREM WritesSpaced == ASSUME ~Resubmitting PROVE Spec => WritesAreSpaced
<1>1. IInv /\ [Next]_vars => [Work => since >= Base]_vars
  <2>. SUFFICES ASSUME IInv, [Next]_vars, Work PROVE since >= Base
    OBVIOUS
  <2>. QED BY TypeNext, InvWork DEF IInv
<1>. QED BY <1>1, IInvHolds, PTL DEF Spec, WritesAreSpaced

(* No request is sent before the time GitHub's last answer asked to wait for,  *)
(* by a caller that does not resubmit: of two entries of one authorization the *)
(* second would not learn of the answer to the first.                          *)
THEOREM RetryAfterHonoured == ASSUME ~Resubmitting PROVE Spec => RetryAfterIsHonoured
<1>1. IInv /\ [Next]_vars => [Work => owed = 0]_vars
  <2>. SUFFICES ASSUME IInv, [Next]_vars, Work PROVE owed = 0
    OBVIOUS
  <2>. QED BY TypeNext, InvWork DEF IInv
<1>. QED BY <1>1, IInvHolds, PTL DEF Spec, RetryAfterIsHonoured
=============================================================================
