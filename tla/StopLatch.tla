----------------------------- MODULE StopLatch -----------------------------
(* What the runtime-mode controller promises an operator, without its row, its *)
(* audit trail or its calls: nothing but a call for it stops the system, lets  *)
(* it run again or opens the mutating lane, and a latched stop is not left for *)
(* running by a call without an acknowledgement.  The promise has a gap: any   *)
(* call for a stop mode parks a latched stop without one, and anyone may leave *)
(* a parked stop.  docs/ops/runtime-mode.md:60 says otherwise.                 *)
VARIABLES
  stop,   \* "running", "parked" or "latched"
  lane,   \* whether mutating operations are let through
  calls   \* what the calls in progress ask for

vars == <<stop, lane, calls>>

Demands == {"latch", "park", "run", "release", "lower"}

Init == stop = "running" /\ lane = FALSE /\ calls = {}

(* A kill switch or a quarantine latches the stop, from any state.             *)
Latch == "latch" \in calls /\ stop' = "latched" /\ lane' = FALSE

(* setMode to a stop mode stops, and takes the latch off a stop that has one.  *)
Park == "park" \in calls /\ stop' = "parked" /\ lane' = FALSE

(* setMode to another mode: without an acknowledgement, and with one.          *)
Run == "run" \in calls /\ stop # "latched" /\ stop' = "running" /\ lane' \in BOOLEAN
Release == "release" \in calls /\ stop' = "running" /\ lane' \in BOOLEAN

(* Repeated rate-limit signals lower the mode of a system that runs.           *)
Lower == "lower" \in calls /\ stop = "running" /\ stop' = "running" /\ lane' = FALSE

(* A call begins, ends or dies.                                                *)
Call == UNCHANGED <<stop, lane>>

Next == (Latch \/ Park \/ Run \/ Release \/ Lower \/ Call) /\ calls' \in SUBSET Demands

Spec == Init /\ [][Next]_vars
============================================================================
