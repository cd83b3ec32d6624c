--------------------------- MODULE DeliveryLedger ---------------------------
(* What the event inbox promises per delivery id, without rows, leases, servers *)
(* or workers: the first body accepted under an id is the only one, it is       *)
(* passed downstream at most once, and a delivery is worked on by one party at  *)
(* a time until it is closed for good.                                          *)
EXTENDS Naturals

CONSTANTS Ids, Bodies, NoBody

VARIABLES
  stage,   \* stage[i]: "unknown", "pending", "working" or "closed"
  body,    \* body[i]: the body accepted under i
  passed   \* passed[i]: whether it was passed downstream

vars == <<stage, body, passed>>

Init ==
  /\ stage = [i \in Ids |-> "unknown"]
  /\ body = [i \in Ids |-> NoBody]
  /\ passed = [i \in Ids |-> FALSE]

Accept(i, b) ==
  /\ stage[i] = "unknown"
  /\ stage' = [stage EXCEPT ![i] = "pending"]
  /\ body' = [body EXCEPT ![i] = b]
  /\ UNCHANGED passed

Pass(i) ==
  /\ stage[i] # "unknown" /\ ~passed[i]
  /\ passed' = [passed EXCEPT ![i] = TRUE]
  /\ UNCHANGED <<stage, body>>

Move(i, from, to) ==
  /\ stage[i] = from
  /\ stage' = [stage EXCEPT ![i] = to]
  /\ UNCHANGED <<body, passed>>

Next ==
  \E i \in Ids :
    \/ \E b \in Bodies : Accept(i, b)
    \/ Pass(i)
    \/ Move(i, "pending", "working")
    \/ Move(i, "working", "pending") \/ Move(i, "working", "closed")

Spec == Init /\ [][Next]_vars
============================================================================
