---------------------------- MODULE MCEventInbox ----------------------------
(* Model checking of EventInbox: a delivery with two bodies, and a later one   *)
(* with one.                                                                   *)
EXTENDS EventInbox

MCSent == [d \in Deliveries |-> IF d = 1 THEN Hashes ELSE {"first"}]
============================================================================
