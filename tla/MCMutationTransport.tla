------------------------- MODULE MCMutationTransport -------------------------
(* Two requests; checks of which one is optional and failing, missing or       *)
(* named like a derived one; two people wanted, one of whom signs twice.       *)
EXTENDS MutationTransport

Check(id, status) == [check_id |-> id, status |-> status]
MCGiven == [i \in Reports |->
  CASE i = "optional" -> {Check("ci", "pass"), Check("lint", "fail")}
    [] i = "all" -> {Check("ci", "pass")}
    [] i = "missing" -> {Check("lint", "pending")}
    [] i = "twice" -> {Check("safe-pr-endpoint", "pass")}]
MCWanted == [i \in Reports |->
  CASE i = "all" -> AllGiven [] i = "twice" -> {} [] OTHER -> {"ci"}]
MCGates == { {}, {[gate_id |-> "ci", status |-> "pass"], [gate_id |-> "lint", status |-> "pending"]} }
MCLogin == [n \in Names |-> IF n = "@ann" THEN "ann" ELSE n]
Receipt(id, name, decision) == [receipt_id |-> id, approver |-> name, decision |-> decision]
MCOffered ==
  { Receipt(1, "ann", "approve"), Receipt(2, "@ann", "approve"),
    Receipt(2, "bob", "approve"), Receipt(3, "bob", "reject"), Receipt(3, "eve", "approve") }
MCPolicy == [required_approvals |-> 2, allowed_approvers |-> {"ann", "bob"}]
=============================================================================
