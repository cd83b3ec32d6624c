-------------------------- MODULE MCTransportChain --------------------------
(* One change per approval class: class C with an approval, an owner's         *)
(* approval and an owner's rejection, class B with an owner's record and one   *)
(* of the runtime's own, class A with none, class D with one.                  *)
EXTENDS TransportChain, TLC

CONSTANTS low, code, own, manual

MCClass == [c \in Changes |-> CASE c = low -> "A" [] c = code -> "B"
                               [] c = own -> "C" [] c = manual -> "D"]
MCRisk == [c \in Changes |-> IF c = low THEN "low" ELSE "medium"]
By(name, ok) == [approver |-> name, approved |-> ok, code_owner |-> name = "owner"]
MCOffered == [c \in Changes |->
  CASE c = own -> { By("ann", TRUE), By("owner", TRUE), By("owner", FALSE) }
    [] c = low -> {}
    [] c = manual -> { By("owner", TRUE) }
    [] OTHER -> { By("owner", TRUE), By("bot", TRUE) }]
=============================================================================
