-------------------------- MODULE MutationTransport --------------------------
(* The second half of the mutation chain: from a transport request to the      *)
(* bundle that hands an approved mutation on.  A caller takes the manifests    *)
(* through                                                                     *)
(*   runTransportReadinessLedger  ledger: the checks on a request              *)
(*   runApprovalReceiptVerifier   approval: who approved that ledger           *)
(*   runTransportExecutionPlan    plan: approval and request together          *)
(*   runExecutionArtifactReceipt, runRolloutGateChecklist,                     *)
(*   runPostTransportAuditPlan, runLineageHandoffPack, runCompletionBundle     *)
(* keeping each for the next call, while the request is replaced, checks are   *)
(* reported again and people send receipts.  Digests cover everything but the  *)
(* creation time, so a reference to a manifest is that manifest.  A result     *)
(* with status invalid is thrown away.  A blocked ledger or approval is kept as  *)
(* Blocked; a blocked manifest after them makes the caller try again later.    *)
EXTENDS Naturals, FiniteSets, MutationManifests

CONSTANTS
  MaxRequests,       \* bound on the requests prepared one after the other
  CheckIds,          \* names of checks a caller adds to the derived ones
  Reports,           \* what a caller may pass to the readiness ledger:
  Given, Wanted,     \*   `checks' and `required_check_ids' of a report
  AllGiven,          \* required_check_ids: undefined
  GateReports,       \* what a caller may pass to the rollout checklist
  Names, Logins,     \* approver names as written in a receipt, and without their @
  Login,             \* Login[n]: stripAt(n)
  Offered,           \* the receipts people may send, without their scope
  Policy,            \* the caller's approval policy (Logins for a null list of them)
  MaxReceipts        \* bound on the receipts a caller holds

Statuses == {"pass", "fail", "pending"}
RequestIds == 1..MaxRequests

(* derivedChecks on a request that passed its read-back validation: the status *)
(* of the request decides two of them, the others cannot fail.                 *)
StatusChecks == {"t052-manifest-ready", "safe-pr-endpoint"}
ShapeChecks == {"dry-run-only", "class-c-human-review-gate", "no-token-request",
                "no-git-or-merge", "no-approval-or-mutation-write"}
BaseIds == StatusChecks \cup ShapeChecks

AllCheckIds == CheckIds \cup BaseIds
Checks == [check_id : AllCheckIds, status : Statuses]
Gates == [gate_id : CheckIds, status : Statuses]
Templates == [receipt_id : Nat, approver : Names, decision : Decisions]
Policies == [required_approvals : 1..8, allowed_approvers : SUBSET Logins]

ASSUME BoundsAreNatural == MaxRequests \in Nat \ {0} /\ MaxReceipts \in Nat
ASSUME ReportsAreInputs ==
  /\ Given \in [Reports -> SUBSET Checks]
  /\ Wanted \in [Reports -> SUBSET AllCheckIds \cup {AllGiven}]
ASSUME GatesAreReports == GateReports \subseteq SUBSET Gates
ASSUME LoginsOfNames == Login \in [Names -> Logins]
ASSUME OfferedAreTemplates == Offered \subseteq Templates
ASSUME PolicyIsPolicy == Policy \in Policies

VARIABLES
  request,   \* the transport request in force
  report,    \* the checks as last reported
  ledger,    \* the readiness ledger last computed
  receipts,  \* the approval receipts the caller holds
  approval,  \* the approval verification last computed
  tail       \* the manifest on its way from the execution plan to the bundle

vars == <<request, report, ledger, receipts, approval, tail>>

Requests == [id : RequestIds, ready : BOOLEAN]
Ledgers == [request : Requests, report : Reports]
Receipts == [receipt_id : Nat, approver : Names, decision : Decisions, scope : Ledgers]
Approvals == [ledger : Ledgers, receipts : SUBSET Receipts]
Plans == [request : Requests, approval : Approvals]
Stages == {"plan", "artifact", "rollout", "audit", "handoff", "bundle"}
Tails == [stage : Stages, plan : Plans]

ASSUME MarkersAreNoManifests ==
  \A m \in {None, Blocked} : m \notin Ledgers /\ m \notin Approvals /\ m \notin Tails

----------------------------------------------------------------------------
(* The readiness ledger.                                                     *)

DerivedChecks(r) ==
  [check_id : ShapeChecks, status : {"pass"}]
    \cup [check_id : StatusChecks, status : {IF r.ready THEN "pass" ELSE "fail"}]

AllChecks(l) == DerivedChecks(l.request) \cup Given[l.report]
IdsOf(checks) == {c.check_id : c \in checks}

(* duplicate_check_id: no check can stand in for another of its name.          *)
UniqueIds(l) ==
  /\ IdsOf(Given[l.report]) \cap BaseIds = {}
  /\ \A c, d \in Given[l.report] : c.check_id = d.check_id => c = d

RequiredIds(l) ==
  IF Wanted[l.report] = AllGiven THEN IdsOf(AllChecks(l)) ELSE BaseIds \cup Wanted[l.report]

(* Mutant: every check given is required.                                      *)
EveryCheckPasses(l) ==
  /\ \A c \in AllChecks(l) : c.status = "pass"
  /\ RequiredIds(l) \subseteq IdsOf(AllChecks(l))
(* No required check failed, is pending or is missing.                         *)
RequiredPass(l) ==
  /\ \A c \in AllChecks(l) : c.check_id \in RequiredIds(l) => c.status = "pass"
  /\ RequiredIds(l) \subseteq IdsOf(AllChecks(l))

----------------------------------------------------------------------------
(* The approval verification.                                                *)

(* Every receipt is for this ledger: anything else makes the call invalid.     *)
Scoped(rs, l) == \A r \in rs : r.scope = l
UniqueReceipts(rs) == \A r, s \in rs : r.receipt_id = s.receipt_id => r = s

(* Who approved: ann and @ann are one person.                                  *)
Approvers(rs) == {Login[r.approver] : r \in {s \in rs : s.decision = "approve"}}

(* approved: nobody outside the policy, nobody who rejects or holds.           *)
Verified(rs) ==
  /\ \A r \in rs : Login[r.approver] \in Policy.allowed_approvers /\ r.decision = "approve"
  /\ Cardinality(Approvers(rs)) >= Policy.required_approvals

----------------------------------------------------------------------------
(* The execution plan and what follows it.                                   *)

(* Mutant: the approval of an earlier request will do.                         *)
AnyRequest(a, r) == TRUE
(* scopeIssuesFor, negated: the approval is of the request being planned.      *)
SameRequest(a, r) == a.ledger.request = r

Carries(t, p) == t \in Tails /\ t.plan = p

----------------------------------------------------------------------------
Init ==
  /\ request = [id |-> 1, ready |-> TRUE]
  /\ report \in Reports
  /\ ledger = None /\ receipts = {} /\ approval = None /\ tail = None

(* The mutation is planned again: another request, ready or blocked.           *)
Replan(ready) ==
  /\ request.id < MaxRequests
  /\ request' = [id |-> request.id + 1, ready |-> ready]
  /\ UNCHANGED <<report, ledger, receipts, approval, tail>>

ReportChecks(i) ==
  /\ report' = i
  /\ UNCHANGED <<request, ledger, receipts, approval, tail>>

RunTransportReadinessLedger ==
  LET l == [request |-> request, report |-> report]
  IN /\ UniqueIds(l)
     /\ ledger' = IF RequiredPass(l) THEN l ELSE Blocked
     /\ UNCHANGED <<request, report, receipts, approval, tail>>

(* Somebody reads the ledger and answers.                                      *)
SendReceipt(t) ==
  /\ ledger \in Ledgers /\ Cardinality(receipts) < MaxReceipts
  /\ receipts' = receipts \cup
       {[receipt_id |-> t.receipt_id, approver |-> t.approver, decision |-> t.decision,
         scope |-> ledger]}
  /\ UNCHANGED <<request, report, ledger, approval, tail>>

(* The caller gives up on receipts that will not do and asks again.            *)
DropReceipts ==
  /\ receipts # {} /\ ~(ledger \in Ledgers /\ Scoped(receipts, ledger)
                          /\ UniqueReceipts(receipts) /\ Verified(receipts))
  /\ receipts' = {}
  /\ UNCHANGED <<request, report, ledger, approval, tail>>

(* A blocked ledger is approved by nobody; receipts for another one make the   *)
(* call invalid.                                                               *)
RunApprovalReceiptVerifier ==
  /\ ledger # None
  /\ ledger = Blocked => receipts = {}
  /\ ledger # Blocked => Scoped(receipts, ledger) /\ UniqueReceipts(receipts)
  /\ approval' = IF ledger # Blocked /\ Verified(receipts)
                   THEN [ledger |-> ledger, receipts |-> receipts] ELSE Blocked
  /\ UNCHANGED <<request, report, ledger, receipts, tail>>

(* The caller plans once: not what is already on its way.                      *)
RunTransportExecutionPlan ==
  /\ approval \in Approvals /\ SameRequest(approval, request) /\ request.ready
  /\ LET p == [request |-> request, approval |-> approval]
     IN /\ ~Carries(tail, p)
        /\ tail' = [stage |-> "plan", plan |-> p]
  /\ UNCHANGED <<request, report, ledger, receipts, approval>>

(* One stage takes the manifest of the one before, if that is ready.           *)
Advance(from, to) ==
  /\ tail \in Tails /\ tail.stage = from
  /\ tail' = [tail EXCEPT !.stage = to]
  /\ UNCHANGED <<request, report, ledger, receipts, approval>>

RunExecutionArtifactReceipt == Advance("plan", "artifact")

(* The rollout checklist requires every gate it is given; its own cannot fail  *)
(* for a ready artifact receipt.                                               *)
GatesPass(gates) == \A g \in gates : g.status = "pass"
RunRolloutGateChecklist(gates) == GatesPass(gates) /\ Advance("artifact", "rollout")

RunPostTransportAuditPlan == Advance("rollout", "audit")
RunLineageHandoffPack == Advance("audit", "handoff")
RunCompletionBundle == Advance("handoff", "bundle")

Outside ==
  \/ \E ready \in BOOLEAN : Replan(ready)
  \/ \E i \in Reports : ReportChecks(i)
  \/ \E t \in Offered : SendReceipt(t)
Finish ==
  \/ RunExecutionArtifactReceipt
  \/ \E gates \in GateReports : RunRolloutGateChecklist(gates)
  \/ RunPostTransportAuditPlan \/ RunLineageHandoffPack \/ RunCompletionBundle

Next ==
  \/ Outside \/ DropReceipts
  \/ RunTransportReadinessLedger \/ RunApprovalReceiptVerifier \/ RunTransportExecutionPlan
  \/ Finish

Spec == Init /\ [][Next]_vars

(* The caller calls every stage again until its manifest is up to date, and    *)
(* somebody brings about gates that pass, if there are such.                   *)
FairSpec ==
  /\ Spec
  /\ WF_vars(RunTransportReadinessLedger) /\ WF_vars(RunApprovalReceiptVerifier)
  /\ WF_vars(RunTransportExecutionPlan)
  /\ WF_vars(RunExecutionArtifactReceipt)
  /\ WF_vars(\E gates \in GateReports : RunRolloutGateChecklist(gates))
  /\ WF_vars(RunPostTransportAuditPlan) /\ WF_vars(RunLineageHandoffPack)
  /\ WF_vars(RunCompletionBundle)

----------------------------------------------------------------------------
(* Properties.                                                              *)

(* Every variable has its type.                                               *)
TypeOK ==
  /\ request \in Requests /\ report \in Reports
  /\ ledger \in Ledgers \cup {None, Blocked}
  /\ receipts \subseteq Receipts
  /\ approval \in Approvals \cup {None, Blocked}
  /\ tail \in Tails \cup {None}

(* docs/specs/t054-validation-report.md: approved output requires a ready      *)
(* ledger and scoped receipts.  Whatever is on its way to the bundle or in it  *)
(* is a ready request, with all derived checks passed, which as many different *)
(* people as the policy asks for approved, all of them allowed to and none     *)
(* with another answer, having seen this very request and these very checks,   *)
(* however often requests, checks and receipts changed in between.             *)
WellChecked(l) ==
  /\ l.request.ready
  /\ LET checks == Given[l.report]
     IN /\ \A c \in checks : c.check_id \notin BaseIds
        /\ IF Wanted[l.report] = AllGiven
             THEN \A c \in checks : c.status = "pass"
             ELSE \A id \in Wanted[l.report] \ BaseIds :
                    /\ \E c \in checks : c.check_id = id
                    /\ \A c \in checks : c.check_id = id => c.status = "pass"
AgreedOn(l, rs) ==
  /\ \A r \in rs : r.decision = "approve" /\ r.scope = l
  /\ \E people \in SUBSET Policy.allowed_approvers :
       /\ Cardinality(people) >= Policy.required_approvals
       /\ people = {Login[r.approver] : r \in rs}
OnItsWayWasApproved ==
  tail \in Tails =>
    LET a == tail.plan.approval
    IN /\ a.ledger.request = tail.plan.request
       /\ WellChecked(a.ledger) /\ AgreedOn(a.ledger, a.receipts)

(* Once the request is ready and the required checks good for ever, whatever   *)
(* reports take turns, the ledger comes out ready each time: an optional check *)
(* that fails holds nothing up, and no check waits for what another rules out. *)
Present == [request |-> request, report |-> report]
NoneTwice(checks) == \A c, d \in checks : c.check_id = d.check_id => c = d
GoodChecksAreReady ==
  <>[](WellChecked(Present) /\ NoneTwice(Given[report])) => <>[](ledger \in Ledgers)
=============================================================================
