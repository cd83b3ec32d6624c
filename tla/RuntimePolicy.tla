--------------------------- MODULE RuntimePolicy ---------------------------
(* The runtime modes and the matrix of the operations they allow: what the     *)
(* controller answers about a row, whatever else the row says.                 *)
Modes == {"observe", "propose", "evolve", "federate", "quarantine", "halted"}
LaneModes == {"evolve", "federate"}
StopModes == {"quarantine", "halted"}

HaltedOps == {"webhook_ingest", "event_inbox_enqueue", "read_repository",
              "replay_diagnosis", "restore_runtime_mode"}
BaseOps == HaltedOps \cup {"classify_event"}
ProposeOps == BaseOps \cup {"create_plan", "create_issue", "create_comment"}
MutatingOps == {"create_branch", "commit_patch", "open_pull_request",
                "update_pull_request", "create_check_run", "run_sandbox"}
QuarantineOps == BaseOps \cup {"create_issue", "create_comment",
                               "docs_only_incident_pr", "incident_report"}
Operations == ProposeOps \cup MutatingOps \cup QuarantineOps
  \cup {"network_sync", "treaty_update", "self_evolution", "workflow_mutation",
        "auto_merge"}

ModeAllowed(m) ==
  CASE m = "observe"    -> BaseOps
    [] m = "propose"    -> ProposeOps
    [] m = "evolve"     -> ProposeOps \cup MutatingOps
    [] m = "federate"   -> ProposeOps \cup MutatingOps \cup {"network_sync"}
    [] m = "quarantine" -> QuarantineOps
    [] m = "halted"     -> HaltedOps

(* authorizeOperation: an engaged kill switch narrows every operation except  *)
(* the restore to the halted set; otherwise the mode's own set decides.       *)
Authorized(op, row) ==
  IF row.kill /\ op # "restore_runtime_mode"
  THEN op \in HaltedOps
  ELSE op \in ModeAllowed(row.mode)
============================================================================
