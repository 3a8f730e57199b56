------------------------------ MODULE ModuleState ------------------------------
(***************************************************************************)
(* recompute_module_state (agent_runtime/migration/core.py): the status of *)
(* a module, from the statuses of its phases.                              *)
(***************************************************************************)

ModuleStatuses == {"not_started", "in_progress", "blocked", "done", "failed"}

RecomputedStatus(phases, phase_status) ==
  LET Some(status) == \E p \in phases : phase_status[p] = status IN
  IF phases # {} /\ \A p \in phases : phase_status[p] = "done" THEN "done"
  ELSE IF Some("blocked") THEN "blocked"
  ELSE IF Some("in_progress") THEN "in_progress"
  ELSE IF Some("failed") THEN "failed"
  ELSE "not_started"
===============================================================================
