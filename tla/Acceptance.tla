------------------------------ MODULE Acceptance ------------------------------
(***************************************************************************)
(* The acceptance gates of agent_runtime/acceptance as pure operators: what *)
(* gates.py and adoption.py answer for a phase, a module and an experiment, *)
(* from the required items of the current guide.                            *)
(*                                                                         *)
(* An item is a required decision or done check; status gives its status,  *)
(* where "waiting" is blocked with one of WAITING_BLOCKER_CODES and         *)
(* "blocked" is blocked with another code.  malformed is the set of items   *)
(* that decision_invalid_reason or done_check_invalid_reason objects to     *)
(* because of how they are written: a decision for another overview        *)
(* version, a check without a verifier.  Items that are not required, and  *)
(* items bound to another place than their guide, reach no gate and are    *)
(* left out.                                                                *)
(***************************************************************************)
EXTENDS Naturals, Sequences

CONSTANTS
  Decisions, Checks,
  GuidePhase,        \* the phase whose guide lists the item
  GuideModule,       \* and its module
  ScopeOf,           \* decision_scope, check_scope
  StateTransitions,  \* the checks of check_type "state_transition"
  RecordBased        \* the checks with derived_from_record_ids

Items == Decisions \cup Checks
Scopes == {"phase", "module", "experiment"}

ASSUME AcceptanceAssumption ==
  /\ Decisions \cap Checks = {}
  /\ ScopeOf \in [Items -> Scopes]
  /\ DOMAIN GuidePhase = Items
  /\ DOMAIN GuideModule = Items
  /\ StateTransitions \subseteq Checks
  /\ RecordBased \subseteq Checks

DecisionStatuses == {"open", "proposed", "waiting", "blocked", "decided", "obsolete"}
CheckStatuses == {"unmet", "met", "waiting", "blocked", "invalid"}
StatusFunctions == {st \in [Items -> DecisionStatuses \cup CheckStatuses] :
                      /\ \A d \in Decisions : st[d] \in DecisionStatuses
                      /\ \A c \in Checks : st[c] \in CheckStatuses}

-------------------------------------------------------------------------------
(* validators.py *)

\* has_illegal_decision_transition; a required decision cannot become rejected.
AllowedTransitions(from) ==
  CASE from = "open" -> {"proposed", "waiting", "blocked", "obsolete"}
    [] from = "proposed" -> {"decided", "obsolete"}
    [] from \in {"waiting", "blocked"} -> {"open", "proposed"}
    [] from \in {"decided", "obsolete"} -> {}

Closed(items, status) == \A i \in items : status[i] \in {"decided", "met"}
WaitingBlocked(items, status) == \E i \in items : status[i] = "waiting"

\* known: the records the gate is told of contain those the record-based checks name.
Invalid(items, status, malformed, known) ==
  \E i \in items : \/ i \in malformed
                   \/ status[i] = "invalid"
                   \/ i \in RecordBased /\ ~known

\* resolve_acceptance_failure.  No gate of the runtime loop asks for a revised guide: it hands
\* the gates the items of the current guide and tells them that the guide covers those.
Route(escalate, pause) ==
  IF escalate THEN "escalate_to_overview_revision"
  ELSE IF pause THEN "pause_acceptance"
  ELSE "keep_current_state"

Required(items, scope) == {i \in items : ScopeOf[i] = scope}

\* Object n of a list goes with result n, if there are so many.
Paired(objects, results, kind) ==
  \A n \in DOMAIN objects : n \in DOMAIN results /\ results[n] = kind

-------------------------------------------------------------------------------
(* gates.py, of the items of the current guide *)

\* Mutant: state_after is not asked for.
PhaseGateWithoutStateAfter(items, status, malformed, known, after_met) ==
  LET required == Required(items, "phase") IN
  IF Closed(required, status)
  THEN "phase_done"
  ELSE Route(Invalid(required, status, malformed, known), WaitingBlocked(required, status))
PhaseGate(items, status, malformed, known, after_met) ==
  LET required == Required(items, "phase")
      conflict == ~after_met /\ \E c \in required \cap StateTransitions : status[c] = "met"
  IN
  IF Closed(required, status) /\ after_met
  THEN "phase_done"
  ELSE Route(Invalid(required, status, malformed, known) \/ conflict,
             WaitingBlocked(required, status))

\* Mutant: the module is closed with its own items, whatever the phases' results.
ModuleGateOfItems(items, phases, phase_results, status, malformed) ==
  LET required == Required(items, "module") IN
  IF Closed(required, status)
  THEN "module_done"
  ELSE Route(Invalid(required, status, malformed, FALSE), WaitingBlocked(required, status))
ModuleGate(items, phases, phase_results, status, malformed) ==
  LET required == Required(items, "module") IN
  IF Paired(phases, phase_results, "phase_done") /\ Closed(required, status)
  THEN "module_done"
  ELSE Route(\/ Invalid(required, status, malformed, FALSE)
             \/ \E n \in DOMAIN phase_results :
                   phase_results[n] = "escalate_to_overview_revision",
             WaitingBlocked(required, status))

\* A module without a result is a conflict.
ExperimentGate(items, modules, module_results, status, malformed) ==
  LET required == Required(items, "experiment") IN
  IF Paired(modules, module_results, "module_done") /\ Closed(required, status)
  THEN "experiment_done"
  ELSE Route(\/ Len(module_results) < Len(modules)
             \/ Invalid(required, status, malformed, FALSE),
             WaitingBlocked(required, status))

-------------------------------------------------------------------------------
(* adoption.py: a candidate has a scope, the module and phase it is bound to, the items it    *)
(* names as its sources, and is sound if it has evidence, a snapshot, an acceptance basis and *)
(* a promotable type.                                                                         *)

ScopeMatches(candidate, i) ==
  CASE candidate.scope = "phase" -> ScopeOf[i] = "phase" /\ GuidePhase[i] = candidate.phase
    [] candidate.scope = "module" -> /\ ScopeOf[i] \in {"module", "phase"}
                                     /\ GuideModule[i] = candidate.module
    [] candidate.scope = "experiment" -> TRUE

\* evaluate_adoption_candidate, for the items of the current guide and the scopes its gates
\* closed; unfinished: some record of the state is of an attempt that is not done.
Adoptable(candidate, items, closed, status, unfinished) ==
  /\ candidate.sound
  /\ ~unfinished
  /\ candidate.scope \in closed
  /\ \E i \in candidate.sources \cap items : Closed({i}, status) /\ ScopeMatches(candidate, i)
===============================================================================
