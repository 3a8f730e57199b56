----------------------------- MODULE PhaseProgress -----------------------------
(***************************************************************************)
(* run_runtime with the services it runs with by default: RuntimeLoop says *)
(* which way each stage may send the loop, this module which way it does,  *)
(* from the statuses of the modules and phases (scheduling/module_          *)
(* selection.py, phase_selection.py, guide_resolution.py) and the gates    *)
(* (acceptance/gates.py, adoption.py, evaluate_acceptance_and_promotion).  *)
(* Its stages are those of RuntimeLoop with the choice made, so it         *)
(* implements RuntimeLoop without any refinement mapping.                  *)
(*                                                                         *)
(* The executor is the caller's: one call moves items of the current guide *)
(* along the transitions transition_decision_item allows, establishes the  *)
(* state_after of the current phase, or marks that phase as in progress,   *)
(* blocked or failed.  The migration runner is the caller's too: none, or  *)
(* one that resumes at a point Migration allows (ResumePointOpen there).   *)
(*                                                                         *)
(* Abstracted: the reasons of a failed or blocked phase are classes of     *)
(* reasons; a guide has the items of its phase in the first version and    *)
(* none after a migration (create_new_execution_guide); the candidate for  *)
(* adoption is one, with the number of its adopted copies.                 *)
(***************************************************************************)
EXTENDS RuntimeLoop, Acceptance, ModuleState

CONSTANTS
  PhaseOrder,      \* module.phase_ids
  StateAfter,      \* phase.state_after
  Skeletons,       \* overviews: the modules in order and what each depends on
  Candidates,      \* adopted_results to begin with
  Scenarios,       \* bound: what the caller may start from
  MigratedStatuses \* bound: what a migration may make of the phases

PhasesOf(m) == {p \in Phases : ModuleOf[p] = m}
PhaseStatuses == {"not_started", "in_progress", "blocked", "done", "failed"}
Reasons == {"escalation", "waiting", "guide_missing_info"}
States == {StateAfter[p] : p \in Phases}

ASSUME ProgressAssumption ==
  /\ \A i \in Items : GuidePhase[i] \in Phases /\ GuideModule[i] = ModuleOf[GuidePhase[i]]
  /\ PhaseOrder \in [Modules -> Seq(Phases)]
  /\ \A m \in Modules : {PhaseOrder[m][n] : n \in DOMAIN PhaseOrder[m]} = PhasesOf(m)
  /\ \A m \in Modules : \A i, j \in DOMAIN PhaseOrder[m] :
        PhaseOrder[m][i] = PhaseOrder[m][j] => i = j
  /\ DOMAIN StateAfter = Phases
  /\ \A s \in Skeletons : s.order \in Seq(Modules) /\ s.depends \in [Modules -> SUBSET Modules]
  /\ \A c \in Candidates : /\ c.scope \in Scopes
                           /\ c.sources \subseteq Items
                           /\ c.sound \in BOOLEAN
                           /\ c.phase \in Phases
                           /\ c.module \in Modules
  /\ \A s \in Scenarios : /\ s.skeleton \in Skeletons
                          /\ s.status \in [Phases -> PhaseStatuses]
                          /\ s.reasons \in [Phases -> SUBSET Reasons]
                          /\ s.guides \subseteq Phases
                          /\ s.repairable \subseteq Phases
                          /\ s.malformed \subseteq Items
                          /\ s.candidate \in Candidates
  /\ MigratedStatuses \subseteq [Phases -> PhaseStatuses \ {"failed"}]
  /\ MaxAdopted # 0

VARIABLES
  skeleton,             \* state.overview
  module_status,
  blocked_phase_ids,    \* of each module, as recompute_module_state left them
  phase_status,
  failure_reasons,
  satisfied_state_afters,
  repairable,           \* state.locally_repairable_phase_ids
  item_status,
  malformed,
  unfinished_records,   \* some attempt on record is not done
  candidate,
  adopted               \* how many adopted copies of the candidate there are

objects == <<module_status, blocked_phase_ids, phase_status, failure_reasons>>
work == <<satisfied_state_afters, item_status, unfinished_records>>
given == <<repairable, malformed, candidate>>
progress == <<skeleton, objects, work, given, adopted>>
progress_vars == <<vars, progress>>

Present == {skeleton.order[n] : n \in DOMAIN skeleton.order}
PresentPhases == {p \in Phases : ModuleOf[p] \in Present}
Precedes(p, q) == /\ ModuleOf[p] = ModuleOf[q]
                  /\ \E i, j \in DOMAIN PhaseOrder[ModuleOf[p]] :
                       /\ i < j
                       /\ PhaseOrder[ModuleOf[p]][i] = p
                       /\ PhaseOrder[ModuleOf[p]][j] = q

ProgressTypeOK ==
  /\ skeleton \in Skeletons
  /\ module_status \in [Modules -> ModuleStatuses]
  /\ blocked_phase_ids \in [Modules -> SUBSET Phases]
  /\ phase_status \in [Phases -> PhaseStatuses]
  /\ failure_reasons \in [Phases -> SUBSET Reasons]
  /\ satisfied_state_afters \subseteq States
  /\ repairable \subseteq Phases
  /\ item_status \in StatusFunctions
  /\ malformed \subseteq Items
  /\ unfinished_records \in BOOLEAN
  /\ candidate \in Candidates
  /\ adopted \in Nat

-------------------------------------------------------------------------------
(* validate_current_module *)

StateAfterSatisfied(p) == StateAfter[p] \in satisfied_state_afters
DependencySatisfied(m) == \A d \in skeleton.depends[m] : module_status[d] = "done"
HasPhaseCandidate(m) == \E p \in PhasesOf(m) : phase_status[p] # "done"
ModuleIsWaitingBlocked(m) ==
  /\ blocked_phase_ids[m] # {}
  /\ \A p \in blocked_phase_ids[m] : "waiting" \in failure_reasons[p]

SelectableAlternatives ==
  {m \in Present : /\ module_status[m] \notin {"blocked", "done", "failed"}
                   /\ DependencySatisfied(m)
                   /\ HasPhaseCandidate(m)}

SwitchToFirst(alternatives) ==
  \E n \in DOMAIN skeleton.order :
    /\ skeleton.order[n] \in alternatives
    /\ \A k \in 1..(n - 1) : skeleton.order[k] \notin alternatives
    /\ SwitchModule(skeleton.order[n])

PauseOrEscalate(waiting) == (waiting /\ PauseModule) \/ (~waiting /\ Escalate)

SelectModule ==
  \/ SwitchToFirst(SelectableAlternatives)
  \/ /\ SelectableAlternatives = {}
     /\ PauseOrEscalate(\E m \in Present : /\ module_status[m] = "blocked"
                                           /\ ModuleIsWaitingBlocked(m))

LeaveBlockedModule ==
  \/ SwitchToFirst(SelectableAlternatives \ {current_module_id})
  \/ /\ SelectableAlternatives \ {current_module_id} = {}
     /\ PauseOrEscalate(ModuleIsWaitingBlocked(current_module_id))

CurrentModuleUsable ==
  /\ current_module_id # None
  /\ module_status[current_module_id] # "done"
  /\ DependencySatisfied(current_module_id)
  /\ HasPhaseCandidate(current_module_id)
CurrentModuleBlocked == current_module_id # None /\ module_status[current_module_id] = "blocked"

ValidateCurrentModule ==
  /\ At("module_resolution")
  /\ Resolution
  /\ \/ CurrentModuleBlocked /\ LeaveBlockedModule
     \/ ~CurrentModuleBlocked /\ CurrentModuleUsable /\ KeepModule
     \/ ~CurrentModuleBlocked /\ ~CurrentModuleUsable /\ SelectModule
  /\ UNCHANGED progress

-------------------------------------------------------------------------------
(* validate_current_phase *)

\* _route_non_happy_phase.
\* Mutant: a waiting phase pauses the run as a waiting module does, without a waiting context.
RouteLikeModule(p, default_revise) ==
  LET reasons == failure_reasons[p]
      revise == default_revise \/ "guide_missing_info" \in reasons \/ p \in repairable
  IN
  \/ "escalation" \in reasons /\ Escalate
  \/ "escalation" \notin reasons /\ "waiting" \in reasons /\ PauseModule
  \/ reasons \cap {"escalation", "waiting"} = {} /\ revise /\ ReviseGuide
  \/ reasons \cap {"escalation", "waiting"} = {} /\ ~revise /\ Escalate
RouteNonHappyPhase(p, default_revise) ==
  LET reasons == failure_reasons[p]
      revise == default_revise \/ "guide_missing_info" \in reasons \/ p \in repairable
  IN
  \/ "escalation" \in reasons /\ Escalate
  \/ "escalation" \notin reasons /\ "waiting" \in reasons /\ PausePhase
  \/ reasons \cap {"escalation", "waiting"} = {} /\ revise /\ ReviseGuide
  \/ reasons \cap {"escalation", "waiting"} = {} /\ ~revise /\ Escalate

Order == PhaseOrder[current_module_id]

\* The phase that follows a closed current phase.
FollowsCurrent(n) == n > 1 /\ Order[n - 1] = current_phase_id

\* Mutant: the phases before an unfinished one are not looked at.
SelectUnfinishedPhase ==
  \/ \E n \in DOMAIN Order : phase_status[Order[n]] # "done" /\ SwitchPhase(Order[n])
  \/ (\A n \in DOMAIN Order : phase_status[Order[n]] = "done") /\ Escalate

SelectFirstUnfinished ==
  \/ \E n \in DOMAIN Order :
       /\ \A k \in 1..(n - 1) : phase_status[Order[k]] = "done"
       /\ \/ /\ phase_status[Order[n]] \in {"not_started", "in_progress"}
             /\ SwitchPhase(Order[n])
          \/ /\ phase_status[Order[n]] \in {"blocked", "failed"}
             /\ RouteNonHappyPhase(Order[n], FALSE)
  \/ (\A n \in DOMAIN Order : phase_status[Order[n]] = "done") /\ Escalate

\* select_phase_within_current_module, which is only asked about a current phase that is closed.
SelectPhase ==
  \/ \E n \in DOMAIN Order : FollowsCurrent(n) /\ SwitchPhase(Order[n])
  \/ (\A n \in DOMAIN Order : ~FollowsCurrent(n)) /\ SelectFirstUnfinished

\* Mutant: a closed phase stays current.
KeepClosedPhase ==
  LET status == phase_status[current_phase_id] IN
  /\ At("phase_resolution")
  /\ Resolution
  /\ \/ current_phase_id = None /\ SelectPhase
     \/ /\ current_phase_id # None
        /\ \/ status \in {"not_started", "in_progress", "done"} /\ KeepPhase
           \/ status = "blocked" /\ RouteNonHappyPhase(current_phase_id, FALSE)
           \/ status = "failed" /\ RouteNonHappyPhase(current_phase_id, TRUE)
  /\ UNCHANGED progress

ValidateCurrentPhase ==
  LET status == phase_status[current_phase_id] IN
  /\ At("phase_resolution")
  /\ Resolution
  /\ \/ current_phase_id = None /\ SelectPhase
     \/ /\ current_phase_id # None
        /\ \/ status \in {"not_started", "in_progress"} /\ KeepPhase
           \/ status = "done" /\ StateAfterSatisfied(current_phase_id) /\ SelectPhase
           \/ status = "done" /\ ~StateAfterSatisfied(current_phase_id) /\ ReviseGuide
           \/ status = "blocked" /\ RouteNonHappyPhase(current_phase_id, FALSE)
           \/ status = "failed" /\ RouteNonHappyPhase(current_phase_id, TRUE)
  /\ UNCHANGED progress

\* resolve_current_active_guide
\* Mutant: a phase without a guide is taken to be repairable.
ResolveGuideOrRepair ==
  LET active == <<current_phase_id, overview_version>> \in guides IN
  /\ At("guide_resolution")
  /\ Resolution
  /\ \/ active /\ UseGuide
     \/ ~active /\ current_phase_id \in repairable /\ ReviseGuide
  /\ UNCHANGED progress
ResolveCurrentGuide ==
  LET active == <<current_phase_id, overview_version>> \in guides IN
  /\ At("guide_resolution")
  /\ Resolution
  /\ \/ active /\ UseGuide
     \/ ~active /\ current_phase_id \in repairable /\ ReviseGuide
     \/ ~active /\ current_phase_id \notin repairable /\ Escalate
  /\ UNCHANGED progress

-------------------------------------------------------------------------------
(* The executor *)

GuideItems == {i \in Items : current_guide_id = <<GuidePhase[i], 1>>}

\* Where an item of the guide may stand after a call.
MovesOf(i) ==
  {item_status[i]} \cup
  (IF i \notin GuideItems THEN {}
   ELSE IF i \in Decisions THEN AllowedTransitions(item_status[i])
   ELSE CheckStatuses)

ItemsMove == item_status' \in {st \in StatusFunctions : \A i \in Items : st[i] \in MovesOf(i)}

\* Mutant: the phase is noted in place of its state_after.
WorkNotingPhase ==
  /\ ItemsMove
  /\ satisfied_state_afters' \in {satisfied_state_afters,
                                  satisfied_state_afters \cup {current_phase_id}}
  /\ UNCHANGED <<phase_status, failure_reasons>>
WorkOnGuide ==
  /\ ItemsMove
  /\ satisfied_state_afters' \in {satisfied_state_afters,
                                  satisfied_state_afters \cup {StateAfter[current_phase_id]}}
  /\ UNCHANGED <<phase_status, failure_reasons>>

MarkPhase ==
  /\ \E status \in {"in_progress", "blocked", "failed"}, reasons \in SUBSET Reasons :
       /\ status = "in_progress" => reasons = {}
       /\ phase_status' = [phase_status EXCEPT ![current_phase_id] = status]
       /\ failure_reasons' = [failure_reasons EXCEPT ![current_phase_id] = reasons]
  /\ UNCHANGED <<item_status, satisfied_state_afters>>

\* The records of a failed or running attempt stay with the state.  What a call may do to the
\* action pointer and the waiting context is RuntimeLoop's subject: here it leaves them alone.
RunExecutor ==
  /\ ExecuteAction
  /\ UNCHANGED <<current_action_id, waiting_context>>
  /\ WorkOnGuide \/ MarkPhase
  /\ unfinished_records' \in {unfinished_records, record_versions' # record_versions}
  /\ UNCHANGED <<skeleton, module_status, blocked_phase_ids, given, adopted>>

-------------------------------------------------------------------------------
(* evaluate_acceptance_and_promotion *)

PhaseVerdict ==
  PhaseGate(GuideItems, item_status, malformed, record_versions # {},
            StateAfterSatisfied(current_phase_id))

\* The other phases of the module count as kept, whatever they are.
PhaseResults == [n \in DOMAIN Order |-> IF Order[n] = current_phase_id THEN "phase_done"
                                                                      ELSE "keep_current_state"]
ModuleVerdict == ModuleGate(GuideItems, Order, PhaseResults, item_status, malformed)
ExperimentVerdict ==
  ExperimentGate(GuideItems, skeleton.order, <<"module_done">>, item_status, malformed)

Verdicts ==
  IF PhaseVerdict # "phase_done" THEN <<PhaseVerdict>>
  ELSE IF ModuleVerdict # "module_done" THEN <<"phase_done", ModuleVerdict>>
  ELSE <<"phase_done", "module_done", ExperimentVerdict>>

ClosedScopes ==
  LET verdict == [phase |-> "phase_done", module |-> "module_done",
                  experiment |-> "experiment_done"]
  IN {s \in Scopes : \E n \in DOMAIN Verdicts : Verdicts[n] = verdict[s]}

\* A decision of another overview version binds no candidate.
BindingItems == GuideItems \ (malformed \cap Decisions)

\* The candidate and every adopted copy of it are evaluated.
NewlyAdopted ==
  IF Adoptable(candidate, BindingItems, ClosedScopes, item_status, unfinished_records)
  THEN 1 + adopted ELSE 0

EvaluateAndPromote ==
  /\ At("acceptance_promotion")
  /\ results' = Verdicts \o Adoptions(NewlyAdopted)
  /\ phase_status' = IF PhaseVerdict = "phase_done"
                     THEN [phase_status EXCEPT ![current_phase_id] = "done"]
                     ELSE phase_status
  /\ Goto("acceptance_results")
  /\ UNCHANGED <<iterations, runtime_status, pointers, waiting_context, versions, guides,
                 record_versions, skeleton, module_status, blocked_phase_ids, failure_reasons,
                 work, given, adopted>>

HandleResult ==
  /\ HandleAcceptance
  /\ adopted' = IF Head(results) = "adopted" THEN adopted + 1 ELSE adopted
  /\ UNCHANGED <<skeleton, objects, work, given>>

-------------------------------------------------------------------------------
(* Migration *)

NewItems == [i \in Items |-> IF i \in Decisions THEN "open" ELSE "unmet"]

\* What recompute_module_state makes of the modules.
Recomputed(status) ==
  /\ module_status' = [m \in Modules |-> RecomputedStatus(PhasesOf(m), status)]
  /\ blocked_phase_ids' = [m \in Modules |-> {p \in PhasesOf(m) : status[p] = "blocked"}]

\* The new objects are resumed at p; the guides with the items are gone.  The state_afters that
\* are satisfied stay as they are, whether or not the new phases go by the same.
Rebuild(p) ==
  /\ skeleton' \in {s \in Skeletons : ModuleOf[p] \in {s.order[n] : n \in DOMAIN s.order}}
  /\ \E status \in MigratedStatuses :
       /\ status[p] # "done"
       /\ status[p] = "blocked" \/ \A q \in Phases : Precedes(q, p) => status[q] = "done"
       /\ phase_status' = status
       /\ failure_reasons' = [q \in Phases |-> IF status[q] = "blocked" THEN {"waiting"} ELSE {}]
       /\ Recomputed(status)
  /\ satisfied_state_afters' \in {satisfied_state_afters, {}}
  /\ item_status' = NewItems
  /\ UNCHANGED <<unfinished_records, given, adopted>>

Migrate ==
  /\ RunMigration
  /\ \/ overview_version' # overview_version /\ Rebuild(current_phase_id')
     \/ overview_version' = overview_version /\ UNCHANGED progress

-------------------------------------------------------------------------------
\* A state the caller starts from, with what was done before in its statuses.
ProgressInit ==
  \E s \in Scenarios :
    /\ Init
    /\ guides = s.guides \X {1}
    /\ skeleton = s.skeleton
    /\ phase_status = s.status
    /\ failure_reasons = s.reasons
    /\ module_status = [m \in Modules |-> RecomputedStatus(PhasesOf(m), s.status)]
    /\ blocked_phase_ids = [m \in Modules |-> {p \in PhasesOf(m) : s.status[p] = "blocked"}]
    /\ satisfied_state_afters = {StateAfter[p] : p \in {q \in Phases : s.status[q] = "done"}}
    /\ repairable = s.repairable
    /\ item_status = NewItems
    /\ malformed = s.malformed
    /\ unfinished_records = FALSE
    /\ candidate = s.candidate
    /\ adopted = 0

ProgressNext ==
  \/ TerminalCheck /\ UNCHANGED progress
  \/ IterationLimit /\ UNCHANGED progress
  \/ ValidateOverview /\ UNCHANGED progress
  \/ ValidateCurrentModule
  \/ ValidateCurrentPhase
  \/ ResolveCurrentGuide
  \/ BindGuide /\ UNCHANGED progress
  \/ ResolveAction /\ UNCHANGED progress
  \/ RunExecutor
  \/ EvaluateAndPromote
  \/ HandleResult
  \/ Migrate

ProgressSpec ==
  ProgressInit /\ [][ProgressNext]_progress_vars /\ WF_progress_vars(ProgressNext)

-------------------------------------------------------------------------------
(* Properties *)

\* These services implement RuntimeLoop: every choice they make is one it allows, so what it
\* guarantees holds for them.
LoopSafety == Init /\ [][Next]_vars

\* The services answer in every state the run gets into, with an answer its handlers know (each
\* ends in raise ValueError for any other): together with LoopSafety, the run returns.
AlwaysAnswers == stage # "returned" => ENABLED ProgressNext

\* A phase is only worked on, and only judged, when every phase before it is done and its
\* module's dependencies are, whatever the selection skipped, a migration resumed at or the
\* executor marked (validate_current_module, select_phase_within_current_module).
WorkedInOrder ==
  stage \in {"execution_writeback", "acceptance_promotion"} =>
    /\ \A p \in Phases : Precedes(p, current_phase_id) => phase_status[p] = "done"
    /\ DependencySatisfied(current_module_id)

\* The gates make a phase done only when it is the current one, every required item of its scope
\* is closed, its state_after holds and the phases before it are done.
DoneIsEarned ==
  [][At("acceptance_promotion") => \A p \in Phases :
       phase_status[p] # "done" /\ phase_status'[p] = "done" =>
         /\ p = current_phase_id
         /\ Closed(Required(GuideItems, "phase"), item_status)
         /\ StateAfterSatisfied(p)
         /\ \A q \in Phases : Precedes(q, p) => phase_status[q] = "done"]_progress_vars

\* When the gates complete the run, every phase of every module is done and no required item of
\* the guide, of whatever scope, is left open.
CompletionClosesEverything ==
  [][At("acceptance_results") /\ runtime_status # runtime_status' /\ runtime_status' = "completed"
     => /\ \A p \in PresentPhases : phase_status[p] = "done"
        /\ Closed(GuideItems, item_status)]_progress_vars

\* A candidate is adopted once, although its adopted copies join the candidates of every later
\* evaluation (handle_acceptance_result appends to the list the evaluation reads).
AdoptedOnce == adopted <= 1

\* The gate of a module closes it with its last phase ("all module phases closed through
\* phase-gate results", phase-4-acceptance-baseline.md).
LastPhaseClosesModule ==
  [][/\ At("acceptance_promotion")
     /\ \A p \in PhasesOf(current_module_id) : phase_status'[p] = "done"
     /\ Closed(Required(GuideItems, "module"), item_status)
     /\ PhaseVerdict = "phase_done"
     => \E n \in DOMAIN results' : results'[n] = "module_done"]_progress_vars
===============================================================================
