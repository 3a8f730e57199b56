------------------------------ MODULE RuntimeLoop ------------------------------
(***************************************************************************)
(* run_runtime (agent_runtime/runtime/loop.py): one iteration is a walk    *)
(* through the stages terminal check, overview validity, module, phase,   *)
(* guide and action resolution, execution and write-back, acceptance;     *)
(* any stage may end the iteration or divert it into migration.  One      *)
(* action of the specification per stage, each with its handler in        *)
(* orchestration.py; the results of an acceptance evaluation are handled  *)
(* one by one, as in the code.                                             *)
(*                                                                         *)
(* The stages' decisions are made by the services.  Here they are any     *)
(* decision the default services can return for these pointers (module_   *)
(* selection.py, phase_selection.py, guide_resolution.py, action_         *)
(* resolution.py, evaluate_acceptance_and_promotion); the executor and    *)
(* the migration runner are the caller's.                                  *)
(*                                                                         *)
(* Abstracted: a guide is the phase and overview version it is bound to,  *)
(* an action the guide that owns it, a waiting context the version it     *)
(* was taken in, the action records the set of versions they carry.       *)
(***************************************************************************)
EXTENDS Naturals, Sequences

CONSTANTS
  Modules, Phases,
  ModuleOf,       \* the module each phase belongs to
  None,
  MaxIterations,  \* max_iterations
  MaxVersion,     \* bound: overview versions
  MaxAdopted      \* bound: items adopted in one evaluation

ASSUME LoopAssumption == /\ ModuleOf \in [Phases -> Modules]
                         /\ None \notin Modules \cup Phases \cup (Phases \X Nat) \cup Nat
                         /\ MaxIterations \in Nat
                         /\ MaxVersion \in Nat \ {0}
                         /\ MaxAdopted \in Nat

VARIABLES
  stage,                    \* where run_runtime is
  iterations,               \* how many it has started
  runtime_status,
  current_module_id, current_phase_id, current_guide_id, current_action_id,
  waiting_context,
  current_overview_version,
  overview_version,         \* state.overview.version
  superseded,               \* state.overview.superseded_by_version is not None
  objects_version,          \* overview_version of state.modules and state.phases
  guides,                   \* state.guides
  record_versions,          \* the overview_versions in state.action_records
  results                   \* acceptance results not handled yet

pointers == <<current_module_id, current_phase_id, current_guide_id, current_action_id>>
versions == <<current_overview_version, overview_version, superseded, objects_version>>
vars == <<stage, iterations, runtime_status, pointers, waiting_context, versions, guides,
          record_versions, results>>

Versions == 1..MaxVersion
Guides == Phases \X Versions
TerminalStatuses == {"completed", "paused", "escalated"}
IsTerminal(status) == status \in TerminalStatuses
Stages == {"terminal_check", "overview_validity", "module_resolution", "phase_resolution",
           "guide_resolution", "bound_guide", "action_resolution", "execution_writeback",
           "acceptance_promotion", "acceptance_results", "overview_revision_migration",
           "returned"}
AcceptanceKinds == {"keep_current_state", "revise_guide", "pause_acceptance",
                    "escalate_to_overview_revision"}

TypeOK ==
  /\ stage \in Stages
  /\ iterations \in 0..MaxIterations
  /\ runtime_status \in TerminalStatuses \cup {"in_progress"}
  /\ current_module_id \in Modules \cup {None}
  /\ current_phase_id \in Phases \cup {None}
  /\ current_guide_id \in Guides \cup {None}
  /\ current_action_id \in Guides \cup {None}
  /\ waiting_context \in Versions \cup {None}
  /\ current_overview_version \in Versions
  /\ overview_version \in Versions
  /\ superseded \in BOOLEAN
  /\ objects_version \in Versions
  /\ guides \subseteq Guides
  /\ record_versions \subseteq Versions
  /\ results \in Seq(AcceptanceKinds
                     \cup {"phase_done", "module_done", "experiment_done", "adopted"})

\* validate_current_overview_version
OverviewValid ==
  /\ overview_version = current_overview_version
  /\ ~superseded
  /\ objects_version = current_overview_version
  /\ \A g \in guides : g[2] = current_overview_version
  /\ record_versions \subseteq {current_overview_version}

\* Mutant: the action records are not looked at.
ValidityWithoutRecords ==
  /\ overview_version = current_overview_version
  /\ ~superseded
  /\ objects_version = current_overview_version
  /\ \A g \in guides : g[2] = current_overview_version

-------------------------------------------------------------------------------
(* Control *)

At(s) == stage = s
Goto(s) == stage' = s
Loop == Goto("terminal_check")         \* continue
ClearGuideAndAction ==
  /\ current_guide_id' = None
  /\ current_action_id' = None

Stop(status) == /\ runtime_status' = status
                /\ Loop

-------------------------------------------------------------------------------
(* The head of an iteration *)

\* Mutants: the loop runs once too often; a return to its head is not counted.
TerminalCheckOnceMore ==
  /\ At("terminal_check")
  /\ iterations <= MaxIterations
  /\ iterations' = iterations + 1
  /\ Goto(IF IsTerminal(runtime_status) THEN "returned" ELSE "overview_validity")
  /\ UNCHANGED <<runtime_status, pointers, waiting_context, versions, guides, record_versions,
                 results>>
TerminalCheckUncounted ==
  /\ At("terminal_check")
  /\ Goto(IF IsTerminal(runtime_status) THEN "returned" ELSE "overview_validity")
  /\ UNCHANGED <<iterations, runtime_status, pointers, waiting_context, versions, guides,
                 record_versions, results>>

TerminalCheck ==
  /\ At("terminal_check")
  /\ iterations < MaxIterations
  /\ iterations' = iterations + 1
  /\ Goto(IF IsTerminal(runtime_status) THEN "returned" ELSE "overview_validity")
  /\ UNCHANGED <<runtime_status, pointers, waiting_context, versions, guides, record_versions,
                 results>>

\* The for loop runs out.
IterationLimit ==
  /\ At("terminal_check")
  /\ iterations = MaxIterations
  /\ runtime_status' = "escalated"
  /\ Goto("returned")
  /\ UNCHANGED <<iterations, pointers, waiting_context, versions, guides, record_versions,
                 results>>

ValidityOf(valid) ==
  /\ At("overview_validity")
  /\ Goto(IF valid THEN "module_resolution" ELSE "overview_revision_migration")
  /\ UNCHANGED <<iterations, runtime_status, pointers, waiting_context, versions, guides,
                 record_versions, results>>

ValidateLoosely == ValidityOf(ValidityWithoutRecords)    \* mutant
ValidateOverview == ValidityOf(OverviewValid)

-------------------------------------------------------------------------------
(* Resolution: a default service's decision and its handler *)

Resolution == UNCHANGED <<iterations, versions, guides, record_versions, results>>
Escalate == /\ Goto("overview_revision_migration")
            /\ UNCHANGED <<pointers, runtime_status, waiting_context>>
ReviseGuide == /\ ClearGuideAndAction
               /\ Loop
               /\ UNCHANGED <<current_module_id, current_phase_id, runtime_status,
                              waiting_context>>

\* Mutant: the old module's phase stays current.
SwitchModuleKeepPhase(m) ==
  /\ current_module_id' = m
  /\ ClearGuideAndAction
  /\ Loop
  /\ UNCHANGED <<current_phase_id, runtime_status, waiting_context>>
SwitchModule(m) ==
  /\ current_module_id' = m
  /\ current_phase_id' = None
  /\ ClearGuideAndAction
  /\ Loop
  /\ UNCHANGED <<runtime_status, waiting_context>>

KeepModule == /\ current_module_id # None
              /\ Goto("phase_resolution")
              /\ UNCHANGED <<pointers, runtime_status, waiting_context>>

PauseModule == Stop("paused") /\ UNCHANGED <<pointers, waiting_context>>

ResolveModule ==
  /\ At("module_resolution")
  /\ Resolution
  /\ \/ KeepModule
     \/ \E m \in Modules : SwitchModule(m)
     \/ PauseModule
     \/ Escalate

SwitchPhase(p) ==
  /\ ModuleOf[p] = current_module_id
  /\ current_phase_id' = p
  /\ ClearGuideAndAction
  /\ Loop
  /\ UNCHANGED <<current_module_id, runtime_status, waiting_context>>

KeepPhase == /\ current_phase_id # None
             /\ Goto("guide_resolution")
             /\ UNCHANGED <<pointers, runtime_status, waiting_context>>

\* Mutant: handle_phase_result answers continue_stages.
PausePhaseAndGoOn == /\ runtime_status' = "paused"
                     /\ waiting_context' = current_overview_version
                     /\ Goto("guide_resolution")
                     /\ UNCHANGED pointers
PausePhase == /\ Stop("paused")
              /\ waiting_context' = current_overview_version
              /\ UNCHANGED pointers

ResolvePhase ==
  /\ At("phase_resolution")
  /\ Resolution
  /\ \/ KeepPhase
     \/ \E p \in Phases : SwitchPhase(p)
     \/ PausePhase
     \/ ReviseGuide
     \/ Escalate

\* The service may name a guide that has left state.guides by the time it is bound.
UseGuide == /\ current_phase_id # None
            /\ current_guide_id' = <<current_phase_id, overview_version>>
            /\ Goto("bound_guide")
            /\ UNCHANGED <<current_module_id, current_phase_id, current_action_id,
                           runtime_status, waiting_context>>

ResolveGuide ==
  /\ At("guide_resolution")
  /\ Resolution
  /\ UseGuide \/ ReviseGuide \/ Escalate

BindAnyGuide ==                       \* mutant: the guide is not looked up in state.guides
  /\ At("bound_guide")
  /\ Resolution
  /\ Goto("action_resolution")
  /\ UNCHANGED <<pointers, runtime_status, waiting_context>>

\* resolve_bound_current_guide
BindGuide ==
  /\ At("bound_guide")
  /\ Resolution
  /\ Goto(IF current_guide_id \in guides THEN "action_resolution"
                                         ELSE "overview_revision_migration")
  /\ UNCHANGED <<pointers, runtime_status, waiting_context>>

PickAction == /\ current_action_id' = current_guide_id
              /\ Goto("execution_writeback")
              /\ UNCHANGED <<current_module_id, current_phase_id, current_guide_id,
                             runtime_status, waiting_context>>

PauseAction == /\ Stop("paused")
               /\ current_action_id' \in {current_action_id, current_guide_id}
               /\ waiting_context' = current_overview_version
               /\ UNCHANGED <<current_module_id, current_phase_id, current_guide_id>>

ResolveAction ==
  /\ At("action_resolution")
  /\ Resolution
  /\ PickAction \/ PauseAction \/ ReviseGuide \/ Escalate

-------------------------------------------------------------------------------
(* Execution and acceptance *)

\* handle_execution_writeback.  The code installs whatever record list, action id and waiting
\* context the caller's executor hands back; here they are what an executor that works for the
\* current overview returns: records of its version, the action it was given or none.
ExecuteAction ==
  /\ At("execution_writeback")
  /\ record_versions' \in {record_versions, record_versions \cup {current_overview_version}}
  /\ current_action_id' \in {current_action_id, None}
  /\ waiting_context' \in {waiting_context, current_overview_version}
  /\ \/ /\ Goto("acceptance_promotion")
        /\ UNCHANGED runtime_status
     \/ \E status \in TerminalStatuses : Stop(status)
  /\ UNCHANGED <<iterations, current_module_id, current_phase_id, current_guide_id, versions,
                 guides, results>>

\* What evaluate_acceptance_and_promotion may return: the phase gate's verdict, after a closed
\* phase the module gate's, after a closed module the experiment's, then what was adopted.
Gates ==
  {<<kind>> : kind \in AcceptanceKinds}
  \cup {<<"phase_done", kind>> : kind \in AcceptanceKinds}
  \cup {<<"phase_done", "module_done", kind>> :
          kind \in {"experiment_done"} \cup (AcceptanceKinds \ {"revise_guide"})}
Adoptions(n) == [k \in 1..n |-> "adopted"]
AcceptanceResults ==
  Gates \cup UNION {{gates \o Adoptions(n) : gates \in {g \in Gates : g[1] = "phase_done"}} :
                     n \in 1..MaxAdopted}

EvaluateAcceptance ==
  /\ At("acceptance_promotion")
  /\ results' \in AcceptanceResults
  /\ Goto("acceptance_results")
  /\ UNCHANGED <<iterations, runtime_status, pointers, waiting_context, versions, guides,
                 record_versions>>

\* Mutant: the loop over the results leaves after the first.
HandleFirstOnly == results' = <<>> /\ Loop
\* The loop over the results goes on while there are any.
HandleNext == /\ results' = Tail(results)
              /\ Goto(IF Len(results) = 1 THEN "terminal_check" ELSE "acceptance_results")

\* adopted: the adopted item is appended to state.adopted_results, which the model leaves out.
HandleProgress ==
  /\ Head(results) \in {"keep_current_state", "phase_done", "module_done", "adopted"}
  /\ HandleNext
  /\ UNCHANGED <<runtime_status, pointers>>

HandleRevise ==
  /\ Head(results) = "revise_guide"
  /\ HandleNext
  /\ ClearGuideAndAction
  /\ UNCHANGED <<runtime_status, current_module_id, current_phase_id>>

\* Terminal: handle_acceptance_results returns, run_runtime with it.
HandleEnd ==
  /\ \/ Head(results) = "pause_acceptance" /\ runtime_status' = "paused"
     \/ Head(results) = "experiment_done" /\ runtime_status' = "completed"
  /\ Goto("returned")
  /\ results' = Tail(results)
  /\ UNCHANGED pointers

HandleEscalate ==
  /\ Head(results) = "escalate_to_overview_revision"
  /\ Goto("overview_revision_migration")
  /\ results' = Tail(results)
  /\ UNCHANGED <<runtime_status, pointers>>

HandleAcceptance ==
  /\ At("acceptance_results")
  /\ HandleProgress \/ HandleRevise \/ HandleEnd \/ HandleEscalate
  /\ UNCHANGED <<iterations, waiting_context, versions, guides, record_versions>>

-------------------------------------------------------------------------------
(* Migration: run_overview_revision_and_migration and apply_migration_result *)

\* The new overview is the migration runner's: it may come marked as superseded, as the
\* initial one may.
RebindTo(p) ==
  /\ overview_version < MaxVersion
  /\ overview_version' = overview_version + 1
  /\ superseded' \in BOOLEAN
  /\ objects_version' = overview_version'
  /\ current_overview_version' = overview_version'
  /\ guides' \in {{}, {<<p, overview_version'>>}}
  /\ current_module_id' = ModuleOf[p]
  /\ current_phase_id' = p
  /\ Loop
  /\ UNCHANGED runtime_status

\* Mutant: the wait of the old version is kept.
AutoResumeWaiting(p) == RebindTo(p) /\ ClearGuideAndAction /\ UNCHANGED waiting_context
AutoResume(p) == RebindTo(p) /\ ClearGuideAndAction /\ waiting_context' = None

\* pause_migration, escalate_migration, or auto_resumed without a unique resume point.
MigrationEndsRun == /\ \E status \in {"paused", "escalated"} : Stop(status)
                    /\ UNCHANGED <<pointers, waiting_context, versions, guides>>

\* What was left of an acceptance evaluation is forgotten here.
RunMigration ==
  /\ At("overview_revision_migration")
  /\ (\E p \in Phases : AutoResume(p)) \/ MigrationEndsRun
  /\ results' = <<>>
  /\ UNCHANGED <<iterations, record_versions>>

-------------------------------------------------------------------------------
\* initialize_runtime_state, with guides the caller brings along.
Init ==
  /\ stage = "terminal_check"
  /\ iterations = 0
  /\ runtime_status = "in_progress"
  /\ current_module_id = None
  /\ current_phase_id = None
  /\ current_guide_id = None
  /\ current_action_id = None
  /\ waiting_context = None
  /\ current_overview_version = 1
  /\ overview_version = 1
  /\ superseded \in BOOLEAN
  /\ objects_version = 1
  /\ guides \in SUBSET (Phases \X {1})
  /\ record_versions = {}
  /\ results = <<>>

Next == \/ TerminalCheck
        \/ IterationLimit
        \/ ValidateOverview
        \/ ResolveModule
        \/ ResolvePhase
        \/ ResolveGuide
        \/ BindGuide
        \/ ResolveAction
        \/ ExecuteAction
        \/ EvaluateAcceptance
        \/ HandleAcceptance
        \/ RunMigration

\* The loop is sequential: it takes its next step as long as the services it calls return.
Spec == Init /\ [][Next]_vars /\ WF_vars(Next)

-------------------------------------------------------------------------------
(* Properties *)

\* The pointers of RuntimeState name one place: the phase is of the module, the guide is bound
\* to the phase, the action is of the guide.  No service checks this; it rests on what every
\* handler clears (handle_module_result, handle_phase_result, apply_migration_result).
PointersCoherent ==
  /\ current_phase_id # None => current_module_id = ModuleOf[current_phase_id]
  /\ current_guide_id # None => current_guide_id[1] = current_phase_id
  /\ current_action_id # None => current_action_id = current_guide_id

\* No pointer and no wait outlives the overview version it was taken in ("old active
\* guide/action pointers are not reused after migration", phase-6-runtime-loop.md).
NothingOfOldVersions ==
  /\ current_guide_id # None => current_guide_id[2] = current_overview_version
  /\ current_action_id # None => current_action_id[2] = current_overview_version
  /\ waiting_context \in {None, current_overview_version}

\* From module resolution to acceptance the overview stays what the validity check found: every
\* object and record the executor and the gates see is of the current version.
WorksUnderValidOverview ==
  stage \in {"module_resolution", "phase_resolution", "guide_resolution", "bound_guide",
             "action_resolution", "execution_writeback", "acceptance_promotion"}
  => OverviewValid

\* The executor and the gates only ever run for a guide that is in state.guides ("guide lookup
\* before action resolution must bind exactly one current guide", phase-6-runtime-loop.md).
WorksOnBoundGuide ==
  stage \in {"action_resolution", "execution_writeback", "acceptance_promotion"}
  => current_guide_id \in guides

\* Once the run is paused, completed or escalated, nothing is resolved, executed or migrated.
TerminalStops ==
  [][IsTerminal(runtime_status)
     => UNCHANGED <<pointers, waiting_context, versions, guides, record_versions>>]_vars

\* run_runtime returns, with a terminal status, however the services answer.
Termination == <>(stage = "returned" /\ IsTerminal(runtime_status))

\* What each stage is for, seen by the caller of run_runtime.
Doing ==
  CASE stage = "execution_writeback" -> "work"
    [] stage = "acceptance_promotion" -> "judge"
    [] stage = "acceptance_results" -> "settle"
    [] stage = "overview_revision_migration" -> "renew"
    [] stage = "returned" -> "over"
    [] OTHER -> "seek"
Task == IF Doing \in {"work", "judge"} THEN current_guide_id ELSE None

Lifecycle == INSTANCE RunLifecycle
               WITH doing <- Doing, status <- runtime_status,
                    version <- current_overview_version, task <- Task,
                    asked <- waiting_context, due <- Len(results)

\* run_runtime implements RunLifecycle: what is judged was worked on for the current version
\* and not interrupted, every verdict of an evaluation is settled unless one ends the run or
\* has the overview renewed, and only a renewal changes the version or lifts a wait.
LoopLifecycle == Lifecycle!Spec

\* A terminal status is what the run returns ("terminal re-check", phase-6-runtime-loop.md).
TerminalStatusSticks ==
  [][IsTerminal(runtime_status) => runtime_status' = runtime_status]_vars

\* A resumed migration to an overview that is not itself superseded leaves a state the next
\* iteration can work in ("After `auto_resumed` migration, runtime state is rebound to the new
\* version", phase-6-runtime-loop.md).
AutoResumeIsValid ==
  [][overview_version' # overview_version /\ ~superseded' => OverviewValid']_vars

\* What was adopted is persisted ("adopted acceptance results are persisted into runtime state",
\* phase-6-runtime-loop.md): no result is left over when the run returns.
AdoptedResultsPersist ==
  stage = "returned" => \A n \in DOMAIN results : results[n] # "adopted"
===============================================================================
