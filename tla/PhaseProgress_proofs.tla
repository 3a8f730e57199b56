-------------------------- MODULE PhaseProgress_proofs -------------------------
(***************************************************************************)
(* Proofs about PhaseProgress, for any modules, phases, items, candidates, *)
(* scenarios and migrations: the services implement RuntimeLoop, phases    *)
(* are worked on and closed in order, a completed run has nothing left     *)
(* open, and a candidate is adopted once.                                  *)
(***************************************************************************)
EXTENDS PhaseProgress, RuntimeLoop_proofs, WellFoundedInduction

-------------------------------------------------------------------------------
(* The order of the phases of a module *)

(* The phases a module lists are its own. *)
LEMMA PhasesListed ==
  \A m \in Modules : \A n \in DOMAIN PhaseOrder[m] :
    PhaseOrder[m][n] \in Phases /\ ModuleOf[PhaseOrder[m][n]] = m
BY ProgressAssumption DEF PhasesOf

(* A phase comes before another by its place in their module's list. *)
LEMMA PlaceOfPredecessor ==
  ASSUME NEW m \in Modules, NEW n \in DOMAIN PhaseOrder[m], NEW q \in Phases,
         Precedes(q, PhaseOrder[m][n])
  PROVE  \E k \in 1..(n - 1) : k \in DOMAIN PhaseOrder[m] /\ PhaseOrder[m][k] = q
<1>1. ModuleOf[PhaseOrder[m][n]] = m
  BY PhasesListed
<1>2. ModuleOf[q] = m
  BY <1>1 DEF Precedes
<1>3. PICK i \in DOMAIN PhaseOrder[m], j \in DOMAIN PhaseOrder[m] :
        i < j /\ PhaseOrder[m][i] = q /\ PhaseOrder[m][j] = PhaseOrder[m][n]
  BY <1>2 DEF Precedes
<1>4. j = n
  BY <1>3, ProgressAssumption
<1>5. DOMAIN PhaseOrder[m] = 1..Len(PhaseOrder[m]) /\ Len(PhaseOrder[m]) \in Nat
  BY ProgressAssumption, LenProperties
<1> QED
  BY <1>3, <1>4, <1>5

(* No phase comes before itself. *)
LEMMA PrecedesIrreflexive == ASSUME NEW p \in Phases PROVE ~Precedes(p, p)
<1> SUFFICES ASSUME Precedes(p, p) PROVE FALSE
  OBVIOUS
<1>1. ModuleOf[p] \in Modules
  BY LoopAssumption
<1>2. PICK i \in DOMAIN PhaseOrder[ModuleOf[p]], j \in DOMAIN PhaseOrder[ModuleOf[p]] :
        i < j /\ PhaseOrder[ModuleOf[p]][i] = p /\ PhaseOrder[ModuleOf[p]][j] = p
  BY DEF Precedes
<1>3. i = j
  BY <1>1, <1>2, ProgressAssumption
<1>4. i \in Nat
  BY <1>1, ProgressAssumption, LenProperties
<1> QED
  BY <1>2, <1>3, <1>4

(* What comes before a phase is the phase right before it or comes before that. *)
LEMMA PredecessorsOfNext ==
  ASSUME NEW m \in Modules, NEW n \in DOMAIN PhaseOrder[m], n > 1, NEW q \in Phases,
         Precedes(q, PhaseOrder[m][n])
  PROVE  q = PhaseOrder[m][n - 1] \/ Precedes(q, PhaseOrder[m][n - 1])
<1>1. PICK k \in 1..(n - 1) : k \in DOMAIN PhaseOrder[m] /\ PhaseOrder[m][k] = q
  BY PlaceOfPredecessor
<1>2. DOMAIN PhaseOrder[m] = 1..Len(PhaseOrder[m]) /\ Len(PhaseOrder[m]) \in Nat
  BY ProgressAssumption, LenProperties
<1>3. n - 1 \in DOMAIN PhaseOrder[m] /\ k \in Nat
  BY <1>1, <1>2
<1>4. CASE k = n - 1
  BY <1>1, <1>4
<1>5. CASE k < n - 1
  <2>1. ModuleOf[q] = m /\ ModuleOf[PhaseOrder[m][n - 1]] = m
    BY <1>1, <1>3, PhasesListed
  <2> QED
    BY <1>1, <1>3, <1>5, <2>1 DEF Precedes
<1> QED
  BY <1>1, <1>2, <1>3, <1>4, <1>5

-------------------------------------------------------------------------------
(* The gates *)

(* A gate that does not close its scope answers one of three kinds. *)
LEMMA RouteKinds ==
  ASSUME NEW escalate, NEW pause
  PROVE  Route(escalate, pause) \in AcceptanceKinds \ {"revise_guide"}
BY DEF Route, AcceptanceKinds

(* Each gate closes its scope or routes. *)
LEMMA VerdictKinds ==
  /\ PhaseVerdict \in {"phase_done"} \cup AcceptanceKinds
  /\ ModuleVerdict \in {"module_done"} \cup AcceptanceKinds
  /\ ExperimentVerdict \in {"experiment_done"} \cup (AcceptanceKinds \ {"revise_guide"})
BY RouteKinds DEF PhaseVerdict, ModuleVerdict, ExperimentVerdict, PhaseGate, ModuleGate,
                  ExperimentGate

(* What the evaluation finds of the gates is one of the lists RuntimeLoop allows. *)
LEMMA VerdictsAreGates == Verdicts \in Gates
<1>1. CASE PhaseVerdict # "phase_done"
  BY <1>1, VerdictKinds DEF Verdicts, Gates
<1>2. CASE PhaseVerdict = "phase_done" /\ ModuleVerdict # "module_done"
  BY <1>2, VerdictKinds DEF Verdicts, Gates
<1>3. CASE PhaseVerdict = "phase_done" /\ ModuleVerdict = "module_done"
  BY <1>3, VerdictKinds DEF Verdicts, Gates
<1> QED
  BY <1>1, <1>2, <1>3

(* The phase gate closes a phase when its required items are closed and its state_after holds. *)
LEMMA PhaseDoneMeans ==
  PhaseVerdict = "phase_done" => /\ Closed(Required(GuideItems, "phase"), item_status)
                                 /\ StateAfterSatisfied(current_phase_id)
BY DEF PhaseVerdict, PhaseGate, Route

(* The module gate closes a module of which the current phase is the only one. *)
LEMMA ModuleDoneMeans ==
  ModuleVerdict = "module_done" =>
    /\ Closed(Required(GuideItems, "module"), item_status)
    /\ \A n \in DOMAIN Order : Order[n] = current_phase_id
<1> SUFFICES ASSUME ModuleVerdict = "module_done"
             PROVE  /\ Closed(Required(GuideItems, "module"), item_status)
                    /\ \A n \in DOMAIN Order : Order[n] = current_phase_id
  OBVIOUS
<1>1. /\ Paired(Order, PhaseResults, "phase_done")
      /\ Closed(Required(GuideItems, "module"), item_status)
  BY DEF ModuleVerdict, ModuleGate, Route
<1>2. ASSUME NEW n \in DOMAIN Order PROVE Order[n] = current_phase_id
  <2>1. PhaseResults[n] = "phase_done"
    BY <1>1 DEF Paired
  <2> QED
    BY <2>1 DEF PhaseResults
<1> QED
  BY <1>1, <1>2

(* The experiment gate closes an experiment of one module. *)
LEMMA ExperimentDoneMeans ==
  ExperimentVerdict = "experiment_done" =>
    /\ Closed(Required(GuideItems, "experiment"), item_status)
    /\ \A n \in DOMAIN skeleton.order : n \in DOMAIN <<"module_done">>
BY DEF ExperimentVerdict, ExperimentGate, Paired, Route
-------------------------------------------------------------------------------
(* The inductive invariant *)

Chosen == {"phase_resolution", "guide_resolution", "bound_guide", "action_resolution",
           "execution_writeback", "acceptance_promotion"}
Working == Chosen \ {"phase_resolution"}

PredecessorsDone(p, status) == \A q \in Phases : Precedes(q, p) => status[q] = "done"

(* The pointers follow the order, and what the stages found out still holds.  A migration may *)
(* resume at a waiting phase out of order: it stays blocked while it is current.               *)
Located ==
  /\ current_module_id # None => current_module_id \in Present
  /\ current_phase_id # None => \/ PredecessorsDone(current_phase_id, phase_status)
                                \/ phase_status[current_phase_id] = "blocked"
  /\ stage \in Chosen => /\ current_module_id # None
                         /\ DependencySatisfied(current_module_id)
  /\ stage \in Working => /\ current_phase_id # None
                          /\ PredecessorsDone(current_phase_id, phase_status)
                          /\ phase_status[current_phase_id] # "done"

Pending == \E n \in DOMAIN results : results[n] = "adopted"

(* A result "adopted" is the last one, and there is none once a copy has been adopted. *)
OneAdoption == /\ AdoptedOnce
               /\ Pending => adopted = 0
               /\ \A n \in DOMAIN results : results[n] = "adopted" => n = Len(results)

(* Every phase whose guide could have the candidate adopted is done from then on; the guides   *)
(* of later versions have no items that could.                                                  *)
SourcesDone(status, order) ==
  \A i \in candidate.sources :
    /\ ScopeMatches(candidate, i)
    /\ \E n \in DOMAIN order : order[n] = ModuleOf[GuidePhase[i]]
    => status[GuidePhase[i]] = "done"
Settled == (adopted # 0 \/ Pending) /\ overview_version = 1
           => SourcesDone(phase_status, skeleton.order)

(* A verdict "experiment_done" that waits to be handled still holds. *)
AllClosed == /\ \A p \in PresentPhases : phase_status[p] = "done"
             /\ Closed(GuideItems, item_status)
VerdictHolds ==
  /\ stage = "acceptance_results"
  /\ \E n \in DOMAIN results : results[n] = "experiment_done"
  => AllClosed

PInv == /\ IInv
        /\ ProgressTypeOK
        /\ Located
        /\ OneAdoption
        /\ Settled
        /\ VerdictHolds

-------------------------------------------------------------------------------
(* What the invariant says at a stage *)

(* The current phase is one of the current module. *)
LEMMA CurrentPhase ==
  ASSUME PInv, current_phase_id # None
  PROVE  /\ current_phase_id \in Phases
         /\ current_module_id = ModuleOf[current_phase_id]
         /\ current_module_id \in Modules
BY LoopAssumption DEF PInv, IInv, TypeOK, PointersCoherent

(* The executor and the gates work for the guide of the current phase and version. *)
LEMMA CurrentGuide ==
  ASSUME PInv, stage \in {"execution_writeback", "acceptance_promotion"}
  PROVE  current_guide_id = <<current_phase_id, overview_version>>
<1>1. current_guide_id \in Guides /\ current_guide_id # None
  BY LoopAssumption DEF PInv, IInv, TypeOK, WorksOnBoundGuide, Guides, Versions
<1>2. /\ current_guide_id[1] = current_phase_id
      /\ current_guide_id[2] = current_overview_version
  BY <1>1 DEF PInv, IInv, PointersCoherent, NothingOfOldVersions
<1>3. current_overview_version = overview_version
  BY DEF PInv, IInv, WorksUnderValidOverview, OverviewValid
<1> QED
  BY <1>1, <1>2, <1>3 DEF Guides

(* The overview's modules are modules. *)
LEMMA OrderTyped ==
  ASSUME ProgressTypeOK
  PROVE  /\ skeleton.order \in Seq(Modules)
         /\ Present \subseteq Modules
BY ProgressAssumption, ElementOfSeq DEF ProgressTypeOK, Present

(* All the items the gates look at are of the current phase, in the first version. *)
LEMMA ItemsOfCurrent ==
  ASSUME PInv, stage \in {"execution_writeback", "acceptance_promotion"}, NEW i \in GuideItems
  PROVE  /\ i \in Items
         /\ GuidePhase[i] = current_phase_id
         /\ GuideModule[i] = current_module_id
         /\ overview_version = 1
<1>1. i \in Items /\ current_guide_id = <<GuidePhase[i], 1>>
  BY DEF GuideItems
<1>2. <<GuidePhase[i], 1>> = <<current_phase_id, overview_version>>
  BY <1>1, CurrentGuide
<1>3. GuidePhase[i] = current_phase_id /\ overview_version = 1
  BY <1>2
<1>4. current_phase_id # None
  BY DEF PInv, Located, Working, Chosen
<1> QED
  BY <1>1, <1>3, <1>4, CurrentPhase, ProgressAssumption

(* No copy is adopted a second time: the phase the candidate came from is done, so it is not   *)
(* the current one.                                                                             *)
LEMMA AdoptableOnce ==
  ASSUME PInv, stage = "acceptance_promotion",
         Adoptable(candidate, BindingItems, ClosedScopes, item_status, unfinished_records)
  PROVE  adopted = 0
<1>1. PICK i \in candidate.sources \cap GuideItems : ScopeMatches(candidate, i)
  BY DEF Adoptable, BindingItems
<1>2. GuidePhase[i] = current_phase_id /\ overview_version = 1
  BY <1>1, ItemsOfCurrent
<1>3. current_phase_id # None /\ phase_status[current_phase_id] # "done"
  BY DEF PInv, Located, Working, Chosen
<1>4. current_module_id = ModuleOf[current_phase_id] /\ current_module_id \in Modules
  BY <1>3, CurrentPhase
<1>5. \E n \in DOMAIN skeleton.order : skeleton.order[n] = current_module_id
  BY <1>4, LoopAssumption DEF PInv, Located, Present
<1>6. adopted # 0 => FALSE
  BY <1>1, <1>2, <1>3, <1>4, <1>5 DEF PInv, Settled, SourcesDone
<1> QED
  BY <1>6

(* An evaluation adopts at most one copy, and only when the phase is closed. *)
LEMMA NewlyAdoptedBound ==
  ASSUME PInv, stage = "acceptance_promotion"
  PROVE  NewlyAdopted = 0 \/ (NewlyAdopted = 1 /\ adopted = 0 /\ PhaseVerdict = "phase_done")
<1>1. CASE ~Adoptable(candidate, BindingItems, ClosedScopes, item_status, unfinished_records)
  BY <1>1 DEF NewlyAdopted
<1>2. CASE Adoptable(candidate, BindingItems, ClosedScopes, item_status, unfinished_records)
  <2>1. adopted = 0
    BY <1>2, AdoptableOnce
  <2>2. NewlyAdopted = 1
    BY <1>2, <2>1 DEF NewlyAdopted
  <2>3. PICK s \in Scopes : \E n \in DOMAIN Verdicts :
               Verdicts[n] = [phase |-> "phase_done", module |-> "module_done",
                              experiment |-> "experiment_done"][s]
    BY <1>2 DEF Adoptable, ClosedScopes
  <2>4. PhaseVerdict = "phase_done"
    <3>1. SUFFICES ASSUME PhaseVerdict # "phase_done" PROVE FALSE
      OBVIOUS
    <3>2. Verdicts = <<PhaseVerdict>> /\ PhaseVerdict \in AcceptanceKinds
      BY <3>1, VerdictKinds DEF Verdicts
    <3>3. \E n \in DOMAIN Verdicts : Verdicts[n] \in {"phase_done", "module_done",
                                                      "experiment_done"}
      BY <2>3 DEF Scopes
    <3>4. Verdicts[1] \in {"phase_done", "module_done", "experiment_done"}
      BY <3>2, <3>3
    <3> QED
      BY <3>2, <3>4 DEF AcceptanceKinds
  <2> QED
    BY <2>1, <2>2, <2>4
<1> QED
  BY <1>1, <1>2

(* What the evaluation returns, whole. *)
LEMMA EvaluationAllowed ==
  ASSUME PInv, stage = "acceptance_promotion"
  PROVE  Verdicts \o Adoptions(NewlyAdopted) \in AcceptanceResults
<1>1. Verdicts \in Gates
  BY VerdictsAreGates
<1>2. CASE NewlyAdopted = 0
  <2>1. Adoptions(NewlyAdopted) = <<>>
    BY <1>2 DEF Adoptions
  <2>2. Verdicts \in Seq(ResultKinds)
    BY <1>1, ResultsTyped DEF AcceptanceResults
  <2>3. Verdicts \o Adoptions(NewlyAdopted) = Verdicts
    BY <2>1, <2>2, ConcatEmptySeq
  <2> QED
    BY <1>1, <2>3 DEF AcceptanceResults
<1>3. CASE NewlyAdopted = 1 /\ PhaseVerdict = "phase_done"
  <2>1. Verdicts[1] = "phase_done"
    BY <1>3 DEF Verdicts
  <2>2. 1 \in 1..MaxAdopted
    BY LoopAssumption, ProgressAssumption
  <2>3. Verdicts \in {g \in Gates : g[1] = "phase_done"}
    BY <1>1, <2>1
  <2> QED
    BY <1>3, <2>2, <2>3 DEF AcceptanceResults
<1> QED
  BY <1>2, <1>3, NewlyAdoptedBound

-------------------------------------------------------------------------------
(* The services implement RuntimeLoop, stage by stage *)

(* A non-happy phase is routed to one of handle_phase_result's outcomes. *)
LEMMA RoutesAllowed ==
  ASSUME NEW p, NEW default_revise \in BOOLEAN, RouteNonHappyPhase(p, default_revise)
  PROVE  PausePhase \/ ReviseGuide \/ Escalate
BY DEF RouteNonHappyPhase

(* validate_current_module *)
LEMMA ModuleResolutionAllowed == PInv /\ ValidateCurrentModule => ResolveModule
<1>1. ASSUME PInv, NEW alternatives, SwitchToFirst(alternatives)
      PROVE  \E m \in Modules : SwitchModule(m)
  <2>1. PICK n \in DOMAIN skeleton.order : SwitchModule(skeleton.order[n])
    BY <1>1 DEF SwitchToFirst
  <2>2. skeleton.order[n] \in Modules
    BY <1>1, OrderTyped, ElementOfSeq DEF PInv
  <2> QED
    BY <2>1, <2>2
<1>2. ASSUME NEW waiting \in BOOLEAN, PauseOrEscalate(waiting)
      PROVE  PauseModule \/ Escalate
  BY <1>2 DEF PauseOrEscalate
<1>3. PInv /\ SelectModule => (\E m \in Modules : SwitchModule(m)) \/ PauseModule \/ Escalate
  BY <1>1, <1>2 DEF SelectModule
<1>4. PInv /\ LeaveBlockedModule
      => (\E m \in Modules : SwitchModule(m)) \/ PauseModule \/ Escalate
  <2>1. ModuleIsWaitingBlocked(current_module_id) \in BOOLEAN
    BY DEF ModuleIsWaitingBlocked
  <2> QED
    BY <1>1, <1>2, <2>1 DEF LeaveBlockedModule
<1> QED
  BY <1>3, <1>4 DEF ValidateCurrentModule, ResolveModule

(* validate_current_phase *)
LEMMA PhaseResolutionAllowed == PInv /\ ValidateCurrentPhase => ResolvePhase
<1> SUFFICES ASSUME PInv, ValidateCurrentPhase PROVE ResolvePhase
  OBVIOUS
<1>1. current_module_id \in Modules
  BY DEF PInv, IInv, TypeOK, Located, Chosen, ValidateCurrentPhase, At
<1>2. ASSUME NEW n \in DOMAIN Order, SwitchPhase(Order[n])
      PROVE  \E p \in Phases : SwitchPhase(p)
  BY <1>1, <1>2, PhasesListed DEF Order
<1>3. SelectFirstUnfinished
      => (\E p \in Phases : SwitchPhase(p)) \/ PausePhase \/ ReviseGuide \/ Escalate
  BY <1>2, RoutesAllowed DEF SelectFirstUnfinished
<1>4. SelectPhase
      => (\E p \in Phases : SwitchPhase(p)) \/ PausePhase \/ ReviseGuide \/ Escalate
  BY <1>2, <1>3 DEF SelectPhase
<1> QED
  BY <1>4, RoutesAllowed DEF ValidateCurrentPhase, ResolvePhase

(* resolve_current_active_guide *)
LEMMA GuideResolutionAllowed == PInv /\ ResolveCurrentGuide => ResolveGuide
<1>1. ASSUME PInv, ResolveCurrentGuide PROVE current_phase_id # None
  BY <1>1 DEF PInv, Located, Working, Chosen, ResolveCurrentGuide, At
<1> QED
  BY <1>1 DEF ResolveCurrentGuide, ResolveGuide

(* evaluate_acceptance_and_promotion *)
LEMMA EvaluationIsAllowed ==
  ASSUME PInv, EvaluateAndPromote
  PROVE  EvaluateAcceptance
BY EvaluationAllowed DEF EvaluateAndPromote, EvaluateAcceptance, At

(* Every step of the services is one RuntimeLoop allows. *)
LEMMA ChoicesAreAllowed ==
  ASSUME PInv, ProgressNext
  PROVE  Next
<1>1. CASE ValidateCurrentModule
  BY <1>1, ModuleResolutionAllowed DEF Next
<1>2. CASE ValidateCurrentPhase
  BY <1>2, PhaseResolutionAllowed DEF Next
<1>3. CASE ResolveCurrentGuide
  BY <1>3, GuideResolutionAllowed DEF Next
<1>4. CASE EvaluateAndPromote
  BY <1>4, EvaluationIsAllowed DEF Next
<1>5. CASE RunExecutor \/ HandleResult \/ Migrate
  BY <1>5 DEF Next, RunExecutor, HandleResult, Migrate
<1>6. CASE TerminalCheck \/ IterationLimit \/ ValidateOverview \/ BindGuide \/ ResolveAction
  BY <1>6 DEF Next
<1> QED
  BY <1>1, <1>2, <1>3, <1>4, <1>5, <1>6 DEF ProgressNext

(* So every step is a step of RuntimeLoop or leaves its state as it was. *)
LEMMA StepIsAllowed ==
  ASSUME PInv, [ProgressNext]_progress_vars
  PROVE  [Next]_vars
<1>1. CASE UNCHANGED progress_vars
  BY <1>1 DEF progress_vars
<1> QED
  BY <1>1, ChoicesAreAllowed

-------------------------------------------------------------------------------
(* The invariant holds initially and every step keeps it *)

(* recompute_module_state knows five statuses. *)
LEMMA RecomputedTyped ==
  ASSUME NEW phases, NEW status
  PROVE  RecomputedStatus(phases, status) \in ModuleStatuses
BY DEF RecomputedStatus, ModuleStatuses

(* The items of a new guide are open or unmet. *)
LEMMA NewItemsTyped == NewItems \in StatusFunctions
<1>1. NewItems \in [Items -> DecisionStatuses \cup CheckStatuses]
  BY DEF NewItems, DecisionStatuses, CheckStatuses, Items
<1>2. ASSUME NEW d \in Decisions PROVE NewItems[d] \in DecisionStatuses
  BY DEF NewItems, DecisionStatuses, Items
<1>3. ASSUME NEW c \in Checks PROVE NewItems[c] \in CheckStatuses
  BY AcceptanceAssumption DEF NewItems, CheckStatuses, Items
<1> QED
  BY <1>1, <1>2, <1>3 DEF StatusFunctions

(* What WorkOnGuide may make of the items keeps their statuses. *)
LEMMA ExecutorTyped ==
  ASSUME PInv, RunExecutor
  PROVE  ProgressTypeOK'
<1> USE DEF ProgressTypeOK
<1>1. /\ UNCHANGED <<skeleton, module_status, blocked_phase_ids, given, adopted>>
      /\ stage = "execution_writeback"
      /\ UNCHANGED current_phase_id
  BY DEF RunExecutor, ExecuteAction, At
<1>2. current_phase_id \in Phases
  BY <1>1, CurrentPhase DEF PInv, Located, Working, Chosen
<1>3. unfinished_records' \in BOOLEAN
  BY DEF RunExecutor, PInv
<1>4. CASE WorkOnGuide
  BY <1>1, <1>2, <1>3, <1>4 DEF WorkOnGuide, ItemsMove, States, PInv, given
<1>5. CASE MarkPhase
  <2>1. PICK status \in {"in_progress", "blocked", "failed"}, reasons \in SUBSET Reasons :
          /\ phase_status' = [phase_status EXCEPT ![current_phase_id] = status]
          /\ failure_reasons' = [failure_reasons EXCEPT ![current_phase_id] = reasons]
    BY <1>5 DEF MarkPhase
  <2>2. phase_status' \in [Phases -> PhaseStatuses]
    BY <2>1 DEF PInv, PhaseStatuses
  <2>3. failure_reasons' \in [Phases -> SUBSET Reasons]
    BY <2>1 DEF PInv
  <2>4. UNCHANGED <<item_status, satisfied_state_afters>>
    BY <1>5 DEF MarkPhase
  <2> QED
    BY <1>1, <1>3, <2>2, <2>3, <2>4 DEF PInv, given
<1> QED
  BY <1>4, <1>5 DEF RunExecutor

(* A migration leaves typed objects. *)
LEMMA RebuildTyped ==
  ASSUME ProgressTypeOK, NEW p, Rebuild(p)
  PROVE  ProgressTypeOK'
<1>1. PICK status \in MigratedStatuses :
        /\ phase_status' = status
        /\ failure_reasons' = [q \in Phases |-> IF status[q] = "blocked" THEN {"waiting"} ELSE {}]
        /\ Recomputed(status)
  BY DEF Rebuild
<1>2. phase_status' \in [Phases -> PhaseStatuses]
  BY <1>1, ProgressAssumption
<1>3. failure_reasons' \in [Phases -> SUBSET Reasons]
  BY <1>1 DEF Reasons
<1>4. /\ module_status' \in [Modules -> ModuleStatuses]
      /\ blocked_phase_ids' \in [Modules -> SUBSET Phases]
  BY <1>1, RecomputedTyped DEF Recomputed, PhasesOf
<1>5. /\ skeleton' \in Skeletons
      /\ satisfied_state_afters' \subseteq States
      /\ item_status' \in StatusFunctions
      /\ UNCHANGED <<unfinished_records, given, adopted>>
  BY NewItemsTyped DEF Rebuild, ProgressTypeOK
<1> QED
  BY <1>2, <1>3, <1>4, <1>5 DEF ProgressTypeOK, given

(* Every step keeps the types. *)
LEMMA TypePreserved ==
  ASSUME PInv, [ProgressNext]_progress_vars
  PROVE  ProgressTypeOK'
<1>1. CASE UNCHANGED progress
  BY <1>1 DEF PInv, ProgressTypeOK, progress, objects, work, given
<1>2. CASE RunExecutor
  BY <1>2, ExecutorTyped
<1>3. CASE EvaluateAndPromote
  <2>1. phase_status' \in [Phases -> PhaseStatuses]
    BY <1>3 DEF PInv, ProgressTypeOK, EvaluateAndPromote, PhaseStatuses
  <2> QED
    BY <1>3, <2>1 DEF PInv, ProgressTypeOK, EvaluateAndPromote, work, given
<1>4. CASE HandleResult
  BY <1>4 DEF PInv, ProgressTypeOK, HandleResult, objects, work, given
<1>5. CASE Migrate
  BY <1>1, <1>5, RebuildTyped DEF Migrate, PInv
<1>6. CASE ValidateCurrentModule \/ ValidateCurrentPhase \/ ResolveCurrentGuide
  BY <1>1, <1>6 DEF ValidateCurrentModule, ValidateCurrentPhase, ResolveCurrentGuide
<1> QED
  BY <1>1, <1>2, <1>3, <1>4, <1>5, <1>6 DEF ProgressNext, progress_vars

(* A state the caller starts from satisfies the invariant. *)
LEMMA InitEstablishesPInv == ProgressInit => PInv
<1> SUFFICES ASSUME NEW s \in Scenarios,
                    Init,
                    skeleton = s.skeleton,
                    phase_status = s.status,
                    failure_reasons = s.reasons,
                    module_status = [m \in Modules |-> RecomputedStatus(PhasesOf(m), s.status)],
                    blocked_phase_ids = [m \in Modules |->
                                           {p \in PhasesOf(m) : s.status[p] = "blocked"}],
                    satisfied_state_afters =
                      {StateAfter[p] : p \in {q \in Phases : s.status[q] = "done"}},
                    repairable = s.repairable,
                    item_status = NewItems,
                    malformed = s.malformed,
                    unfinished_records = FALSE,
                    candidate = s.candidate,
                    adopted = 0
             PROVE  PInv
  BY DEF ProgressInit
<1>1. IInv
  BY InitEstablishesIInv
<1>2. ProgressTypeOK
  <2>1. /\ module_status \in [Modules -> ModuleStatuses]
        /\ blocked_phase_ids \in [Modules -> SUBSET Phases]
    BY RecomputedTyped DEF PhasesOf
  <2>2. satisfied_state_afters \subseteq States
    BY DEF States
  <2> QED
    BY <2>1, <2>2, ProgressAssumption, NewItemsTyped DEF ProgressTypeOK
<1>3. Located
  BY DEF Init, Located, Chosen, Working
<1>4. results = <<>> /\ DOMAIN results = {}
  BY DEF Init
<1>5. OneAdoption /\ Settled /\ VerdictHolds
  BY <1>4 DEF OneAdoption, AdoptedOnce, Settled, Pending, VerdictHolds
<1> QED
  BY <1>1, <1>2, <1>3, <1>5 DEF PInv

(* A step that changes neither objects nor module and phase, and enters no new work. *)
LEMMA LocatedFrame ==
  ASSUME Located,
         UNCHANGED <<skeleton, module_status, phase_status, current_module_id, current_phase_id>>,
         stage' \in Chosen => stage \in Chosen,
         stage' \in Working => stage \in Working
  PROVE  Located'
BY DEF Located, Present, DependencySatisfied, PredecessorsDone

(* The module may change to one of the overview; the phase is then chosen anew. *)
LEMMA LocatedByModule == ASSUME PInv, ValidateCurrentModule PROVE Located'
<1>1. UNCHANGED <<skeleton, module_status, phase_status>> /\ stage = "module_resolution"
  BY DEF ValidateCurrentModule, progress, objects, At
<1>2. CASE CurrentModuleUsable /\ KeepModule
  BY <1>1, <1>2 DEF PInv, Located, Present, DependencySatisfied, PredecessorsDone, KeepModule,
                    CurrentModuleUsable, Goto, Chosen, Working, pointers
<1>3. ASSUME NEW alternatives, SwitchToFirst(alternatives)
      PROVE  Located'
  <2>1. PICK n \in DOMAIN skeleton.order : SwitchModule(skeleton.order[n])
    BY <1>3 DEF SwitchToFirst
  <2>2. current_module_id' \in Present' /\ current_phase_id' = None /\ stage' = "terminal_check"
    BY <1>1, <2>1 DEF SwitchModule, Loop, Goto, Present
  <2> QED
    BY <2>2 DEF Located, Chosen, Working
<1>4. CASE PauseModule \/ Escalate
  BY <1>1, <1>4, LocatedFrame DEF PInv, PauseModule, Escalate, Stop, Loop, Goto, Chosen, Working,
                                  pointers
<1> QED
  BY <1>2, <1>3, <1>4 DEF ValidateCurrentModule, SelectModule, LeaveBlockedModule, PauseOrEscalate

(* A phase becomes current only after the phases before it are done, whichever way it is found. *)
LEMMA LocatedByPhase == ASSUME PInv, ValidateCurrentPhase PROVE Located'
<1>1. /\ UNCHANGED <<skeleton, module_status, phase_status>>
      /\ stage = "phase_resolution"
      /\ current_module_id \in Modules
  BY DEF ValidateCurrentPhase, progress, objects, At, PInv, IInv, TypeOK, Located, Chosen
<1>2. CASE PausePhase \/ ReviseGuide \/ Escalate
  BY <1>1, <1>2, LocatedFrame DEF PInv, PausePhase, ReviseGuide, Escalate, Stop, Loop, Goto,
                                  Chosen, Working, pointers
<1>3. ASSUME NEW n \in DOMAIN Order, SwitchPhase(Order[n]),
             PredecessorsDone(Order[n], phase_status)
      PROVE  Located'
  BY <1>1, <1>3 DEF PInv, Located, SwitchPhase, Loop, Goto, Chosen, Working, Present,
                    PredecessorsDone
<1>4. ASSUME SelectFirstUnfinished
      PROVE  Located'
  <2>1. ASSUME NEW n \in DOMAIN Order, SwitchPhase(Order[n]),
               \A k \in 1..(n - 1) : phase_status[Order[k]] = "done"
        PROVE  PredecessorsDone(Order[n], phase_status)
    BY <1>1, <2>1, PlaceOfPredecessor DEF Order, PredecessorsDone
  <2> QED
    BY <1>2, <1>3, <1>4, <2>1, RoutesAllowed DEF SelectFirstUnfinished
<1>5. ASSUME SelectPhase,
             current_phase_id # None => phase_status[current_phase_id] = "done"
      PROVE  Located'
  <2>1. ASSUME NEW n \in DOMAIN Order, FollowsCurrent(n), SwitchPhase(Order[n])
        PROVE  PredecessorsDone(Order[n], phase_status)
    <3>1. n \in Nat /\ n > 1 /\ Order[n - 1] = current_phase_id
      BY <1>1, <2>1, ProgressAssumption, LenProperties DEF FollowsCurrent, Order
    <3>2. n - 1 \in DOMAIN Order
      BY <1>1, <2>1, <3>1, ProgressAssumption, LenProperties DEF Order
    <3>3. current_phase_id \in Phases
      BY <1>1, <3>1, <3>2, PhasesListed DEF Order
    <3>4. phase_status[current_phase_id] = "done"
      BY <1>5, <3>3, LoopAssumption
    <3>5. PredecessorsDone(current_phase_id, phase_status)
      BY <3>3, <3>4, LoopAssumption DEF PInv, Located
    <3> QED
      BY <1>1, <2>1, <3>1, <3>4, <3>5, PredecessorsOfNext DEF Order, PredecessorsDone
  <2> QED
    BY <1>3, <1>4, <1>5, <2>1 DEF SelectPhase
<1>6. CASE /\ current_phase_id # None
           /\ phase_status[current_phase_id] \in {"not_started", "in_progress"}
           /\ KeepPhase
  BY <1>1, <1>6 DEF PInv, Located, KeepPhase, Goto, Chosen, Working, Present, PredecessorsDone,
                    DependencySatisfied, pointers
<1> QED
  BY <1>2, <1>5, <1>6, RoutesAllowed DEF ValidateCurrentPhase

(* The executor marks the current phase, which is none of its own predecessors. *)
LEMMA LocatedByExecutor == ASSUME PInv, RunExecutor PROVE Located'
<1>1. /\ UNCHANGED <<skeleton, module_status, current_module_id, current_phase_id>>
      /\ stage = "execution_writeback"
      /\ stage' \in {"acceptance_promotion", "terminal_check"}
  BY DEF RunExecutor, ExecuteAction, At, Goto, Stop, Loop
<1>2. CASE WorkOnGuide
  BY <1>1, <1>2, LocatedFrame DEF WorkOnGuide, PInv, Chosen, Working
<1>3. CASE MarkPhase
  <2>1. PICK status \in {"in_progress", "blocked", "failed"} :
          phase_status' = [phase_status EXCEPT ![current_phase_id] = status]
    BY <1>3 DEF MarkPhase
  <2>2. /\ current_phase_id \in Phases
        /\ PredecessorsDone(current_phase_id, phase_status)
        /\ DependencySatisfied(current_module_id)
        /\ current_module_id \in Present
        /\ current_phase_id # None /\ current_module_id # None
    BY <1>1, CurrentPhase DEF PInv, Located, Working, Chosen
  <2>3. \A q \in Phases : Precedes(q, current_phase_id) => phase_status'[q] = "done"
    BY <2>1, <2>2, PrecedesIrreflexive DEF PInv, ProgressTypeOK, PredecessorsDone
  <2>4. phase_status'[current_phase_id] # "done"
    BY <2>1, <2>2 DEF PInv, ProgressTypeOK
  <2> QED
    BY <1>1, <2>2, <2>3, <2>4 DEF Located, Present, DependencySatisfied, PredecessorsDone,
                                  Working, Chosen
<1> QED
  BY <1>2, <1>3 DEF RunExecutor

(* Closing the current phase leaves those before it closed. *)
LEMMA LocatedByEvaluation == ASSUME PInv, EvaluateAndPromote PROVE Located'
<1>1. /\ UNCHANGED <<skeleton, module_status, current_module_id, current_phase_id>>
      /\ stage = "acceptance_promotion"
      /\ stage' = "acceptance_results"
  BY DEF EvaluateAndPromote, At, Goto, pointers
<1>2. /\ current_phase_id \in Phases
      /\ PredecessorsDone(current_phase_id, phase_status)
      /\ current_module_id \in Present
  BY <1>1, CurrentPhase DEF PInv, Located, Working, Chosen
<1>3. \A q \in Phases : phase_status[q] = "done" => phase_status'[q] = "done"
  BY DEF EvaluateAndPromote, PInv, ProgressTypeOK
<1> QED
  BY <1>1, <1>2, <1>3 DEF Located, Present, PredecessorsDone, Working, Chosen

(* A migration resumes in order, or at a phase that waits. *)
LEMMA LocatedByMigration == ASSUME PInv, Migrate PROVE Located'
<1>1. stage' = "terminal_check"
  BY DEF Migrate, RunMigration, AutoResume, RebindTo, MigrationEndsRun, Stop, Loop, Goto
<1>2. CASE MigrationEndsRun
  <2>1. UNCHANGED <<pointers, overview_version>>
    BY <1>2 DEF MigrationEndsRun, versions
  <2>2. UNCHANGED progress
    BY <2>1, PInv DEF Migrate, Rebuild
  <2> QED
    BY <1>1, <2>1, <2>2, LocatedFrame DEF PInv, progress, objects, pointers, Chosen, Working
<1>3. ASSUME NEW p \in Phases, AutoResume(p)
      PROVE  Located'
  <2>1. /\ current_phase_id' = p
        /\ current_module_id' = ModuleOf[p]
        /\ overview_version' # overview_version
    BY <1>3 DEF AutoResume, RebindTo, PInv, IInv, TypeOK, Versions
  <2>2. Rebuild(p)
    BY <2>1 DEF Migrate
  <2>3. ModuleOf[p] \in {skeleton'.order[n] : n \in DOMAIN skeleton'.order}
    BY <2>2 DEF Rebuild
  <2>4. PredecessorsDone(p, phase_status') \/ phase_status'[p] = "blocked"
    BY <2>2 DEF Rebuild, PredecessorsDone
  <2> QED
    BY <1>1, <2>1, <2>3, <2>4 DEF Located, Present, PredecessorsDone, Chosen, Working
<1> QED
  BY <1>2, <1>3 DEF Migrate, RunMigration

(* Every step leaves the pointers in order. *)
LEMMA LocatedPreserved ==
  ASSUME PInv, [ProgressNext]_progress_vars
  PROVE  Located'
<1> USE LocatedFrame DEF PInv, progress, objects, pointers, Chosen, Working, At, Goto
<1>1. CASE (TerminalCheck \/ IterationLimit \/ ValidateOverview) /\ UNCHANGED progress
  BY <1>1 DEF TerminalCheck, IterationLimit, ValidateOverview, ValidityOf
<1>2. CASE ResolveCurrentGuide
  BY <1>2 DEF ResolveCurrentGuide, UseGuide, ReviseGuide, Escalate, Loop
<1>3. CASE BindGuide /\ UNCHANGED progress
  BY <1>3 DEF BindGuide
<1>4. CASE ResolveAction /\ UNCHANGED progress
  BY <1>4 DEF ResolveAction, PickAction, PauseAction, ReviseGuide, Escalate, Stop, Loop
<1>5. CASE HandleResult
  BY <1>5 DEF HandleResult, HandleAcceptance, HandleProgress, HandleRevise, HandleEnd,
              HandleEscalate, HandleNext
<1>6. CASE UNCHANGED progress_vars
  BY <1>6 DEF progress_vars, vars
<1> QED
  BY <1>1, <1>2, <1>3, <1>4, <1>5, <1>6, LocatedByModule, LocatedByPhase, LocatedByExecutor,
     LocatedByEvaluation, LocatedByMigration DEF ProgressNext

-------------------------------------------------------------------------------
(* What an evaluation returns *)

(* The verdicts are of the gates, in the order of the scopes; none is "adopted". *)
LEMMA VerdictsListed ==
  /\ Verdicts \in Seq(ResultKinds)
  /\ \A n \in DOMAIN Verdicts : Verdicts[n] # "adopted"
  /\ \A n \in DOMAIN Verdicts : Verdicts[n] = "module_done" =>
       PhaseVerdict = "phase_done" /\ ModuleVerdict = "module_done"
  /\ \A n \in DOMAIN Verdicts : Verdicts[n] = "experiment_done" =>
       /\ PhaseVerdict = "phase_done"
       /\ ModuleVerdict = "module_done"
       /\ ExperimentVerdict = "experiment_done"
<1>1. Verdicts \in Seq(ResultKinds)
  BY VerdictsAreGates, ResultsTyped DEF AcceptanceResults
<1>2. CASE PhaseVerdict # "phase_done"
  <2>1. /\ Verdicts = <<PhaseVerdict>>
        /\ PhaseVerdict \notin {"adopted", "module_done", "experiment_done"}
    BY <1>2, VerdictKinds DEF Verdicts, AcceptanceKinds
  <2> QED
    BY <1>1, <2>1
<1>3. CASE PhaseVerdict = "phase_done" /\ ModuleVerdict # "module_done"
  <2>1. /\ Verdicts = <<"phase_done", ModuleVerdict>>
        /\ ModuleVerdict \notin {"adopted", "module_done", "experiment_done"}
    BY <1>3, VerdictKinds DEF Verdicts, AcceptanceKinds
  <2> QED
    BY <1>1, <2>1
<1>4. CASE PhaseVerdict = "phase_done" /\ ModuleVerdict = "module_done"
  <2>1. /\ Verdicts = <<"phase_done", "module_done", ExperimentVerdict>>
        /\ ExperimentVerdict \notin {"adopted", "module_done"}
    BY <1>4, VerdictKinds DEF Verdicts, AcceptanceKinds
  <2> QED
    BY <1>1, <1>4, <2>1
<1> QED
  BY <1>2, <1>3, <1>4

(* Adopted copies come after the verdicts. *)
LEMMA AdoptionsLast ==
  ASSUME NEW n \in DOMAIN (Verdicts \o Adoptions(NewlyAdopted)), NewlyAdopted \in {0, 1}
  PROVE  \/ n \in DOMAIN Verdicts /\ (Verdicts \o Adoptions(NewlyAdopted))[n] = Verdicts[n]
         \/ /\ NewlyAdopted = 1
            /\ n = Len(Verdicts \o Adoptions(NewlyAdopted))
            /\ (Verdicts \o Adoptions(NewlyAdopted))[n] = "adopted"
<1>1. Verdicts \in Seq(ResultKinds)
  BY VerdictsListed
<1>2. /\ Adoptions(NewlyAdopted) \in Seq(ResultKinds)
      /\ Len(Adoptions(NewlyAdopted)) = NewlyAdopted
      /\ NewlyAdopted = 1 => Adoptions(NewlyAdopted)[1] = "adopted"
  BY DEF Adoptions, ResultKinds
<1>3. /\ Len(Verdicts \o Adoptions(NewlyAdopted)) = Len(Verdicts) + NewlyAdopted
      /\ n \in 1..(Len(Verdicts) + NewlyAdopted)
      /\ Len(Verdicts) \in Nat
  BY <1>1, <1>2
<1>4. CASE n \in 1..Len(Verdicts)
  BY <1>1, <1>2, <1>4
<1>5. CASE NewlyAdopted = 1 /\ n = Len(Verdicts) + 1
  BY <1>1, <1>2, <1>3, <1>5
<1> QED
  BY <1>3, <1>4, <1>5

(* A module the gates close consists of the current phase. *)
LEMMA OnlyPhase ==
  ASSUME PInv, stage = "acceptance_promotion", ModuleVerdict = "module_done",
         NEW p \in Phases, ModuleOf[p] = current_module_id
  PROVE  p = current_phase_id
<1>1. current_module_id \in Modules
  BY DEF PInv, IInv, TypeOK, Located, Chosen
<1>2. PICK n \in DOMAIN Order : Order[n] = p
  BY <1>1, ProgressAssumption DEF Order, PhasesOf
<1> QED
  BY <1>2, ModuleDoneMeans

(* An experiment the gates close consists of the current module. *)
LEMMA OnlyModule ==
  ASSUME PInv, stage = "acceptance_promotion", ExperimentVerdict = "experiment_done",
         NEW m \in Present
  PROVE  m = current_module_id
<1>1. current_module_id \in Present
  BY DEF PInv, Located, Chosen
<1>2. \A n \in DOMAIN skeleton.order : n = 1
  BY ExperimentDoneMeans
<1> QED
  BY <1>1, <1>2 DEF Present

(* Once the candidate is adopted, the phases of its sources are done. *)
LEMMA AdoptionSettles ==
  ASSUME PInv, EvaluateAndPromote,
         Adoptable(candidate, BindingItems, ClosedScopes, item_status, unfinished_records),
         NewlyAdopted = 1, PhaseVerdict = "phase_done"
  PROVE  SourcesDone(phase_status', skeleton.order)
<1>1. stage = "acceptance_promotion"
  BY DEF EvaluateAndPromote, At
<1>2. current_phase_id \in Phases /\ phase_status'[current_phase_id] = "done"
  BY <1>1, CurrentPhase DEF EvaluateAndPromote, PInv, ProgressTypeOK, Located, Working, Chosen
<1>3. PICK own \in candidate.sources \cap GuideItems : ScopeMatches(candidate, own)
  BY DEF Adoptable, BindingItems
<1>4. GuidePhase[own] = current_phase_id /\ GuideModule[own] = current_module_id
  BY <1>1, <1>3, ItemsOfCurrent
<1>5. candidate \in Candidates /\ candidate.scope \in Scopes /\ candidate.sources \subseteq Items
  BY ProgressAssumption DEF PInv, ProgressTypeOK
<1>6. PICK n \in DOMAIN Verdicts :
        Verdicts[n] = [phase |-> "phase_done", module |-> "module_done",
                       experiment |-> "experiment_done"][candidate.scope]
  BY DEF Adoptable, ClosedScopes
<1>7. ASSUME NEW i \in candidate.sources, ScopeMatches(candidate, i),
             ModuleOf[GuidePhase[i]] \in Present
      PROVE  GuidePhase[i] = current_phase_id
  <2>1. GuidePhase[i] \in Phases /\ GuideModule[i] = ModuleOf[GuidePhase[i]]
    BY <1>5, ProgressAssumption
  <2>2. CASE candidate.scope = "phase"
    BY <1>3, <1>4, <1>7, <2>2 DEF ScopeMatches
  <2>3. CASE candidate.scope = "module"
    <3>1. ModuleVerdict = "module_done"
      BY <1>6, <2>3, VerdictsListed
    <3>2. ModuleOf[GuidePhase[i]] = current_module_id
      BY <1>3, <1>4, <1>7, <2>1, <2>3 DEF ScopeMatches
    <3> QED
      BY <1>1, <2>1, <3>1, <3>2, OnlyPhase
  <2>4. CASE candidate.scope = "experiment"
    <3>1. ModuleVerdict = "module_done" /\ ExperimentVerdict = "experiment_done"
      BY <1>6, <2>4, VerdictsListed
    <3>2. ModuleOf[GuidePhase[i]] = current_module_id
      BY <1>1, <1>7, <3>1, OnlyModule
    <3> QED
      BY <1>1, <2>1, <3>1, <3>2, OnlyPhase
  <2> QED
    BY <1>5, <2>2, <2>3, <2>4 DEF Scopes
<1> QED
  BY <1>2, <1>7 DEF SourcesDone, Present

(* A verdict "experiment_done" is given when nothing is left open. *)
LEMMA CompletionMeans ==
  ASSUME PInv, EvaluateAndPromote, PhaseVerdict = "phase_done", ModuleVerdict = "module_done",
         ExperimentVerdict = "experiment_done"
  PROVE  AllClosed'
<1>1. stage = "acceptance_promotion"
  BY DEF EvaluateAndPromote, At
<1>2. current_phase_id \in Phases /\ phase_status'[current_phase_id] = "done"
  BY <1>1, CurrentPhase DEF EvaluateAndPromote, PInv, ProgressTypeOK, Located, Working, Chosen
<1>3. ASSUME NEW p \in PresentPhases PROVE phase_status'[p] = "done"
  <2>1. ModuleOf[p] = current_module_id /\ p \in Phases
    BY <1>1, OnlyModule DEF PresentPhases
  <2> QED
    BY <1>1, <1>2, <2>1, OnlyPhase
<1>4. Closed(GuideItems, item_status)
  <2>1. /\ Closed(Required(GuideItems, "phase"), item_status)
        /\ Closed(Required(GuideItems, "module"), item_status)
        /\ Closed(Required(GuideItems, "experiment"), item_status)
    BY PhaseDoneMeans, ModuleDoneMeans, ExperimentDoneMeans
  <2>2. \A i \in GuideItems : ScopeOf[i] \in {"phase", "module", "experiment"}
    BY AcceptanceAssumption DEF GuideItems, Scopes
  <2> QED
    BY <2>1, <2>2 DEF Closed, Required
<1>5. UNCHANGED <<current_guide_id, item_status, skeleton>>
  BY DEF EvaluateAndPromote, pointers, work
<1> QED
  BY <1>3, <1>4, <1>5 DEF AllClosed, Closed, GuideItems, PresentPhases, Present

-------------------------------------------------------------------------------
(* The rest of the invariant, step by step *)

(* A step that changes neither the objects nor what waits to be handled. *)
LEMMA AdoptionFrame ==
  ASSUME OneAdoption, Settled, UNCHANGED <<progress, results, overview_version>>
  PROVE  OneAdoption' /\ Settled'
<1>1. Pending' = Pending
  BY DEF Pending
<1>2. OneAdoption'
  BY <1>1 DEF OneAdoption, AdoptedOnce, progress
<1>3. Settled'
  BY <1>1 DEF Settled, SourcesDone, progress, objects, given
<1> QED
  BY <1>2, <1>3

(* The executor reopens no phase that is done. *)
LEMMA AdoptionByExecutor == ASSUME PInv, RunExecutor PROVE OneAdoption' /\ Settled'
<1>1. /\ UNCHANGED <<results, adopted, candidate, skeleton, overview_version>>
      /\ stage = "execution_writeback"
  BY DEF RunExecutor, ExecuteAction, At, given, versions
<1>2. Pending' = Pending
  BY <1>1 DEF Pending
<1>3. \A q \in Phases : phase_status[q] = "done" => phase_status'[q] = "done"
  <2>1. phase_status[current_phase_id] # "done"
    BY <1>1 DEF PInv, Located, Working, Chosen
  <2>2. CASE MarkPhase
    BY <2>1, <2>2 DEF MarkPhase, PInv, ProgressTypeOK
  <2> QED
    BY <2>2 DEF RunExecutor, WorkOnGuide
<1>4. candidate.sources \subseteq Items
  BY ProgressAssumption DEF PInv, ProgressTypeOK
<1>5. OneAdoption'
  BY <1>1, <1>2 DEF PInv, OneAdoption, AdoptedOnce
<1>6. Settled'
  BY <1>1, <1>2, <1>3, <1>4, ProgressAssumption DEF PInv, Settled, SourcesDone
<1> QED
  BY <1>5, <1>6

(* An evaluation adopts a candidate no copy of which is adopted or pending. *)
LEMMA AdoptionByEvaluation == ASSUME PInv, EvaluateAndPromote PROVE OneAdoption' /\ Settled'
<1>1. /\ results' = Verdicts \o Adoptions(NewlyAdopted)
      /\ UNCHANGED <<adopted, candidate, skeleton, overview_version>>
      /\ stage = "acceptance_promotion"
  BY DEF EvaluateAndPromote, At, given, versions
<1>2. \A q \in Phases : phase_status[q] = "done" => phase_status'[q] = "done"
  BY DEF EvaluateAndPromote, PInv, ProgressTypeOK
<1>3. candidate.sources \subseteq Items
  BY ProgressAssumption DEF PInv, ProgressTypeOK
<1>4. SourcesDone(phase_status, skeleton.order) => SourcesDone(phase_status', skeleton.order)
  BY <1>2, <1>3, ProgressAssumption DEF SourcesDone
<1>5. CASE NewlyAdopted = 0
  <2>1. ~Pending'
    BY <1>1, <1>5, AdoptionsLast, VerdictsListed DEF Pending
  <2>2. \A n \in DOMAIN results' : results'[n] # "adopted"
    BY <2>1 DEF Pending
  <2>3. OneAdoption'
    BY <1>1, <2>1, <2>2 DEF PInv, OneAdoption, AdoptedOnce
  <2>4. Settled'
    BY <1>1, <1>4, <2>1 DEF PInv, Settled, SourcesDone
  <2> QED
    BY <2>3, <2>4
<1>6. CASE NewlyAdopted = 1 /\ adopted = 0 /\ PhaseVerdict = "phase_done"
  <2>1. Adoptable(candidate, BindingItems, ClosedScopes, item_status, unfinished_records)
    BY <1>6 DEF NewlyAdopted
  <2>2. SourcesDone(phase_status', skeleton.order)
    BY <1>6, <2>1, AdoptionSettles
  <2>3. \A n \in DOMAIN results' : results'[n] = "adopted" => n = Len(results')
    BY <1>1, <1>6, AdoptionsLast, VerdictsListed
  <2>4. OneAdoption'
    BY <1>1, <1>6, <2>3 DEF OneAdoption, AdoptedOnce
  <2>5. Settled'
    BY <1>1, <2>2 DEF Settled, SourcesDone
  <2> QED
    BY <2>4, <2>5
<1> QED
  BY <1>1, <1>5, <1>6, NewlyAdoptedBound

(* Handling a result moves it from what is pending to what is adopted. *)
LEMMA AdoptionByHandling == ASSUME PInv, HandleResult PROVE OneAdoption' /\ Settled'
<1>1. /\ results' = Tail(results)
      /\ adopted' = IF Head(results) = "adopted" THEN adopted + 1 ELSE adopted
      /\ UNCHANGED <<candidate, skeleton, phase_status, overview_version>>
      /\ stage = "acceptance_results"
  BY DEF HandleResult, HandleAcceptance, HandleProgress, HandleRevise, HandleEnd, HandleEscalate,
         HandleNext, At, objects, given, versions
<1>2. results \in Seq(ResultKinds) /\ results # <<>>
  BY <1>1 DEF PInv, IInv, TypeOK, ResultsPending, ResultKinds
<1>3. /\ Len(results) \in Nat \ {0}
      /\ Len(results') = Len(results) - 1
      /\ \A n \in 1..(Len(results) - 1) : results'[n] = results[n + 1]
      /\ DOMAIN results' = 1..(Len(results) - 1)
      /\ DOMAIN results = 1..Len(results)
      /\ Head(results) = results[1]
  BY <1>1, <1>2, HeadTailProperties, EmptySeq, LenProperties
<1>4. \A n \in DOMAIN results' : results'[n] = "adopted" => n = Len(results')
  BY <1>3 DEF PInv, OneAdoption
<1>5. Pending' => Pending /\ Head(results) # "adopted"
  <2>1. SUFFICES ASSUME NEW n \in DOMAIN results', results'[n] = "adopted"
                 PROVE  Pending /\ Head(results) # "adopted"
    BY DEF Pending
  <2>2. n + 1 \in DOMAIN results /\ results[n + 1] = "adopted"
    BY <1>3, <2>1
  <2>3. n + 1 = Len(results) /\ Len(results) # 1
    BY <1>3, <2>1, <2>2 DEF PInv, OneAdoption
  <2>4. 1 \in DOMAIN results
    BY <1>3
  <2>5. results[1] # "adopted"
    BY <1>3, <2>3, <2>4 DEF PInv, OneAdoption
  <2> QED
    BY <1>3, <2>2, <2>5 DEF Pending
<1>6. Head(results) = "adopted" => Pending
  BY <1>3 DEF Pending
<1>7. adopted \in Nat
  BY DEF PInv, ProgressTypeOK
<1>8. OneAdoption'
  BY <1>1, <1>4, <1>5, <1>6, <1>7 DEF PInv, OneAdoption, AdoptedOnce
<1>9. Settled'
  BY <1>1, <1>5, <1>6 DEF PInv, Settled, SourcesDone
<1> QED
  BY <1>8, <1>9

(* A migration drops what is pending; the guides of its version have nothing to adopt. *)
LEMMA AdoptionByMigration == ASSUME PInv, Migrate PROVE OneAdoption' /\ Settled'
<1>1. results' = <<>> /\ DOMAIN results' = {}
  BY DEF Migrate, RunMigration
<1>2. ~Pending'
  BY <1>1 DEF Pending
<1>3. adopted' = adopted /\ candidate' = candidate
  BY DEF Migrate, Rebuild, progress, given
<1>4. OneAdoption'
  BY <1>1, <1>2, <1>3 DEF PInv, OneAdoption, AdoptedOnce
<1>5. CASE MigrationEndsRun
  <2>1. UNCHANGED overview_version
    BY <1>5 DEF MigrationEndsRun, versions
  <2>2. UNCHANGED progress
    BY <2>1 DEF Migrate
  <2> QED
    BY <1>2, <1>4, <2>1, <2>2 DEF PInv, Settled, SourcesDone, progress, objects, given
<1>6. ASSUME NEW p \in Phases, AutoResume(p)
      PROVE  overview_version' # 1
  BY <1>6 DEF AutoResume, RebindTo, PInv, IInv, TypeOK, Versions
<1> QED
  BY <1>4, <1>5, <1>6 DEF Migrate, RunMigration, Settled

(* Every step keeps the candidate adopted at most once. *)
LEMMA AdoptionPreserved ==
  ASSUME PInv, [ProgressNext]_progress_vars
  PROVE  OneAdoption' /\ Settled'
<1>1. CASE UNCHANGED <<progress, results, overview_version>>
  BY <1>1, AdoptionFrame DEF PInv
<1>2. CASE (TerminalCheck \/ IterationLimit \/ ValidateOverview) /\ UNCHANGED progress
  BY <1>1, <1>2 DEF TerminalCheck, IterationLimit, ValidateOverview, ValidityOf, versions
<1>3. CASE ValidateCurrentModule \/ ValidateCurrentPhase \/ ResolveCurrentGuide
  BY <1>1, <1>3 DEF ValidateCurrentModule, ValidateCurrentPhase, ResolveCurrentGuide, Resolution,
                    versions
<1>4. CASE (BindGuide \/ ResolveAction) /\ UNCHANGED progress
  BY <1>1, <1>4 DEF BindGuide, ResolveAction, Resolution, versions
<1>5. CASE UNCHANGED progress_vars
  BY <1>1, <1>5 DEF progress_vars, vars, versions
<1> QED
  BY <1>2, <1>3, <1>4, <1>5, AdoptionByExecutor, AdoptionByEvaluation, AdoptionByHandling,
     AdoptionByMigration DEF ProgressNext

(* Every step keeps a pending "experiment_done" true. *)
LEMMA VerdictPreserved ==
  ASSUME PInv, [ProgressNext]_progress_vars
  PROVE  VerdictHolds'
<1>1. CASE stage' # "acceptance_results"
  BY <1>1 DEF VerdictHolds
<1>2. CASE UNCHANGED progress_vars
  BY <1>2 DEF PInv, VerdictHolds, AllClosed, Closed, GuideItems, PresentPhases, Present,
              progress_vars, vars, progress, objects, work, pointers
<1>3. CASE EvaluateAndPromote
  <2>1. SUFFICES ASSUME NEW n \in DOMAIN results', results'[n] = "experiment_done"
                 PROVE  AllClosed'
    BY DEF VerdictHolds
  <2>2. results' = Verdicts \o Adoptions(NewlyAdopted) /\ NewlyAdopted \in {0, 1}
    BY <1>3, NewlyAdoptedBound DEF EvaluateAndPromote, At
  <2>3. n \in DOMAIN Verdicts /\ Verdicts[n] = "experiment_done"
    BY <2>1, <2>2, AdoptionsLast
  <2> QED
    BY <1>3, <2>3, VerdictsListed, CompletionMeans
<1>4. CASE HandleResult /\ stage' = "acceptance_results"
  <2>1. /\ results' = Tail(results)
        /\ UNCHANGED <<skeleton, phase_status, item_status>>
        /\ current_guide_id' \in {current_guide_id, None}
        /\ stage = "acceptance_results"
    BY <1>4 DEF HandleResult, HandleAcceptance, HandleProgress, HandleRevise, HandleEnd,
                HandleEscalate, HandleNext, ClearGuideAndAction, At, objects, work, pointers
  <2>2. results \in Seq(ResultKinds) /\ results # <<>>
    BY <2>1 DEF PInv, IInv, TypeOK, ResultsPending, ResultKinds
  <2>3. /\ \A n \in 1..(Len(results) - 1) : results'[n] = results[n + 1]
        /\ DOMAIN results' = 1..(Len(results) - 1)
        /\ DOMAIN results = 1..Len(results)
        /\ Len(results) \in Nat
    BY <2>1, <2>2, HeadTailProperties, EmptySeq, LenProperties
  <2>4. (\E n \in DOMAIN results' : results'[n] = "experiment_done")
        => \E n \in DOMAIN results : results[n] = "experiment_done"
    <3>1. ASSUME NEW n \in DOMAIN results', results'[n] = "experiment_done"
          PROVE  n + 1 \in DOMAIN results /\ results[n + 1] = "experiment_done"
      BY <2>3, <3>1
    <3> QED
      BY <3>1
  <2>5. GuideItems' \subseteq GuideItems
    <3>1. ASSUME NEW i \in Items PROVE <<GuidePhase[i], 1>> # None
      BY LoopAssumption, ProgressAssumption
    <3> QED
      BY <2>1, <3>1 DEF GuideItems
  <2> QED
    BY <2>1, <2>4, <2>5 DEF PInv, VerdictHolds, AllClosed, Closed, PresentPhases, Present
<1>5. CASE \/ TerminalCheck \/ IterationLimit \/ ValidateOverview \/ BindGuide \/ ResolveAction
           \/ ValidateCurrentModule \/ ValidateCurrentPhase \/ ResolveCurrentGuide
           \/ RunExecutor \/ Migrate
  <2>1. stage' # "acceptance_results"
    BY <1>5, ModuleResolutionAllowed, PhaseResolutionAllowed, GuideResolutionAllowed
       DEF TerminalCheck, IterationLimit, ValidateOverview, ValidityOf, BindGuide, ResolveAction,
           ResolveModule, ResolvePhase, ResolveGuide, KeepModule, SwitchModule, PauseModule,
           KeepPhase, SwitchPhase, PausePhase, UseGuide, ReviseGuide, Escalate, PickAction,
           PauseAction, RunExecutor, ExecuteAction, Migrate, RunMigration, AutoResume, RebindTo,
           MigrationEndsRun, Stop, Loop, Goto
  <2> QED
    BY <1>1, <2>1
<1> QED
  BY <1>1, <1>2, <1>3, <1>4, <1>5 DEF ProgressNext

(* The invariant is inductive. *)
LEMMA StepPreservesPInv == PInv /\ [ProgressNext]_progress_vars => PInv'
<1>1. PInv /\ [ProgressNext]_progress_vars => IInv'
  BY StepIsAllowed, NextPreservesIInv DEF PInv
<1> QED
  BY <1>1, TypePreserved, LocatedPreserved, AdoptionPreserved, VerdictPreserved DEF PInv

-------------------------------------------------------------------------------
(* Theorems *)

(* The inductive invariant holds throughout a run with the default services. *)
THEOREM ProgressInductive == ProgressSpec => []PInv
<1> QED
  BY InitEstablishesPInv, StepPreservesPInv, PTL DEF ProgressSpec

(* The default services implement RuntimeLoop: each choice of validate_current_module,           *)
(* validate_current_phase, resolve_current_active_guide and evaluate_acceptance_and_promotion    *)
(* is one RuntimeLoop allows.                                                                     *)
THEOREM ServicesImplementLoop == ProgressSpec => LoopSafety
<1>1. ProgressInit => Init
  BY DEF ProgressInit
<1>2. PInv /\ [ProgressNext]_progress_vars => [Next]_vars
  BY StepIsAllowed
<1> QED
  BY <1>1, <1>2, ProgressInductive, PTL DEF ProgressSpec, LoopSafety

(* With the default services, too, a run keeps what RunLifecycle promises. *)
THEOREM ServicesKeepLifecycle == ProgressSpec => LoopLifecycle
<1>1. VersionsAgree /\ [Next]_vars => VersionsAgree'
  BY NextKeepsVersionsAgreed
<1>2. LoopSafety => []VersionsAgree
  BY <1>1, InitVersionsAgree, PTL DEF LoopSafety
<1>3. LoopSafety => []IInv
  BY InitEstablishesIInv, NextPreservesIInv, PTL DEF LoopSafety
<1>4. IInv /\ VersionsAgree /\ [Next]_vars => [Lifecycle!Next]_(Lifecycle!vars)
  BY StepMapsToLifecycle
<1>5. LoopSafety => LoopLifecycle
  BY <1>2, <1>3, <1>4, InitMapsToLifecycle, PTL
     DEF LoopSafety, LoopLifecycle, Lifecycle!Spec
<1> QED
  BY <1>5, ServicesImplementLoop, PTL

(* No step of theirs stands still: each runs down the iterations, the stages and the results.    *)
THEOREM ServicesRunDown == ProgressSpec => [][RunsDown]_progress_vars
<1>1. PInv /\ [ProgressNext]_progress_vars => [RunsDown]_progress_vars
  BY ChoicesAreAllowed, NextRunsDown DEF PInv
<1> QED
  BY <1>1, ProgressInductive, PTL DEF ProgressSpec

(* So its invariants are theirs: the pointers name one place, nothing of an old version is left, *)
(* and the executor and the gates work for a bound guide under a valid overview.                 *)
THEOREM LoopInvariantsHold ==
  ProgressSpec => [](PointersCoherent /\ NothingOfOldVersions /\ WorksUnderValidOverview
                     /\ WorksOnBoundGuide)
<1>1. PInv => /\ PointersCoherent /\ NothingOfOldVersions /\ WorksUnderValidOverview
              /\ WorksOnBoundGuide
  BY DEF PInv, IInv
<1> QED
  BY <1>1, ProgressInductive, PTL

(* The inventory, the items and the candidate keep their types. *)
THEOREM ProgressTypeCorrect == ProgressSpec => []ProgressTypeOK
<1>1. PInv => ProgressTypeOK
  BY DEF PInv
<1> QED
  BY <1>1, ProgressInductive, PTL

(* A phase is executed and judged only when the phases before it and the modules its module      *)
(* depends on are done, wherever a migration resumed and whatever the executor marked.           *)
THEOREM PhasesWorkedInOrder == ProgressSpec => []WorkedInOrder
<1>1. PInv => WorkedInOrder
  <2>1. SUFFICES ASSUME PInv, stage \in {"execution_writeback", "acceptance_promotion"}
                 PROVE  /\ \A p \in Phases : Precedes(p, current_phase_id)
                                               => phase_status[p] = "done"
                        /\ DependencySatisfied(current_module_id)
    BY DEF WorkedInOrder
  <2> QED
    BY <2>1 DEF PInv, Located, PredecessorsDone, Working, Chosen
<1> QED
  BY <1>1, ProgressInductive, PTL

(* evaluate_adoption_candidate passes a candidate once, though its copies join the candidates. *)
THEOREM CandidateAdoptedOnce == ProgressSpec => []AdoptedOnce
<1>1. PInv => AdoptedOnce
  BY DEF PInv, OneAdoption
<1> QED
  BY <1>1, ProgressInductive, PTL

(* At the gates, only their evaluation takes a step. *)
LEMMA OnlyEvaluation ==
  ASSUME ProgressNext, stage = "acceptance_promotion"
  PROVE  EvaluateAndPromote
BY DEF ProgressNext, At, TerminalCheck, IterationLimit, ValidateOverview, ValidityOf,
       ValidateCurrentModule, ValidateCurrentPhase, ResolveCurrentGuide, BindGuide, ResolveAction,
       RunExecutor, ExecuteAction, HandleResult, HandleAcceptance, Migrate, RunMigration

(* evaluate_phase_gate makes a phase done when it has earned it, and no other phase. *)
THEOREM GatesEarnDone == ProgressSpec => DoneIsEarned
<1>1. PInv /\ [ProgressNext]_progress_vars
      => [At("acceptance_promotion") => \A p \in Phases :
            phase_status[p] # "done" /\ phase_status'[p] = "done" =>
              /\ p = current_phase_id
              /\ Closed(Required(GuideItems, "phase"), item_status)
              /\ StateAfterSatisfied(p)
              /\ \A q \in Phases : Precedes(q, p) => phase_status[q] = "done"]_progress_vars
  <2> SUFFICES ASSUME PInv, ProgressNext, stage = "acceptance_promotion", NEW p \in Phases,
                      phase_status[p] # "done", phase_status'[p] = "done"
               PROVE  /\ p = current_phase_id
                      /\ Closed(Required(GuideItems, "phase"), item_status)
                      /\ StateAfterSatisfied(p)
                      /\ \A q \in Phases : Precedes(q, p) => phase_status[q] = "done"
    BY DEF At
  <2>1. EvaluateAndPromote
    BY OnlyEvaluation
  <2>2. p = current_phase_id /\ PhaseVerdict = "phase_done"
    BY <2>1 DEF EvaluateAndPromote, PInv, ProgressTypeOK
  <2>3. PredecessorsDone(p, phase_status)
    BY <2>2 DEF PInv, Located, Working, Chosen
  <2> QED
    BY <2>2, <2>3, PhaseDoneMeans DEF PredecessorsDone
<1> QED
  BY <1>1, ProgressInductive, PTL DEF ProgressSpec, DoneIsEarned

(* evaluate_experiment_gate completes the run only when nothing is left open. *)
THEOREM CompletedMeansClosed == ProgressSpec => CompletionClosesEverything
<1>1. PInv /\ [ProgressNext]_progress_vars
      => [At("acceptance_results") /\ runtime_status # runtime_status'
                                  /\ runtime_status' = "completed"
          => /\ \A p \in PresentPhases : phase_status[p] = "done"
             /\ Closed(GuideItems, item_status)]_progress_vars
  <2> SUFFICES ASSUME PInv, ProgressNext, stage = "acceptance_results",
                      runtime_status' # runtime_status, runtime_status' = "completed"
               PROVE  /\ \A p \in PresentPhases : phase_status[p] = "done"
                      /\ Closed(GuideItems, item_status)
    BY DEF At
  <2>1. HandleResult
    BY DEF ProgressNext, At, TerminalCheck, IterationLimit, ValidateOverview, ValidityOf,
           ValidateCurrentModule, ValidateCurrentPhase, ResolveCurrentGuide, BindGuide,
           ResolveAction, RunExecutor, ExecuteAction, EvaluateAndPromote, Migrate, RunMigration
  <2>2. Head(results) = "experiment_done"
    BY <2>1 DEF HandleResult, HandleAcceptance, HandleProgress, HandleRevise, HandleEnd,
                HandleEscalate
  <2>3. results \in Seq(ResultKinds) /\ results # <<>>
    BY DEF PInv, IInv, TypeOK, ResultsPending, ResultKinds
  <2>4. 1 \in DOMAIN results /\ results[1] = "experiment_done"
    BY <2>2, <2>3, HeadTailProperties, EmptySeq, LenProperties
  <2> QED
    BY <2>4 DEF PInv, VerdictHolds, AllClosed
<1> QED
  BY <1>1, ProgressInductive, PTL DEF ProgressSpec, CompletionClosesEverything

-------------------------------------------------------------------------------
(* AlwaysAnswers, up to ENABLED.  Answers are the standings the services may send the loop to,   *)
(* from the statuses and without a primed variable: there is always one (ServicesAnswer), and    *)
(* moving there is a step (AnswersAreSteps).  Answered gives every variable one value, so that a *)
(* state it leads to exists.                                                                      *)

Answered(n) ==
  /\ MoveTo(n)
  /\ phase_status' = IF stage = "acceptance_promotion" /\ PhaseVerdict = "phase_done"
                     THEN [phase_status EXCEPT ![current_phase_id] = "done"]
                     ELSE phase_status
  /\ adopted' = IF stage = "acceptance_results" /\ Head(results) = "adopted"
                THEN adopted + 1 ELSE adopted
  /\ UNCHANGED <<skeleton, module_status, blocked_phase_ids, failure_reasons, work, given>>

Doubted == To("overview_revision_migration")
Revised == [To("terminal_check") EXCEPT !.guide = None, !.action = None]
InModule(m) == [Revised EXCEPT !.module = m, !.phase = None]
InPhase(p) == [Revised EXCEPT !.phase = p]

Alternatives == IF CurrentModuleBlocked THEN SelectableAlternatives \ {current_module_id}
                                        ELSE SelectableAlternatives
ModuleWaits ==
  IF CurrentModuleBlocked THEN ModuleIsWaitingBlocked(current_module_id)
  ELSE \E m \in Present : module_status[m] = "blocked" /\ ModuleIsWaitingBlocked(m)
FirstAlternatives == {n \in DOMAIN skeleton.order :
                        /\ skeleton.order[n] \in Alternatives
                        /\ \A k \in 1..(n - 1) : skeleton.order[k] \notin Alternatives}

(* validate_current_module *)
ModuleAnswers ==
  IF ~CurrentModuleBlocked /\ CurrentModuleUsable THEN {To("phase_resolution")}
  ELSE IF Alternatives # {} THEN {InModule(skeleton.order[n]) : n \in FirstAlternatives}
  ELSE IF ModuleWaits THEN {[To("terminal_check") EXCEPT !.status = "paused"]}
  ELSE {Doubted}

(* _route_non_happy_phase *)
Routed(p, default_revise) ==
  IF "escalation" \in failure_reasons[p] THEN Doubted
  ELSE IF "waiting" \in failure_reasons[p]
  THEN [To("terminal_check") EXCEPT !.status = "paused", !.waiting = current_overview_version]
  ELSE IF default_revise \/ "guide_missing_info" \in failure_reasons[p] \/ p \in repairable
  THEN Revised
  ELSE Doubted

FirstUnfinished == {n \in DOMAIN Order : /\ phase_status[Order[n]] # "done"
                                         /\ \A k \in 1..(n - 1) : phase_status[Order[k]] = "done"}
Following == {n \in DOMAIN Order : FollowsCurrent(n)}

(* select_phase_within_current_module *)
SelectedPhases ==
  IF Following # {} THEN {InPhase(Order[n]) : n \in Following}
  ELSE IF \A n \in DOMAIN Order : phase_status[Order[n]] = "done" THEN {Doubted}
  ELSE {IF phase_status[Order[n]] \in {"not_started", "in_progress"} THEN InPhase(Order[n])
        ELSE Routed(Order[n], FALSE) : n \in FirstUnfinished}

(* validate_current_phase *)
PhaseAnswers ==
  LET status == phase_status[current_phase_id] IN
  IF current_phase_id = None \/ (status = "done" /\ StateAfterSatisfied(current_phase_id))
  THEN SelectedPhases
  ELSE CASE status = "done" -> {Revised}
         [] status = "blocked" -> {Routed(current_phase_id, FALSE)}
         [] status = "failed" -> {Routed(current_phase_id, TRUE)}
         [] OTHER -> {To("guide_resolution")}

(* resolve_current_active_guide *)
GuideAnswers ==
  IF <<current_phase_id, overview_version>> \in guides
  THEN {[To("bound_guide") EXCEPT !.guide = <<current_phase_id, overview_version>>]}
  ELSE IF current_phase_id \in repairable THEN {Revised}
  ELSE {Doubted}

Answers ==
  CASE stage = "module_resolution" -> ModuleAnswers
    [] stage = "phase_resolution" -> PhaseAnswers
    [] stage = "guide_resolution" -> GuideAnswers
    [] stage = "acceptance_promotion" ->
         {[To("acceptance_results") EXCEPT !.results = Verdicts \o Adoptions(NewlyAdopted)]}
    [] OTHER -> {Onward}

(* A non-empty set of places has a first one. *)
LEMMA FirstPlace ==
  ASSUME NEW places \in SUBSET Nat, places # {}
  PROVE  \E n \in places : \A k \in places : n <= k
<1>1. PICK n \in places : \A k \in places : ~(<<k, n>> \in OpToRel(<, Nat))
  BY WFMin, NatLessThanWellFounded
<1>2. \A k \in places : ~(k < n)
  BY <1>1 DEF OpToRel
<1> QED
  BY <1>2

(* If a module can be selected, one of them is the first in the overview's order. *)
LEMMA SomeAlternativeIsFirst ==
  ASSUME ProgressTypeOK, Alternatives # {}
  PROVE  FirstAlternatives # {}
<1> DEFINE places == {n \in DOMAIN skeleton.order : skeleton.order[n] \in Alternatives}
<1>1. DOMAIN skeleton.order = 1..Len(skeleton.order) /\ Len(skeleton.order) \in Nat
  BY OrderTyped, LenProperties
<1>2. Alternatives \subseteq Present
  BY DEF Alternatives, SelectableAlternatives
<1>3. places \in SUBSET Nat /\ places # {}
  BY <1>1, <1>2 DEF Present
<1> HIDE DEF places
<1>4. PICK n \in places : \A k \in places : n <= k
  BY <1>3, FirstPlace
<1>5. n \in 1..Len(skeleton.order) /\ skeleton.order[n] \in Alternatives
  BY <1>1 DEF places
<1>6. ASSUME NEW k \in 1..(n - 1) PROVE skeleton.order[k] \notin Alternatives
  <2>1. k \in DOMAIN skeleton.order /\ k < n /\ k \in Nat /\ n \in Nat
    BY <1>1, <1>5, <1>6
  <2>2. k \notin places
    BY <1>4, <2>1
  <2> QED
    BY <2>1, <2>2 DEF places
<1> QED
  BY <1>1, <1>5, <1>6 DEF FirstAlternatives

(* If a phase of the module is unfinished, one of them is the first in the module's order. *)
LEMMA SomePhaseIsFirst ==
  ASSUME current_module_id \in Modules, \E n \in DOMAIN Order : phase_status[Order[n]] # "done"
  PROVE  FirstUnfinished # {}
<1> DEFINE places == {n \in DOMAIN Order : phase_status[Order[n]] # "done"}
<1>1. DOMAIN Order = 1..Len(Order) /\ Len(Order) \in Nat
  BY ProgressAssumption, LenProperties DEF Order
<1>2. places \in SUBSET Nat /\ places # {}
  BY <1>1
<1> HIDE DEF places
<1>3. PICK n \in places : \A k \in places : n <= k
  BY <1>2, FirstPlace
<1>4. n \in 1..Len(Order) /\ phase_status[Order[n]] # "done"
  BY <1>1 DEF places
<1>5. ASSUME NEW k \in 1..(n - 1) PROVE phase_status[Order[k]] = "done"
  <2>1. k \in DOMAIN Order /\ k < n /\ k \in Nat /\ n \in Nat
    BY <1>1, <1>4, <1>5
  <2>2. k \notin places
    BY <1>3, <2>1
  <2> QED
    BY <2>1, <2>2 DEF places
<1> QED
  BY <1>1, <1>4, <1>5 DEF FirstUnfinished

(* The services have an answer in every state the run gets into. *)
LEMMA SomeAnswer ==
  ASSUME PInv
  PROVE  Answers # {}
<1>1. ModuleAnswers # {}
  BY SomeAlternativeIsFirst DEF ModuleAnswers, PInv
<1>2. ASSUME stage = "phase_resolution" PROVE PhaseAnswers # {}
  <2>1. current_module_id \in Modules
    BY <1>2 DEF PInv, IInv, TypeOK, Located, Chosen
  <2>2. SelectedPhases # {}
    BY <2>1, SomePhaseIsFirst DEF SelectedPhases
  <2> QED
    BY <2>2 DEF PhaseAnswers
<1>3. GuideAnswers # {}
  BY DEF GuideAnswers
<1> QED
  BY <1>1, <1>2, <1>3 DEF Answers

(* An answer of validate_current_module is a step. *)
LEMMA ModuleAnswersAreSteps ==
  ASSUME PInv, stage = "module_resolution", NEW n \in ModuleAnswers, Answered(n)
  PROVE  ValidateCurrentModule
<1> USE DEF Answered, MoveTo, To, Standing
<1>1. /\ stage = "module_resolution"
      /\ UNCHANGED progress
      /\ UNCHANGED versions
      /\ UNCHANGED guides
      /\ UNCHANGED record_versions
  BY DEF progress, objects
<1>2. CASE ~CurrentModuleBlocked /\ CurrentModuleUsable
  <2>1. n = To("phase_resolution") /\ current_module_id # None
    BY <1>2 DEF ModuleAnswers, CurrentModuleUsable
  <2>2. KeepModule /\ Resolution
    BY <1>1, <2>1 DEF KeepModule, Resolution, Goto, pointers
  <2> QED
    BY <1>1, <1>2, <2>2 DEF ValidateCurrentModule, At
<1>3. ASSUME Alternatives # {}, ~(~CurrentModuleBlocked /\ CurrentModuleUsable)
      PROVE  ValidateCurrentModule
  <2>1. PICK k \in FirstAlternatives : n = InModule(skeleton.order[k])
    BY <1>3 DEF ModuleAnswers
  <2>2. SwitchModule(skeleton.order[k]) /\ Resolution
    BY <1>1, <2>1 DEF InModule, Revised, SwitchModule, ClearGuideAndAction, Loop, Goto, Resolution
  <2>3. SwitchToFirst(Alternatives)
    BY <2>1, <2>2 DEF SwitchToFirst, FirstAlternatives
  <2>4. (CurrentModuleBlocked /\ LeaveBlockedModule) \/ (~CurrentModuleBlocked /\ SelectModule)
    BY <2>3 DEF Alternatives, LeaveBlockedModule, SelectModule
  <2> QED
    BY <1>1, <1>3, <2>2, <2>4 DEF ValidateCurrentModule, At
<1>4. ASSUME Alternatives = {}, ~(~CurrentModuleBlocked /\ CurrentModuleUsable)
      PROVE  ValidateCurrentModule
  <2>1. n = IF ModuleWaits THEN [To("terminal_check") EXCEPT !.status = "paused"] ELSE Doubted
    BY <1>4 DEF ModuleAnswers
  <2>2. /\ Resolution
        /\ ModuleWaits => PauseModule
        /\ ~ModuleWaits => Escalate
    BY <1>1, <2>1 DEF Doubted, PauseModule, Escalate, Stop, Loop, Goto, Resolution, pointers
  <2>3. (CurrentModuleBlocked /\ LeaveBlockedModule) \/ (~CurrentModuleBlocked /\ SelectModule)
    BY <1>4, <2>2 DEF Alternatives, ModuleWaits, LeaveBlockedModule, SelectModule, PauseOrEscalate
  <2> QED
    BY <1>1, <1>4, <2>2, <2>3 DEF ValidateCurrentModule, At
<1> QED
  BY <1>2, <1>3, <1>4

(* The route of a non-happy phase, taken. *)
LEMMA RoutedIsRoute ==
  ASSUME NEW p, NEW default_revise \in BOOLEAN, MoveTo(Routed(p, default_revise))
  PROVE  RouteNonHappyPhase(p, default_revise)
<1> USE DEF Routed, MoveTo, To, Standing
<1>1. CASE "escalation" \in failure_reasons[p]
  BY <1>1 DEF RouteNonHappyPhase, Doubted, Escalate, Goto, pointers
<1>2. CASE "escalation" \notin failure_reasons[p] /\ "waiting" \in failure_reasons[p]
  BY <1>2 DEF RouteNonHappyPhase, PausePhase, Stop, Loop, Goto, pointers
<1>3. CASE failure_reasons[p] \cap {"escalation", "waiting"} = {}
  <2>1. "escalation" \notin failure_reasons[p] /\ "waiting" \notin failure_reasons[p]
    BY <1>3
  <2>2. CASE default_revise \/ "guide_missing_info" \in failure_reasons[p] \/ p \in repairable
    BY <1>3, <2>1, <2>2 DEF RouteNonHappyPhase, Revised, ReviseGuide, ClearGuideAndAction, Loop,
                            Goto
  <2>3. CASE ~(default_revise \/ "guide_missing_info" \in failure_reasons[p] \/ p \in repairable)
    BY <1>3, <2>1, <2>3 DEF RouteNonHappyPhase, Doubted, Escalate, Goto, pointers
  <2> QED
    BY <2>2, <2>3
<1> QED
  BY <1>1, <1>2, <1>3

(* An answer of select_phase_within_current_module, taken. *)
LEMMA SelectedIsSelection ==
  ASSUME ProgressTypeOK, current_module_id \in Modules, NEW n \in SelectedPhases, MoveTo(n)
  PROVE  SelectPhase
<1>1. ASSUME NEW k \in DOMAIN Order, n = InPhase(Order[k])
      PROVE  SwitchPhase(Order[k])
  <2>1. ModuleOf[Order[k]] = current_module_id
    BY <1>1, PhasesListed DEF Order
  <2> QED
    BY <1>1, <2>1 DEF InPhase, Revised, To, Standing, MoveTo, SwitchPhase, ClearGuideAndAction,
                      Loop, Goto
<1>2. n = Doubted => Escalate
  BY DEF Doubted, To, Standing, MoveTo, Escalate, Goto, pointers
<1>3. CASE Following # {}
  <2>1. PICK k \in Following : n = InPhase(Order[k])
    BY <1>3 DEF SelectedPhases
  <2>2. k \in DOMAIN Order /\ FollowsCurrent(k)
    BY <2>1 DEF Following
  <2> QED
    BY <1>1, <2>1, <2>2 DEF SelectPhase
<1>4. CASE Following = {} /\ \A k \in DOMAIN Order : phase_status[Order[k]] = "done"
  <2>1. n = Doubted /\ \A k \in DOMAIN Order : ~FollowsCurrent(k)
    BY <1>4 DEF SelectedPhases, Following
  <2> QED
    BY <1>2, <1>4, <2>1 DEF SelectPhase, SelectFirstUnfinished
<1>5. CASE Following = {} /\ ~\A k \in DOMAIN Order : phase_status[Order[k]] = "done"
  <2>1. \A k \in DOMAIN Order : ~FollowsCurrent(k)
    BY <1>5 DEF Following
  <2>2. PICK k \in FirstUnfinished :
          n = IF phase_status[Order[k]] \in {"not_started", "in_progress"} THEN InPhase(Order[k])
              ELSE Routed(Order[k], FALSE)
    BY <1>5 DEF SelectedPhases
  <2>3. /\ k \in DOMAIN Order
        /\ phase_status[Order[k]] # "done"
        /\ \A l \in 1..(k - 1) : phase_status[Order[l]] = "done"
    BY <2>2 DEF FirstUnfinished
  <2>4. phase_status[Order[k]] \in PhaseStatuses
    BY <2>3, PhasesListed DEF Order, ProgressTypeOK
  <2>5. CASE phase_status[Order[k]] \in {"not_started", "in_progress"}
    BY <1>1, <2>1, <2>2, <2>3, <2>5 DEF SelectPhase, SelectFirstUnfinished
  <2>6. CASE phase_status[Order[k]] \in {"blocked", "failed"}
    <3>1. RouteNonHappyPhase(Order[k], FALSE)
      BY <2>2, <2>6, RoutedIsRoute
    <3> QED
      BY <2>1, <2>3, <2>6, <3>1 DEF SelectPhase, SelectFirstUnfinished
  <2> QED
    BY <2>3, <2>4, <2>5, <2>6 DEF PhaseStatuses
<1> QED
  BY <1>3, <1>4, <1>5

(* An answer of validate_current_phase is a step. *)
LEMMA PhaseAnswersAreSteps ==
  ASSUME PInv, stage = "phase_resolution", NEW n \in PhaseAnswers, Answered(n)
  PROVE  ValidateCurrentPhase
<1> DEFINE status == phase_status[current_phase_id]
<1>1. /\ MoveTo(n)
      /\ UNCHANGED progress
      /\ At("phase_resolution")
      /\ current_module_id \in Modules
      /\ ProgressTypeOK
  BY DEF Answered, progress, objects, At, PInv, IInv, TypeOK, Located, Chosen
<1>2. current_phase_id # None => status \in PhaseStatuses
  BY CurrentPhase DEF PInv, ProgressTypeOK
<1>3. /\ n \in SelectedPhases => Resolution
      /\ n \in {Revised, To("guide_resolution"), Routed(current_phase_id, FALSE),
                Routed(current_phase_id, TRUE)} => Resolution
  <2>1. UNCHANGED <<versions, guides, record_versions>>
    BY <1>1 DEF MoveTo
  <2>2. \A s : To(s).iterations = iterations /\ To(s).results = results
    BY DEF To, Standing
  <2>3. /\ Doubted.iterations = iterations /\ Doubted.results = results
        /\ Revised.iterations = iterations /\ Revised.results = results
    BY DEF To, Standing, Doubted, Revised
  <2>4. \A p : InPhase(p).iterations = iterations /\ InPhase(p).results = results
    BY DEF To, Standing, InPhase, Revised
  <2>5. \A p, d : Routed(p, d).iterations = iterations /\ Routed(p, d).results = results
    BY <2>3 DEF Routed, To, Standing
  <2>6. n \in SelectedPhases => n.iterations = iterations /\ n.results = results
    BY <2>3, <2>4, <2>5 DEF SelectedPhases
  <2> QED
    BY <1>1, <2>1, <2>2, <2>3, <2>5, <2>6 DEF MoveTo, Resolution
<1> HIDE DEF status
<1>4. CASE current_phase_id = None
  <2>1. n \in SelectedPhases
    BY <1>4 DEF PhaseAnswers
  <2> QED
    BY <1>1, <1>3, <1>4, <2>1, SelectedIsSelection DEF ValidateCurrentPhase
<1>5. CASE current_phase_id # None /\ status = "done" /\ StateAfterSatisfied(current_phase_id)
  <2>1. n \in SelectedPhases
    BY <1>5 DEF PhaseAnswers, status
  <2>2. SelectPhase
    BY <1>1, <2>1, SelectedIsSelection
  <2> QED
    BY <1>1, <1>3, <1>5, <2>1, <2>2 DEF ValidateCurrentPhase, status
<1>6. CASE current_phase_id # None /\ status = "done" /\ ~StateAfterSatisfied(current_phase_id)
  <2>1. n = Revised
    BY <1>6 DEF PhaseAnswers, status
  <2>2. ReviseGuide
    BY <1>1, <2>1 DEF Revised, To, Standing, MoveTo, ReviseGuide, ClearGuideAndAction, Loop, Goto
  <2> QED
    BY <1>1, <1>3, <1>6, <2>1, <2>2 DEF ValidateCurrentPhase, status
<1>7. CASE current_phase_id # None /\ status = "blocked"
  <2>1. n = Routed(current_phase_id, FALSE)
    BY <1>7 DEF PhaseAnswers, status
  <2>2. RouteNonHappyPhase(current_phase_id, FALSE)
    BY <1>1, <2>1, RoutedIsRoute
  <2> QED
    BY <1>1, <1>3, <1>7, <2>1, <2>2 DEF ValidateCurrentPhase, status
<1>8. CASE current_phase_id # None /\ status = "failed"
  <2>1. n = Routed(current_phase_id, TRUE)
    BY <1>8 DEF PhaseAnswers, status
  <2>2. RouteNonHappyPhase(current_phase_id, TRUE)
    BY <1>1, <2>1, RoutedIsRoute
  <2> QED
    BY <1>1, <1>3, <1>8, <2>1, <2>2 DEF ValidateCurrentPhase, status
<1>9. CASE current_phase_id # None /\ status \in {"not_started", "in_progress"}
  <2>1. n = To("guide_resolution")
    BY <1>9 DEF PhaseAnswers, status
  <2>2. KeepPhase
    BY <1>1, <1>9, <2>1 DEF To, Standing, MoveTo, KeepPhase, Goto, pointers
  <2> QED
    BY <1>1, <1>3, <1>9, <2>1, <2>2 DEF ValidateCurrentPhase, status
<1> QED
  BY <1>2, <1>4, <1>5, <1>6, <1>7, <1>8, <1>9 DEF PhaseStatuses

(* An answer of resolve_current_active_guide is a step. *)
LEMMA GuideAnswersAreSteps ==
  ASSUME PInv, stage = "guide_resolution", NEW n \in GuideAnswers, Answered(n)
  PROVE  ResolveCurrentGuide
<1> USE DEF Answered, MoveTo, To, Standing, At, Goto, Loop, Resolution, pointers
<1>1. UNCHANGED progress /\ current_phase_id # None
  BY DEF progress, objects, PInv, Located, Working, Chosen
<1>2. CASE <<current_phase_id, overview_version>> \in guides
  <2>1. n = [To("bound_guide") EXCEPT !.guide = <<current_phase_id, overview_version>>]
    BY <1>2 DEF GuideAnswers
  <2> QED
    BY <1>1, <1>2, <2>1 DEF ResolveCurrentGuide, UseGuide
<1>3. CASE <<current_phase_id, overview_version>> \notin guides /\ current_phase_id \in repairable
  <2>1. n = Revised
    BY <1>3 DEF GuideAnswers
  <2> QED
    BY <1>1, <1>3, <2>1 DEF ResolveCurrentGuide, Revised, ReviseGuide, ClearGuideAndAction
<1>4. CASE <<current_phase_id, overview_version>> \notin guides /\ current_phase_id \notin repairable
  <2>1. n = Doubted
    BY <1>4 DEF GuideAnswers
  <2> QED
    BY <1>1, <1>4, <2>1 DEF ResolveCurrentGuide, Doubted, Escalate
<1> QED
  BY <1>2, <1>3, <1>4

(* Whatever is answered is a step of the services. *)
LEMMA AnswersAreSteps ==
  ASSUME PInv, stage # "returned", NEW n \in Answers, Answered(n)
  PROVE  ProgressNext
<1>1. CASE stage = "module_resolution"
  BY <1>1, ModuleAnswersAreSteps DEF Answers, ProgressNext
<1>2. CASE stage = "phase_resolution"
  BY <1>2, PhaseAnswersAreSteps DEF Answers, ProgressNext
<1>3. CASE stage = "guide_resolution"
  BY <1>3, GuideAnswersAreSteps DEF Answers, ProgressNext
<1>4. CASE stage = "acceptance_promotion"
  <2>1. n = [To("acceptance_results") EXCEPT !.results = Verdicts \o Adoptions(NewlyAdopted)]
    BY <1>4 DEF Answers
  <2>2. /\ results' = Verdicts \o Adoptions(NewlyAdopted)
        /\ stage' = "acceptance_results"
        /\ UNCHANGED <<iterations, runtime_status, pointers, waiting_context, versions, guides,
                       record_versions>>
    BY <2>1 DEF Answered, MoveTo, To, Standing, pointers
  <2> QED
    BY <1>4, <2>2 DEF Answered, EvaluateAndPromote, At, Goto, ProgressNext
<1>5. CASE stage \in {"terminal_check", "overview_validity", "bound_guide", "action_resolution",
                      "execution_writeback", "acceptance_results",
                      "overview_revision_migration"}
  <2>1. n = Onward /\ MoveTo(Onward)
    BY <1>5 DEF Answers, Answered
  <2>2. Next
    BY <1>5, <2>1, LoopGoesOn DEF PInv
  <2>3. stage # "acceptance_results" => UNCHANGED progress
    BY <1>5 DEF Answered, progress, objects
  <2>4. CASE stage \in {"terminal_check", "overview_validity", "bound_guide",
                        "action_resolution"}
    <3>1. TerminalCheck \/ IterationLimit \/ ValidateOverview \/ BindGuide \/ ResolveAction
      BY <2>2, <2>4 DEF Next, At, ResolveModule, ResolvePhase, ResolveGuide, ExecuteAction,
                        EvaluateAcceptance, HandleAcceptance, RunMigration
    <3> QED
      BY <2>3, <2>4, <3>1 DEF ProgressNext
  <2>5. CASE stage = "execution_writeback"
    <3>1. ExecuteAction
      BY <2>2, <2>5 DEF Next, At, TerminalCheck, IterationLimit, ValidateOverview, ValidityOf,
                        ResolveModule, ResolvePhase, ResolveGuide, BindGuide, ResolveAction,
                        EvaluateAcceptance, HandleAcceptance, RunMigration
    <3>2. item_status \in StatusFunctions /\ \A i \in Items : item_status[i] \in MovesOf(i)
      BY DEF PInv, ProgressTypeOK, MovesOf
    <3>3. WorkOnGuide
      BY <2>3, <2>5, <3>2 DEF WorkOnGuide, ItemsMove, progress, objects, work
    <3>4. UNCHANGED <<current_action_id, waiting_context>>
      BY <2>1, <2>5 DEF MoveTo, Onward, To, Standing
    <3> QED
      BY <2>3, <2>5, <3>1, <3>3, <3>4 DEF RunExecutor, progress, objects, work, ProgressNext
  <2>6. CASE stage = "acceptance_results"
    <3>1. HandleAcceptance
      BY <2>2, <2>6 DEF Next, At, TerminalCheck, IterationLimit, ValidateOverview, ValidityOf,
                        ResolveModule, ResolvePhase, ResolveGuide, BindGuide, ResolveAction,
                        ExecuteAction, EvaluateAcceptance, RunMigration
    <3> QED
      BY <2>6, <3>1 DEF Answered, HandleResult, objects, ProgressNext
  <2>7. CASE stage = "overview_revision_migration"
    <3>1. RunMigration
      BY <2>2, <2>7 DEF Next, At, TerminalCheck, IterationLimit, ValidateOverview, ValidityOf,
                        ResolveModule, ResolvePhase, ResolveGuide, BindGuide, ResolveAction,
                        ExecuteAction, EvaluateAcceptance, HandleAcceptance
    <3>2. overview_version' = overview_version
      BY <2>1 DEF MoveTo, versions
    <3> QED
      BY <2>3, <2>7, <3>1, <3>2 DEF Migrate, ProgressNext
  <2> QED
    BY <1>5, <2>4, <2>5, <2>6, <2>7
<1> QED
  BY <1>1, <1>2, <1>3, <1>4, <1>5 DEF PInv, IInv, TypeOK, Stages

(* Nor is there another answer: the first in a list is one, and a phase has one place in it. *)
LEMMA OneAnswer ==
  ASSUME PInv
  PROVE  \A m, n \in Answers : m = n
<1>1. \A m, n \in ModuleAnswers : m = n
  <2>1. DOMAIN skeleton.order = 1..Len(skeleton.order) /\ Len(skeleton.order) \in Nat
    BY OrderTyped, LenProperties DEF PInv
  <2>2. \A i, j \in FirstAlternatives : ~(i < j)
    BY <2>1 DEF FirstAlternatives
  <2>3. \A i, j \in FirstAlternatives : i = j
    BY <2>1, <2>2 DEF FirstAlternatives
  <2> QED
    BY <2>3 DEF ModuleAnswers
<1>2. ASSUME stage = "phase_resolution" PROVE \A m, n \in PhaseAnswers : m = n
  <2>1. current_module_id \in Modules
    BY <1>2 DEF PInv, IInv, TypeOK, Located, Chosen
  <2>2. /\ DOMAIN Order = 1..Len(Order) /\ Len(Order) \in Nat
        /\ \A i, j \in DOMAIN Order : Order[i] = Order[j] => i = j
    BY <2>1, ProgressAssumption, LenProperties DEF Order
  <2>3. \A i, j \in FirstUnfinished : ~(i < j)
    BY <2>2 DEF FirstUnfinished
  <2>4. \A i, j \in FirstUnfinished : i = j
    BY <2>2, <2>3 DEF FirstUnfinished
  <2>5. \A i, j \in Following : i - 1 \in DOMAIN Order /\ j - 1 \in DOMAIN Order
    BY <2>2 DEF Following, FollowsCurrent
  <2>6. \A i, j \in Following : i - 1 = j - 1
    BY <2>2, <2>5 DEF Following, FollowsCurrent
  <2>7. \A i, j \in Following : i = j
    BY <2>2, <2>6 DEF Following
  <2>8. \A m, n \in SelectedPhases : m = n
    BY <2>4, <2>7 DEF SelectedPhases
  <2> QED
    BY <2>8 DEF PhaseAnswers
<1>3. \A m, n \in GuideAnswers : m = n
  BY DEF GuideAnswers
<1> QED
  BY <1>1, <1>2, <1>3 DEF Answers

(* What a resolution leaves alone, Answered leaves alone. *)
LEMMA ResolutionAnswered ==
  ASSUME NEW n, MoveTo(n), UNCHANGED progress, stage # "acceptance_promotion",
         stage # "acceptance_results"
  PROVE  Answered(n)
BY DEF Answered, progress, objects

(* Where the handlers of the services' results send the loop. *)
LEMMA HandledMoves ==
  ASSUME Resolution
  PROVE  /\ Escalate => MoveTo(Doubted)
         /\ ReviseGuide => MoveTo(Revised)
         /\ PauseModule => MoveTo([To("terminal_check") EXCEPT !.status = "paused"])
         /\ PausePhase => MoveTo([To("terminal_check") EXCEPT
                                    !.status = "paused", !.waiting = current_overview_version])
         /\ KeepModule => MoveTo(To("phase_resolution"))
         /\ KeepPhase => MoveTo(To("guide_resolution"))
         /\ \A m : SwitchModule(m) => MoveTo(InModule(m))
         /\ \A p : SwitchPhase(p) => MoveTo(InPhase(p))
<1> USE DEF Resolution, MoveTo, To, Standing, Goto, Loop, pointers
<1>1. Escalate => MoveTo(Doubted)
  BY DEF Escalate, Doubted
<1>2. ReviseGuide => MoveTo(Revised)
  BY DEF ReviseGuide, Revised, ClearGuideAndAction
<1>3. PauseModule => MoveTo([To("terminal_check") EXCEPT !.status = "paused"])
  BY DEF PauseModule, Stop
<1>4. PausePhase => MoveTo([To("terminal_check") EXCEPT
                              !.status = "paused", !.waiting = current_overview_version])
  BY DEF PausePhase, Stop
<1>5. (KeepModule => MoveTo(To("phase_resolution")))
      /\ (KeepPhase => MoveTo(To("guide_resolution")))
  BY DEF KeepModule, KeepPhase
<1>6. \A m : SwitchModule(m) => MoveTo(InModule(m))
  BY DEF SwitchModule, InModule, Revised, ClearGuideAndAction
<1>7. \A p : SwitchPhase(p) => MoveTo(InPhase(p))
  BY DEF SwitchPhase, InPhase, Revised, ClearGuideAndAction
<1> QED
  BY <1>1, <1>2, <1>3, <1>4, <1>5, <1>6, <1>7

(* A step of validate_current_module is its answer. *)
LEMMA ModuleStepsAreAnswers ==
  ASSUME ValidateCurrentModule
  PROVE  \E n \in ModuleAnswers : MoveTo(n)
<1>1. Resolution
  BY DEF ValidateCurrentModule
<1>2. ASSUME SwitchToFirst(Alternatives), ~(~CurrentModuleBlocked /\ CurrentModuleUsable)
      PROVE  \E n \in ModuleAnswers : MoveTo(n)
  <2>1. PICK k \in FirstAlternatives : SwitchModule(skeleton.order[k])
    BY <1>2 DEF SwitchToFirst, FirstAlternatives
  <2>2. MoveTo(InModule(skeleton.order[k]))
    BY <1>1, <2>1, HandledMoves
  <2>3. Alternatives # {}
    BY DEF FirstAlternatives
  <2> QED
    BY <1>2, <2>2, <2>3 DEF ModuleAnswers
<1>3. ASSUME Alternatives = {}, PauseOrEscalate(ModuleWaits),
             ~(~CurrentModuleBlocked /\ CurrentModuleUsable)
      PROVE  \E n \in ModuleAnswers : MoveTo(n)
  BY <1>1, <1>3, HandledMoves DEF PauseOrEscalate, ModuleAnswers
<1>4. CASE CurrentModuleBlocked /\ LeaveBlockedModule
  BY <1>2, <1>3, <1>4 DEF LeaveBlockedModule, Alternatives, ModuleWaits
<1>5. CASE ~CurrentModuleBlocked /\ CurrentModuleUsable /\ KeepModule
  BY <1>1, <1>5, HandledMoves DEF ModuleAnswers
<1>6. CASE ~CurrentModuleBlocked /\ ~CurrentModuleUsable /\ SelectModule
  BY <1>2, <1>3, <1>6 DEF SelectModule, Alternatives, ModuleWaits
<1> QED
  BY <1>4, <1>5, <1>6 DEF ValidateCurrentModule

(* A route taken is the one Routed names. *)
LEMMA RouteIsRouted ==
  ASSUME Resolution, NEW p, NEW default_revise \in BOOLEAN, RouteNonHappyPhase(p, default_revise)
  PROVE  MoveTo(Routed(p, default_revise))
<1>1. CASE "escalation" \in failure_reasons[p] /\ Escalate
  BY <1>1, HandledMoves DEF Routed
<1>2. CASE /\ "escalation" \notin failure_reasons[p] /\ "waiting" \in failure_reasons[p]
           /\ PausePhase
  BY <1>2, HandledMoves DEF Routed
<1>3. CASE /\ failure_reasons[p] \cap {"escalation", "waiting"} = {}
           /\ default_revise \/ "guide_missing_info" \in failure_reasons[p] \/ p \in repairable
           /\ ReviseGuide
  <2>1. "escalation" \notin failure_reasons[p] /\ "waiting" \notin failure_reasons[p]
    BY <1>3
  <2> QED
    BY <1>3, <2>1, HandledMoves DEF Routed
<1>4. CASE /\ failure_reasons[p] \cap {"escalation", "waiting"} = {}
           /\ ~(default_revise \/ "guide_missing_info" \in failure_reasons[p] \/ p \in repairable)
           /\ Escalate
  <2>1. "escalation" \notin failure_reasons[p] /\ "waiting" \notin failure_reasons[p]
    BY <1>4
  <2> QED
    BY <1>4, <2>1, HandledMoves DEF Routed
<1> QED
  BY <1>1, <1>2, <1>3, <1>4 DEF RouteNonHappyPhase

(* A selection made is the one SelectedPhases names. *)
LEMMA SelectionIsSelected ==
  ASSUME Resolution, SelectPhase
  PROVE  \E n \in SelectedPhases : MoveTo(n)
<1>1. CASE \E k \in DOMAIN Order : FollowsCurrent(k) /\ SwitchPhase(Order[k])
  <2>1. PICK k \in Following : SwitchPhase(Order[k])
    BY <1>1 DEF Following
  <2>2. MoveTo(InPhase(Order[k])) /\ Following # {}
    BY <2>1, HandledMoves
  <2> QED
    BY <2>2 DEF SelectedPhases
<1>2. CASE /\ \A k \in DOMAIN Order : ~FollowsCurrent(k)
           /\ \A k \in DOMAIN Order : phase_status[Order[k]] = "done"
           /\ Escalate
  <2>1. Following = {} /\ MoveTo(Doubted)
    BY <1>2, HandledMoves DEF Following
  <2> QED
    BY <1>2, <2>1 DEF SelectedPhases
<1>3. ASSUME \A k \in DOMAIN Order : ~FollowsCurrent(k), NEW k \in DOMAIN Order,
             \A l \in 1..(k - 1) : phase_status[Order[l]] = "done",
             \/ /\ phase_status[Order[k]] \in {"not_started", "in_progress"}
                /\ SwitchPhase(Order[k])
             \/ /\ phase_status[Order[k]] \in {"blocked", "failed"}
                /\ RouteNonHappyPhase(Order[k], FALSE)
      PROVE  \E n \in SelectedPhases : MoveTo(n)
  <2>1. Following = {} /\ k \in FirstUnfinished /\ phase_status[Order[k]] # "done"
    BY <1>3 DEF Following, FirstUnfinished
  <2>2. MoveTo(IF phase_status[Order[k]] \in {"not_started", "in_progress"} THEN InPhase(Order[k])
               ELSE Routed(Order[k], FALSE))
    BY <1>3, HandledMoves, RouteIsRouted
  <2> QED
    BY <2>1, <2>2 DEF SelectedPhases
<1> QED
  BY <1>1, <1>2, <1>3 DEF SelectPhase, SelectFirstUnfinished

(* A step of one of the three services is its answer. *)
LEMMA StepsAreAnswers ==
  ASSUME ValidateCurrentModule \/ ValidateCurrentPhase \/ ResolveCurrentGuide
  PROVE  \E n \in Answers : Answered(n)
<1>1. /\ Resolution
      /\ UNCHANGED progress
      /\ stage \in {"module_resolution", "phase_resolution", "guide_resolution"}
  BY DEF ValidateCurrentModule, ValidateCurrentPhase, ResolveCurrentGuide, At
<1>2. CASE ValidateCurrentModule
  <2>1. PICK n \in ModuleAnswers : MoveTo(n)
    BY <1>2, ModuleStepsAreAnswers
  <2> QED
    BY <1>1, <1>2, <2>1, ResolutionAnswered DEF Answers, ValidateCurrentModule, At
<1>3. CASE ValidateCurrentPhase
  <2> DEFINE status == phase_status[current_phase_id]
  <2>1. \E n \in PhaseAnswers : MoveTo(n)
    <3>1. CASE current_phase_id = None /\ SelectPhase
      BY <1>1, <3>1, SelectionIsSelected DEF PhaseAnswers
    <3>2. CASE /\ current_phase_id # None
               /\ status = "done" /\ StateAfterSatisfied(current_phase_id) /\ SelectPhase
      BY <1>1, <3>2, SelectionIsSelected DEF PhaseAnswers
    <3>3. CASE /\ current_phase_id # None
               /\ status = "done" /\ ~StateAfterSatisfied(current_phase_id) /\ ReviseGuide
      BY <1>1, <3>3, HandledMoves DEF PhaseAnswers
    <3>4. CASE /\ current_phase_id # None
               /\ status = "blocked" /\ RouteNonHappyPhase(current_phase_id, FALSE)
      BY <1>1, <3>4, RouteIsRouted DEF PhaseAnswers
    <3>5. CASE /\ current_phase_id # None
               /\ status = "failed" /\ RouteNonHappyPhase(current_phase_id, TRUE)
      BY <1>1, <3>5, RouteIsRouted DEF PhaseAnswers
    <3>6. CASE current_phase_id # None /\ status \in {"not_started", "in_progress"} /\ KeepPhase
      BY <1>1, <3>6, HandledMoves DEF PhaseAnswers
    <3> QED
      BY <1>3, <3>1, <3>2, <3>3, <3>4, <3>5, <3>6 DEF ValidateCurrentPhase
  <2> QED
    BY <1>1, <1>3, <2>1, ResolutionAnswered DEF Answers, ValidateCurrentPhase, At
<1>4. CASE ResolveCurrentGuide
  <2>1. \E n \in GuideAnswers : MoveTo(n)
    <3>1. UseGuide
          => MoveTo([To("bound_guide") EXCEPT !.guide = <<current_phase_id, overview_version>>])
      BY <1>1 DEF UseGuide, Resolution, MoveTo, To, Standing, Goto
    <3> QED
      BY <1>1, <1>4, <3>1, HandledMoves DEF ResolveCurrentGuide, GuideAnswers
  <2> QED
    BY <1>1, <1>4, <2>1, ResolutionAnswered DEF Answers, ResolveCurrentGuide, At
<1> QED
  BY <1>2, <1>3, <1>4

(* One of the three services has the turn. *)
Resolving == stage \in {"module_resolution", "phase_resolution", "guide_resolution"}

(* In every state the run gets into, whatever was done before, marked by an executor or made of   *)
(* the phases by a migration, the services have exactly one answer, and it is what they do: none   *)
(* of the raises at the end of the loop's handlers is reached, and nothing but the statuses        *)
(* decides.  With AnswersAreSteps this is AlwaysAnswers, up to the step from a state that Answered *)
(* describes to ENABLED.                                                                            *)
THEOREM ServicesAnswer ==
  ProgressSpec => /\ [](stage # "returned" => \E n : Answers = {n})
                  /\ [][Resolving => \E n \in Answers : Answered(n)]_progress_vars
<1> DEFINE Decides == stage # "returned" => \E n : Answers = {n}
           Does == Resolving => \E n \in Answers : Answered(n)
<1>1. PInv => Decides
  <2> SUFFICES ASSUME PInv PROVE \E n : Answers = {n}
    OBVIOUS
  <2>1. PICK n \in Answers : TRUE
    BY SomeAnswer
  <2>2. Answers = {n}
    BY <2>1, OneAnswer
  <2> QED
    BY <2>2
<1>2. PInv /\ [ProgressNext]_progress_vars => [Does]_progress_vars
  <2> SUFFICES ASSUME ProgressNext, Resolving
               PROVE  \E n \in Answers : Answered(n)
    OBVIOUS
  <2>1. ValidateCurrentModule \/ ValidateCurrentPhase \/ ResolveCurrentGuide
    BY DEF Resolving, ProgressNext, At, TerminalCheck, IterationLimit, ValidateOverview, ValidityOf,
           BindGuide, ResolveAction, RunExecutor, ExecuteAction, EvaluateAndPromote,
           HandleResult, HandleAcceptance, Migrate, RunMigration
  <2> QED
    BY <2>1, StepsAreAnswers
<1> QED
  BY <1>1, <1>2, ProgressInductive, PTL DEF ProgressSpec

-------------------------------------------------------------------------------
(* What LastPhaseClosesModule comes down to *)

(* The result list of an evaluation. *)
LEMMA Evaluated ==
  ASSUME PInv, EvaluateAndPromote
  PROVE  /\ (\E n \in DOMAIN results' : results'[n] = "module_done")
            <=> PhaseVerdict = "phase_done" /\ ModuleVerdict = "module_done"
         /\ (\E n \in DOMAIN results' : results'[n] = "experiment_done")
            <=> /\ PhaseVerdict = "phase_done"
                /\ ModuleVerdict = "module_done"
                /\ ExperimentVerdict = "experiment_done"
<1> DEFINE all == Verdicts \o Adoptions(NewlyAdopted)
<1>1. results' = all /\ stage = "acceptance_promotion"
  BY DEF EvaluateAndPromote, At
<1>2. NewlyAdopted \in {0, 1}
  BY <1>1, NewlyAdoptedBound
<1>3. \A n \in DOMAIN Verdicts : n \in DOMAIN all /\ all[n] = Verdicts[n]
  <2>1. Verdicts \in Seq(ResultKinds)
    BY VerdictsListed
  <2>2. Adoptions(NewlyAdopted) \in Seq(ResultKinds)
    BY <1>2 DEF Adoptions, ResultKinds
  <2> QED
    BY <2>1, <2>2
<1>4. ASSUME NEW kind, kind # "adopted"
      PROVE  (\E n \in DOMAIN all : all[n] = kind) <=> (\E n \in DOMAIN Verdicts : Verdicts[n] = kind)
  BY <1>2, <1>3, <1>4, AdoptionsLast
<1>5. (\E n \in DOMAIN Verdicts : Verdicts[n] = "module_done")
      <=> PhaseVerdict = "phase_done" /\ ModuleVerdict = "module_done"
  <2>1. PhaseVerdict = "phase_done" /\ ModuleVerdict = "module_done"
        => 2 \in DOMAIN Verdicts /\ Verdicts[2] = "module_done"
    BY DEF Verdicts
  <2> QED
    BY <2>1, VerdictsListed
<1>6. (\E n \in DOMAIN Verdicts : Verdicts[n] = "experiment_done")
      <=> /\ PhaseVerdict = "phase_done"
          /\ ModuleVerdict = "module_done"
          /\ ExperimentVerdict = "experiment_done"
  <2>1. /\ PhaseVerdict = "phase_done"
        /\ ModuleVerdict = "module_done"
        /\ ExperimentVerdict = "experiment_done"
        => 3 \in DOMAIN Verdicts /\ Verdicts[3] = "experiment_done"
    BY DEF Verdicts
  <2> QED
    BY <2>1, VerdictsListed
<1> HIDE DEF all
<1>7. (\E n \in DOMAIN all : all[n] = "module_done")
      <=> PhaseVerdict = "phase_done" /\ ModuleVerdict = "module_done"
  BY <1>4, <1>5
<1>8. (\E n \in DOMAIN all : all[n] = "experiment_done")
      <=> /\ PhaseVerdict = "phase_done"
          /\ ModuleVerdict = "module_done"
          /\ ExperimentVerdict = "experiment_done"
  BY <1>4, <1>6
<1> QED
  BY <1>1, <1>7, <1>8

(* The module and the experiment gate take the phase and the module at hand for all there is. *)
ModuleCloses == /\ PhaseVerdict = "phase_done"
                /\ PhasesOf(current_module_id) = {current_phase_id}
                /\ Closed(Required(GuideItems, "module"), item_status)
ExperimentCloses == /\ ModuleCloses
                    /\ Len(skeleton.order) = 1
                    /\ Closed(Required(GuideItems, "experiment"), item_status)

(* The module gate closes a module exactly if the current phase is its only one. *)
LEMMA ModuleGateCloses ==
  ASSUME PInv, stage = "acceptance_promotion", PhaseVerdict = "phase_done"
  PROVE  ModuleVerdict = "module_done" <=> ModuleCloses
<1>1. /\ current_phase_id # None
      /\ current_phase_id \in PhasesOf(current_module_id)
      /\ current_module_id \in Modules
  <2>1. current_phase_id # None
    BY DEF PInv, Located, Working, Chosen
  <2> QED
    BY <2>1, CurrentPhase DEF PhasesOf
<1>2. ASSUME ModuleVerdict = "module_done" PROVE ModuleCloses
  <2>1. \A p \in PhasesOf(current_module_id) : p = current_phase_id
    BY <1>2, OnlyPhase DEF PhasesOf
  <2>2. PhasesOf(current_module_id) = {current_phase_id}
    BY <1>1, <2>1
  <2> QED
    BY <1>2, <2>2, ModuleDoneMeans DEF ModuleCloses
<1>3. ASSUME ModuleCloses PROVE ModuleVerdict = "module_done"
  <2>1. ASSUME NEW n \in DOMAIN Order
        PROVE  n \in DOMAIN PhaseResults /\ PhaseResults[n] = "phase_done"
    <3>1. Order[n] \in PhasesOf(current_module_id)
      BY <1>1, <2>1, ProgressAssumption DEF Order
    <3>2. Order[n] = current_phase_id
      BY <1>3, <3>1 DEF ModuleCloses
    <3> QED
      BY <3>2 DEF PhaseResults
  <2>2. Paired(Order, PhaseResults, "phase_done")
    BY <2>1 DEF Paired
  <2> QED
    BY <1>3, <2>2 DEF ModuleCloses, ModuleVerdict, ModuleGate
<1> QED
  BY <1>2, <1>3

(* And the experiment gate an experiment exactly if the current module is its only one. *)
LEMMA ExperimentGateCloses ==
  ASSUME PInv, stage = "acceptance_promotion", ModuleCloses
  PROVE  ExperimentVerdict = "experiment_done" <=> ExperimentCloses
<1>1. skeleton.order \in Seq(Modules) /\ Len(skeleton.order) \in Nat
      /\ DOMAIN skeleton.order = 1..Len(skeleton.order)
  BY OrderTyped, LenProperties DEF PInv
<1>2. skeleton.order # <<>> /\ Len(skeleton.order) # 0
  <2>1. current_module_id # None /\ current_module_id \in Present
    BY DEF PInv, Located, Chosen
  <2>2. \E n \in DOMAIN skeleton.order : skeleton.order[n] = current_module_id
    BY <2>1 DEF Present
  <2> QED
    BY <1>1, <2>2
<1>3. DOMAIN <<"module_done">> = {1} /\ <<"module_done">>[1] = "module_done"
  OBVIOUS
<1>4. Paired(skeleton.order, <<"module_done">>, "module_done") <=> Len(skeleton.order) = 1
  <2>1. ASSUME Paired(skeleton.order, <<"module_done">>, "module_done")
        PROVE  Len(skeleton.order) = 1
    <3>1. Len(skeleton.order) \in DOMAIN skeleton.order
      BY <1>1, <1>2
    <3> QED
      BY <1>3, <2>1, <3>1 DEF Paired
  <2>2. ASSUME Len(skeleton.order) = 1
        PROVE  Paired(skeleton.order, <<"module_done">>, "module_done")
    BY <1>1, <1>3, <2>2 DEF Paired
  <2> QED
    BY <2>1, <2>2
<1>5. ExperimentVerdict = "experiment_done"
      <=> /\ Paired(skeleton.order, <<"module_done">>, "module_done")
          /\ Closed(Required(GuideItems, "experiment"), item_status)
  BY DEF ExperimentVerdict, ExperimentGate, Route
<1> QED
  BY <1>4, <1>5 DEF ExperimentCloses

(* LastPhaseClosesModule fails exactly for a module of several phases: the gate of the module     *)
(* counts the phases before the current one as kept, so that such a module is never closed, and    *)
(* the experiment gate closes no experiment of several modules.  For a module of one phase the     *)
(* property holds.                                                                                 *)
THEOREM OnlySinglesClose ==
  ProgressSpec =>
    [][At("acceptance_promotion") =>
         /\ (\E n \in DOMAIN results' : results'[n] = "module_done") <=> ModuleCloses
         /\ (\E n \in DOMAIN results' : results'[n] = "experiment_done") <=> ExperimentCloses
      ]_progress_vars
<1> DEFINE Closing == At("acceptance_promotion") =>
             /\ (\E n \in DOMAIN results' : results'[n] = "module_done") <=> ModuleCloses
             /\ (\E n \in DOMAIN results' : results'[n] = "experiment_done") <=> ExperimentCloses
<1>1. ASSUME PInv, ProgressNext, At("acceptance_promotion") PROVE Closing
  <2>1. EvaluateAndPromote
    BY <1>1 DEF ProgressNext, At, TerminalCheck, IterationLimit, ValidateOverview, ValidityOf,
                ValidateCurrentModule, ValidateCurrentPhase, ResolveCurrentGuide, BindGuide,
                ResolveAction, RunExecutor, ExecuteAction, HandleResult, HandleAcceptance,
                Migrate, RunMigration
  <2>2. stage = "acceptance_promotion"
    BY <1>1 DEF At
  <2>3. PhaseVerdict = "phase_done" /\ ModuleVerdict = "module_done" <=> ModuleCloses
    BY <1>1, <2>2, ModuleGateCloses DEF ModuleCloses
  <2>4. /\ PhaseVerdict = "phase_done"
        /\ ModuleVerdict = "module_done"
        /\ ExperimentVerdict = "experiment_done"
        <=> ExperimentCloses
    BY <1>1, <2>2, <2>3, ExperimentGateCloses DEF ExperimentCloses
  <2> QED
    BY <1>1, <2>1, <2>3, <2>4, Evaluated
<1>2. PInv /\ [ProgressNext]_progress_vars => [Closing]_progress_vars
  BY <1>1
<1> QED
  BY <1>2, ProgressInductive, PTL DEF ProgressSpec

===============================================================================
