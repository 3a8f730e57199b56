--------------------------- MODULE RuntimeLoop_proofs --------------------------
(***************************************************************************)
(* Proofs about RuntimeLoop, for any modules, phases, iteration limit and *)
(* number of overview versions.                                            *)
(***************************************************************************)
EXTENDS RuntimeLoop, SequenceTheorems, TLAPS

ResultKinds == AcceptanceKinds \cup {"phase_done", "module_done", "experiment_done", "adopted"}

(* The loop over the results is only entered, and stayed in, with one to handle. *)
ResultsPending == stage = "acceptance_results" => results # <<>>

(* A run that has stopped goes to the head of the loop or returns. *)
StoppedAtHead == IsTerminal(runtime_status) => stage \in {"terminal_check", "returned"}

(* PointersCoherent and NothingOfOldVersions need the validity of the overview at guide        *)
(* resolution, and that needs the stages in between to change neither versions nor guides.      *)
IInv == /\ TypeOK
        /\ PointersCoherent
        /\ NothingOfOldVersions
        /\ WorksUnderValidOverview
        /\ WorksOnBoundGuide
        /\ ResultsPending
        /\ StoppedAtHead

(* An evaluation returns at least one result, each of a kind the handler knows. *)
LEMMA ResultsTyped ==
  \A r \in AcceptanceResults : r \in Seq(ResultKinds) /\ r # <<>>
<1>1. ASSUME NEW r \in Gates
      PROVE  /\ r \in Seq(ResultKinds)
             /\ Len(r) \in Nat \ {0}
  <2>1. CASE \E kind \in AcceptanceKinds : r = <<kind>>
    BY <2>1 DEF ResultKinds
  <2>2. CASE \E kind \in AcceptanceKinds : r = <<"phase_done", kind>>
    BY <2>2 DEF ResultKinds
  <2>3. CASE \E kind \in {"experiment_done"} \cup (AcceptanceKinds \ {"revise_guide"}) :
               r = <<"phase_done", "module_done", kind>>
    BY <2>3 DEF ResultKinds
  <2> QED
    BY <2>1, <2>2, <2>3 DEF Gates
<1>2. ASSUME NEW r \in Seq(ResultKinds), Len(r) \in Nat \ {0}
      PROVE  r # <<>>
  BY <1>2, Len(<<>>) = 0
<1>3. ASSUME NEW n \in Nat
      PROVE  Adoptions(n) \in Seq(ResultKinds) /\ Len(Adoptions(n)) = n
  <2>1. "adopted" \in ResultKinds
    BY DEF ResultKinds
  <2>2. Adoptions(n) \in [1..n -> ResultKinds]
    BY <2>1 DEF Adoptions
  <2> QED
    BY <2>2
<1>4. ASSUME NEW r \in Seq(ResultKinds), Len(r) \in Nat \ {0}, NEW n \in Nat
      PROVE  r \o Adoptions(n) \in Seq(ResultKinds) /\ r \o Adoptions(n) # <<>>
  <2>1. /\ r \o Adoptions(n) \in Seq(ResultKinds)
        /\ Len(r \o Adoptions(n)) = Len(r) + n
    BY <1>3
  <2>2. Len(r \o Adoptions(n)) # 0
    BY <1>4, <2>1
  <2> QED
    BY <2>1, <2>2, Len(<<>>) = 0
<1>5. 1..MaxAdopted \subseteq Nat
  BY LoopAssumption
<1>6. ASSUME NEW r \in AcceptanceResults, r \notin Gates
      PROVE  \E gates \in Gates : \E n \in 1..MaxAdopted : r = gates \o Adoptions(n)
  BY <1>6, Zenon DEF AcceptanceResults
<1> QED
  BY <1>1, <1>2, <1>4, <1>5, <1>6

(* What follows when a result has been taken off the list. *)
LEMMA TailTyped ==
  ASSUME TypeOK, results # <<>>
  PROVE  /\ Tail(results) \in Seq(ResultKinds)
         /\ Len(results) # 1 => Tail(results) # <<>>
<1>1. results \in Seq(ResultKinds)
  BY DEF TypeOK, ResultKinds
<1>2. Len(results) \in Nat /\ Len(results) # 0
  BY <1>1, EmptySeq
<1>3. Tail(results) \in Seq(ResultKinds) /\ Len(Tail(results)) = Len(results) - 1
  BY <1>1, <1>2, HeadTailProperties
<1>4. Len(results) # 1 => Len(Tail(results)) # 0
  BY <1>2, <1>3
<1>5. Len(<<>>) = 0
  BY EmptySeq
<1> QED
  BY <1>3, <1>4, <1>5, Zenon

(* The initial state satisfies the invariant. *)
LEMMA InitEstablishesIInv == Init => IInv
  BY LoopAssumption
     DEF Init, IInv, TypeOK, PointersCoherent, NothingOfOldVersions, WorksUnderValidOverview,
         WorksOnBoundGuide, ResultsPending, StoppedAtHead, IsTerminal, TerminalStatuses, Stages,
         Versions, Guides

(* The invariant is inductive: one step per stage. *)
LEMMA NextPreservesIInv == IInv /\ [Next]_vars => IInv'
<1> SUFFICES ASSUME IInv, [Next]_vars PROVE IInv'
  OBVIOUS
<1> USE LoopAssumption
    DEF IInv, TypeOK, At, Goto, Loop, Stages, TerminalStatuses, IsTerminal, pointers, versions
<1>1. CASE TerminalCheck
  BY <1>1 DEF TerminalCheck, PointersCoherent, NothingOfOldVersions, WorksUnderValidOverview,
              WorksOnBoundGuide, ResultsPending, StoppedAtHead
<1>2. CASE IterationLimit
  BY <1>2 DEF IterationLimit, PointersCoherent, NothingOfOldVersions, WorksUnderValidOverview,
              WorksOnBoundGuide, ResultsPending, StoppedAtHead
<1>3. CASE ValidateOverview
  BY <1>3 DEF ValidateOverview, ValidityOf, PointersCoherent, NothingOfOldVersions,
              WorksUnderValidOverview, WorksOnBoundGuide, ResultsPending, StoppedAtHead,
              OverviewValid
<1>4. CASE ResolveModule
  BY <1>4 DEF ResolveModule, Resolution, KeepModule, SwitchModule, PauseModule, Escalate, Stop,
              ClearGuideAndAction, PointersCoherent, NothingOfOldVersions,
              WorksUnderValidOverview, WorksOnBoundGuide, ResultsPending, StoppedAtHead,
              OverviewValid
<1>5. CASE ResolvePhase
  BY <1>5 DEF ResolvePhase, Resolution, KeepPhase, SwitchPhase, PausePhase, ReviseGuide, Escalate,
              Stop, ClearGuideAndAction, PointersCoherent, NothingOfOldVersions,
              WorksUnderValidOverview, WorksOnBoundGuide, ResultsPending, StoppedAtHead,
              OverviewValid
<1>6. CASE ResolveGuide
  BY <1>6 DEF ResolveGuide, Resolution, UseGuide, ReviseGuide, Escalate, Guides,
              ClearGuideAndAction, PointersCoherent, NothingOfOldVersions,
              WorksUnderValidOverview, WorksOnBoundGuide, ResultsPending, StoppedAtHead,
              OverviewValid
<1>7. CASE BindGuide
  BY <1>7 DEF BindGuide, Resolution, PointersCoherent, NothingOfOldVersions,
              WorksUnderValidOverview, WorksOnBoundGuide, ResultsPending, StoppedAtHead,
              OverviewValid
<1>8. CASE ResolveAction
  BY <1>8 DEF ResolveAction, Resolution, PickAction, PauseAction, ReviseGuide, Escalate, Stop,
              ClearGuideAndAction, PointersCoherent, NothingOfOldVersions,
              WorksUnderValidOverview, WorksOnBoundGuide, ResultsPending, StoppedAtHead,
              OverviewValid
<1>9. CASE ExecuteAction
  BY <1>9 DEF ExecuteAction, Stop, PointersCoherent, NothingOfOldVersions,
              WorksUnderValidOverview, WorksOnBoundGuide, ResultsPending, StoppedAtHead,
              OverviewValid
<1>10. CASE EvaluateAcceptance
  BY <1>10, ResultsTyped
     DEF EvaluateAcceptance, ResultKinds, PointersCoherent, NothingOfOldVersions,
         WorksUnderValidOverview, WorksOnBoundGuide, ResultsPending, StoppedAtHead
<1>11. CASE HandleAcceptance
  <2>1. /\ results # <<>>
        /\ Tail(results) \in Seq(ResultKinds)
        /\ Len(results) # 1 => Tail(results) # <<>>
    BY <1>11, TailTyped DEF HandleAcceptance, ResultsPending
  <2>2. /\ results' = Tail(results)
        /\ stage' \in {"terminal_check", "acceptance_results", "returned",
                       "overview_revision_migration"}
        /\ stage' = "acceptance_results" => Tail(results) # <<>>
        /\ UNCHANGED <<iterations, waiting_context, versions, guides, record_versions,
                       current_module_id, current_phase_id>>
        /\ \/ UNCHANGED <<current_guide_id, current_action_id>>
           \/ ClearGuideAndAction
        /\ runtime_status' = runtime_status \/ runtime_status' \in {"paused", "completed"}
        /\ runtime_status' # runtime_status => stage' = "returned"
    BY <1>11, <2>1 DEF HandleAcceptance, HandleProgress, HandleRevise, HandleEnd,
                       HandleEscalate, HandleNext
  <2>3. TypeOK'
    BY <2>1, <2>2 DEF ResultKinds, ClearGuideAndAction
  <2>4. ResultsPending' /\ WorksUnderValidOverview' /\ WorksOnBoundGuide' /\ StoppedAtHead'
    BY <1>11, <2>2 DEF ResultsPending, WorksUnderValidOverview, WorksOnBoundGuide, StoppedAtHead,
                       HandleAcceptance
  <2>5. PointersCoherent' /\ NothingOfOldVersions'
    BY <2>2 DEF PointersCoherent, NothingOfOldVersions, ClearGuideAndAction
  <2> QED
    BY <2>3, <2>4, <2>5
<1>12. CASE RunMigration
  <2>1. CASE MigrationEndsRun
    BY <1>12, <2>1 DEF RunMigration, MigrationEndsRun, Stop, PointersCoherent,
                       NothingOfOldVersions, WorksUnderValidOverview, WorksOnBoundGuide,
                       ResultsPending, StoppedAtHead
  <2>2. ASSUME NEW p \in Phases, AutoResume(p)
        PROVE  IInv'
    <3>1. /\ overview_version + 1 \in Versions
          /\ overview_version' = overview_version + 1
          /\ objects_version' = overview_version'
          /\ current_overview_version' = overview_version'
      BY <2>2 DEF AutoResume, RebindTo, Versions
    <3>2. TypeOK'
      BY <1>12, <2>2, <3>1 DEF RunMigration, AutoResume, RebindTo, ClearGuideAndAction, Guides
    <3>3. PointersCoherent' /\ NothingOfOldVersions'
      BY <2>2, <3>1 DEF AutoResume, RebindTo, ClearGuideAndAction, PointersCoherent,
                        NothingOfOldVersions
    <3>4. WorksUnderValidOverview' /\ WorksOnBoundGuide' /\ ResultsPending' /\ StoppedAtHead'
      BY <1>12, <2>2 DEF RunMigration, AutoResume, RebindTo, WorksUnderValidOverview,
                         WorksOnBoundGuide, ResultsPending, StoppedAtHead
    <3> QED
      BY <3>2, <3>3, <3>4
  <2> QED
    BY <1>12, <2>1, <2>2 DEF RunMigration
<1>13. CASE UNCHANGED vars
  BY <1>13 DEF vars, PointersCoherent, NothingOfOldVersions, WorksUnderValidOverview,
               WorksOnBoundGuide, ResultsPending, StoppedAtHead, OverviewValid
<1> QED
  BY <1>1, <1>2, <1>3, <1>4, <1>5, <1>6, <1>7, <1>8, <1>9, <1>10, <1>11, <1>12, <1>13 DEF Next

(* The inductive invariant holds throughout the run. *)
THEOREM LoopInductive == Spec => []IInv
<1> QED
  BY InitEstablishesIInv, NextPreservesIInv, PTL DEF Spec

(* RuntimeState keeps the types its model declares, within the iteration limit. *)
THEOREM LoopTypeCorrect == Spec => []TypeOK
<1>1. IInv => TypeOK
  BY DEF IInv
<1> QED
  BY <1>1, LoopInductive, PTL

(* The pointers always name one place in the skeleton, though no service checks it. *)
THEOREM PointersAreCoherent == Spec => []PointersCoherent
<1>1. IInv => PointersCoherent
  BY DEF IInv
<1> QED
  BY <1>1, LoopInductive, PTL

(* apply_migration_result leaves no pointer and no wait of an old version. *)
THEOREM OldVersionsAreForgotten == Spec => []NothingOfOldVersions
<1>1. IInv => NothingOfOldVersions
  BY DEF IInv
<1> QED
  BY <1>1, LoopInductive, PTL

(* The validity check at the head of an iteration covers everything the iteration does. *)
THEOREM ValidityCoversIteration == Spec => []WorksUnderValidOverview
<1>1. IInv => WorksUnderValidOverview
  BY DEF IInv
<1> QED
  BY <1>1, LoopInductive, PTL

(* The executor and the gates only run for a guide in state.guides. *)
THEOREM GuideIsBound == Spec => []WorksOnBoundGuide
<1>1. IInv => WorksOnBoundGuide
  BY DEF IInv
<1> QED
  BY <1>1, LoopInductive, PTL

(* A stopped run does nothing any more. *)
THEOREM StoppedRunStops == Spec => TerminalStops
<1>1. IInv /\ [Next]_vars
      => [IsTerminal(runtime_status)
          => UNCHANGED <<pointers, waiting_context, versions, guides, record_versions>>]_vars
  <2> SUFFICES ASSUME IInv, Next, IsTerminal(runtime_status)
               PROVE  UNCHANGED <<pointers, waiting_context, versions, guides, record_versions>>
    OBVIOUS
  <2>1. stage \in {"terminal_check", "returned"}
    BY DEF IInv, StoppedAtHead
  <2>2. TerminalCheck \/ IterationLimit
    BY <2>1 DEF Next, At, ValidateOverview, ValidityOf, ResolveModule, ResolvePhase,
                ResolveGuide, BindGuide, ResolveAction, ExecuteAction, EvaluateAcceptance,
                HandleAcceptance, RunMigration
  <2> QED
    BY <2>2 DEF TerminalCheck, IterationLimit
<1> QED
  BY <1>1, LoopInductive, PTL DEF Spec, TerminalStops

-------------------------------------------------------------------------------
(* The loop implements RunLifecycle.  A stage maps to what it is for; most of a walk through the *)
(* resolutions is a stutter, and the bound guide becomes the task when its action is picked.     *)

(* The three versions of the state move together: an overview is only ever invalid through a     *)
(* record, a guide or its own mark of being superseded.  Without this a renewal could skip a      *)
(* version.                                                                                       *)
VersionsAgree == /\ overview_version = current_overview_version
                 /\ objects_version = current_overview_version

(* The versions agree from the start on. *)
LEMMA InitVersionsAgree == Init => VersionsAgree
  BY DEF Init, VersionsAgree

(* Only a resumed migration changes a version, and it sets all three. *)
LEMMA NextKeepsVersionsAgreed == VersionsAgree /\ [Next]_vars => VersionsAgree'
<1> SUFFICES ASSUME VersionsAgree, [Next]_vars PROVE VersionsAgree'
  OBVIOUS
<1> USE DEF versions, VersionsAgree
<1>1. CASE UNCHANGED versions
  BY <1>1
<1>2. CASE RunMigration
  BY <1>1, <1>2 DEF RunMigration, AutoResume, RebindTo, MigrationEndsRun
<1>3. ~RunMigration => UNCHANGED versions
  BY DEF Next, vars, TerminalCheck, IterationLimit, ValidateOverview, ValidityOf, ResolveModule,
         ResolvePhase, ResolveGuide, BindGuide, ResolveAction, Resolution, ExecuteAction,
         EvaluateAcceptance, HandleAcceptance
<1> QED
  BY <1>1, <1>2, <1>3

(* What is due: the results not handled yet, one less when one has been. *)
LEMMA ResultsCounted ==
  ASSUME TypeOK
  PROVE  /\ Len(results) \in Nat
         /\ results # <<>> => Len(results) > 0 /\ Len(Tail(results)) = Len(results) - 1
<1>1. results \in Seq(ResultKinds)
  BY DEF TypeOK, ResultKinds
<1>2. Len(results) \in Nat /\ (results # <<>> => Len(results) # 0)
  BY <1>1, EmptySeq
<1>3. results # <<>> => Len(Tail(results)) = Len(results) - 1
  BY <1>1, <1>2, HeadTailProperties
<1> QED
  BY <1>2, <1>3

(* A run begins by seeking its first task. *)
LEMMA InitMapsToLifecycle == Init => Lifecycle!Init
  BY Len(<<>>) = 0 DEF Init, Lifecycle!Init, Doing, Task

(* A resolution keeps seeking, pauses the run, doubts the overview or, at the end, takes a task. *)
LEMMA ResolutionMaps ==
  ASSUME IInv, \/ ResolveModule \/ ResolvePhase \/ ResolveGuide \/ BindGuide \/ ResolveAction
  PROVE  [Lifecycle!Next]_(Lifecycle!vars)
<1> USE DEF At, Goto, Loop, Stop, Resolution, Escalate, ReviseGuide, ClearGuideAndAction, versions,
            pointers
<1>1. /\ Doing = "seek"
      /\ Task = None
      /\ ~IsTerminal(runtime_status)
      /\ UNCHANGED <<current_overview_version, results>>
  BY DEF ResolveModule, ResolvePhase, ResolveGuide, BindGuide, ResolveAction, IInv, StoppedAtHead,
         Doing, Task
<1>2. CASE /\ stage' \in {"terminal_check", "phase_resolution", "guide_resolution", "bound_guide",
                          "action_resolution"}
           /\ UNCHANGED <<runtime_status, waiting_context>>
  <2>1. Doing' = "seek" /\ Task' = None
    BY <1>2 DEF Doing, Task
  <2> QED
    BY <1>1, <1>2, <2>1 DEF Lifecycle!vars
<1>3. CASE /\ stage' = "terminal_check"
           /\ runtime_status' = "paused"
           /\ waiting_context' \in {waiting_context, current_overview_version}
  <2>1. Doing' = "seek" /\ Task' = None
    BY <1>3 DEF Doing, Task
  <2>2. Lifecycle!Wait
    BY <1>1, <1>3, <2>1
       DEF Lifecycle!Wait, Lifecycle!Stopped, Lifecycle!MayAsk, IsTerminal, TerminalStatuses
  <2> QED
    BY <2>2 DEF Lifecycle!Next
<1>4. CASE /\ stage' = "overview_revision_migration"
           /\ UNCHANGED <<runtime_status, waiting_context>>
  <2>1. Doing' = "renew" /\ Task' = None
    BY <1>4 DEF Doing, Task
  <2>2. Lifecycle!Doubt
    BY <1>1, <1>4, <2>1 DEF Lifecycle!Doubt, Lifecycle!Stopped, IsTerminal, TerminalStatuses
  <2> QED
    BY <2>2 DEF Lifecycle!Next
<1>5. CASE ResolveAction /\ PickAction
  <2>1. /\ current_guide_id \in Phases \X Versions
        /\ current_guide_id # None
        /\ current_guide_id[2] = current_overview_version
    BY <1>5, LoopAssumption
       DEF ResolveAction, IInv, TypeOK, WorksOnBoundGuide, NothingOfOldVersions, Guides, Versions
  <2>2. PICK p \in Phases : current_guide_id = <<p, current_overview_version>>
    BY <2>1
  <2>3. /\ stage' = "execution_writeback"
        /\ UNCHANGED <<current_guide_id, runtime_status, waiting_context>>
    BY <1>5 DEF PickAction
  <2>4. Doing' = "work" /\ Task' = <<p, current_overview_version>>
    BY <2>2, <2>3 DEF Doing, Task
  <2>5. Lifecycle!Take(p)
    BY <1>1, <2>3, <2>4 DEF Lifecycle!Take, Lifecycle!Stopped, IsTerminal, TerminalStatuses
  <2> QED
    BY <2>5 DEF Lifecycle!Next
<1>6. CASE ResolveModule
  BY <1>2, <1>3, <1>4, <1>6 DEF ResolveModule, KeepModule, SwitchModule, PauseModule
<1>7. CASE ResolvePhase
  BY <1>2, <1>3, <1>4, <1>7 DEF ResolvePhase, KeepPhase, SwitchPhase, PausePhase
<1>8. CASE ResolveGuide
  BY <1>2, <1>4, <1>8 DEF ResolveGuide, UseGuide
<1>9. CASE BindGuide
  BY <1>2, <1>4, <1>9 DEF BindGuide
<1>10. CASE ResolveAction
  BY <1>2, <1>3, <1>4, <1>5, <1>10 DEF ResolveAction, PauseAction
<1> QED
  BY <1>6, <1>7, <1>8, <1>9, <1>10

(* The executor's answer is delivered for judgement or interrupts the task. *)
LEMMA ExecutionMaps ==
  ASSUME IInv, ExecuteAction
  PROVE  Lifecycle!Next
<1> USE DEF At, Goto, Loop, Stop, versions, pointers
<1>1. /\ Doing = "work" /\ Task = current_guide_id
      /\ UNCHANGED <<current_overview_version, current_guide_id, results>>
      /\ waiting_context' \in {waiting_context, current_overview_version}
  BY DEF ExecuteAction, Doing, Task
<1>2. CASE stage' = "acceptance_promotion" /\ UNCHANGED runtime_status
  <2>1. Doing' = "judge" /\ Task' = current_guide_id
    BY <1>1, <1>2 DEF Doing, Task
  <2>2. Lifecycle!Deliver
    BY <1>1, <1>2, <2>1 DEF Lifecycle!Deliver, Lifecycle!MayAsk
  <2> QED
    BY <2>2 DEF Lifecycle!Next
<1>3. CASE stage' = "terminal_check" /\ runtime_status' \in TerminalStatuses
  <2>1. Doing' = "seek" /\ Task' = None
    BY <1>3 DEF Doing, Task
  <2>2. Lifecycle!Interrupt
    BY <1>1, <1>3, <2>1 DEF Lifecycle!Interrupt, Lifecycle!MayAsk, TerminalStatuses
  <2> QED
    BY <2>2 DEF Lifecycle!Next
<1> QED
  BY <1>2, <1>3 DEF ExecuteAction

(* An evaluation leaves at least one verdict due. *)
LEMMA EvaluationMaps ==
  ASSUME IInv, EvaluateAcceptance
  PROVE  Lifecycle!Next
<1>1. Doing = "judge" /\ Doing' = "settle" /\ Task' = None
  BY DEF EvaluateAcceptance, At, Goto, Doing, Task
<1>2. results' \in Seq(ResultKinds) /\ results' # <<>>
  BY ResultsTyped DEF EvaluateAcceptance
<1>3. Len(results') \in Nat \ {0}
  BY <1>2, EmptySeq
<1>4. Lifecycle!Judge
  BY <1>1, <1>3 DEF Lifecycle!Judge, EvaluateAcceptance, versions
<1> QED
  BY <1>4 DEF Lifecycle!Next

(* Each result handled settles one verdict, the last of them ending the settlement. *)
LEMMA SettlementMaps ==
  ASSUME IInv, HandleAcceptance
  PROVE  Lifecycle!Next
<1> USE DEF At, Goto
<1>1. /\ Doing = "settle" /\ Task = None
      /\ Len(results) \in Nat /\ Len(results) > 0
      /\ UNCHANGED <<current_overview_version, waiting_context>>
  BY ResultsCounted DEF HandleAcceptance, IInv, ResultsPending, Doing, Task, versions
<1>2. Len(results') = Len(results) - 1
  BY ResultsCounted
     DEF IInv, ResultsPending, HandleAcceptance, HandleProgress, HandleRevise, HandleEnd,
         HandleEscalate, HandleNext
<1>3. CASE HandleNext /\ UNCHANGED runtime_status
  <2>1. /\ Len(results') = 0 => stage' = "terminal_check"
        /\ Len(results') # 0 => stage' = "acceptance_results"
    BY <1>1, <1>2, <1>3 DEF HandleNext
  <2>2. Doing' = (IF Len(results') = 0 THEN "seek" ELSE "settle") /\ Task' = None
    BY <2>1 DEF Doing, Task
  <2> QED
    BY <1>1, <1>2, <1>3, <2>2 DEF Lifecycle!Next, Lifecycle!Settle
<1>4. CASE HandleEnd
  <2>1. Doing' = "over" /\ Task' = None
    BY <1>4 DEF HandleEnd, Doing, Task
  <2>2. runtime_status' \in {"paused", "completed"}
    BY <1>4 DEF HandleEnd
  <2> QED
    BY <1>1, <1>2, <2>1, <2>2 DEF Lifecycle!Next, Lifecycle!Settle
<1>5. CASE HandleEscalate
  <2>1. Doing' = "renew" /\ Task' = None
    BY <1>5 DEF HandleEscalate, Doing, Task
  <2>2. UNCHANGED runtime_status
    BY <1>5 DEF HandleEscalate
  <2> QED
    BY <1>1, <1>2, <2>1, <2>2 DEF Lifecycle!Next, Lifecycle!Settle
<1> QED
  BY <1>3, <1>4, <1>5 DEF HandleAcceptance, HandleProgress, HandleRevise

(* A migration renews the overview or stops the run. *)
LEMMA MigrationMaps ==
  ASSUME IInv, VersionsAgree, RunMigration
  PROVE  Lifecycle!Next
<1> USE DEF At, Goto, Loop, Stop
<1>1. /\ Doing = "renew" /\ Task = None
      /\ Doing' = "seek" /\ Task' = None
      /\ Len(results') = 0
  BY Len(<<>>) = 0
     DEF RunMigration, AutoResume, RebindTo, MigrationEndsRun, Doing, Task
<1>2. ASSUME NEW p \in Phases, AutoResume(p)
      PROVE  Lifecycle!Renew
  <2>1. current_overview_version' = current_overview_version + 1
    BY <1>2 DEF AutoResume, RebindTo, VersionsAgree
  <2> QED
    BY <1>1, <1>2, <2>1 DEF AutoResume, RebindTo, Lifecycle!Renew
<1>3. ASSUME MigrationEndsRun
      PROVE  Lifecycle!Refuse
  BY <1>1, <1>3 DEF MigrationEndsRun, Lifecycle!Refuse, versions
<1> QED
  BY <1>2, <1>3 DEF RunMigration, Lifecycle!Next

(* Every step of the loop is one of RunLifecycle or a stutter. *)
LEMMA StepMapsToLifecycle ==
  ASSUME IInv, VersionsAgree, [Next]_vars
  PROVE  [Lifecycle!Next]_(Lifecycle!vars)
<1> USE DEF At, Goto, IsTerminal, TerminalStatuses, versions, pointers
<1>1. CASE TerminalCheck
  <2>1. Doing = "seek" /\ Task = None /\ Task' = None
    BY <1>1 DEF TerminalCheck, Doing, Task
  <2>2. CASE IsTerminal(runtime_status)
    <3>1. Doing' = "over"
      BY <1>1, <2>2 DEF TerminalCheck, Doing
    <3> QED
      BY <1>1, <2>1, <2>2, <3>1 DEF TerminalCheck, Lifecycle!Next, Lifecycle!Return,
                                    Lifecycle!Stopped
  <2>3. CASE ~IsTerminal(runtime_status)
    <3>1. Doing' = "seek"
      BY <1>1, <2>3 DEF TerminalCheck, Doing
    <3> QED
      BY <1>1, <2>1, <3>1 DEF TerminalCheck, Lifecycle!vars
  <2> QED
    BY <2>2, <2>3
<1>2. CASE IterationLimit
  <2>1. Doing = "seek" /\ Task = None /\ Doing' = "over" /\ Task' = None
    BY <1>2 DEF IterationLimit, Doing, Task
  <2> QED
    BY <1>2, <2>1 DEF IterationLimit, Lifecycle!Next, Lifecycle!Exhaust
<1>3. CASE ValidateOverview
  <2>1. Doing = "seek" /\ Task = None /\ Task' = None /\ ~IsTerminal(runtime_status)
    BY <1>3 DEF ValidateOverview, ValidityOf, Doing, Task, IInv, StoppedAtHead
  <2>2. CASE OverviewValid
    <3>1. Doing' = "seek"
      BY <1>3, <2>2 DEF ValidateOverview, ValidityOf, Doing
    <3> QED
      BY <1>3, <2>1, <3>1 DEF ValidateOverview, ValidityOf, Lifecycle!vars
  <2>3. CASE ~OverviewValid
    <3>1. Doing' = "renew"
      BY <1>3, <2>3 DEF ValidateOverview, ValidityOf, Doing
    <3> QED
      BY <1>3, <2>1, <3>1 DEF ValidateOverview, ValidityOf, Lifecycle!Next, Lifecycle!Doubt,
                              Lifecycle!Stopped
  <2> QED
    BY <2>2, <2>3
<1>4. CASE UNCHANGED vars
  BY <1>4 DEF vars, Lifecycle!vars, Doing, Task
<1> QED
  BY <1>1, <1>2, <1>3, <1>4, ResolutionMaps, ExecutionMaps, EvaluationMaps, SettlementMaps,
     MigrationMaps DEF Next

(* run_runtime implements RunLifecycle: what is judged was worked on for the current version and *)
(* not interrupted, every verdict is settled unless one ends the run or has the overview         *)
(* renewed, and only a renewal changes the version or lifts a wait.                               *)
THEOREM LoopImplementsLifecycle == Spec => LoopLifecycle
<1>1. Spec => []VersionsAgree
  BY InitVersionsAgree, NextKeepsVersionsAgreed, PTL DEF Spec
<1>2. IInv /\ VersionsAgree /\ [Next]_vars => [Lifecycle!Next]_(Lifecycle!vars)
  BY StepMapsToLifecycle
<1> QED
  BY <1>1, <1>2, InitMapsToLifecycle, LoopInductive, PTL
     DEF Spec, LoopLifecycle, Lifecycle!Spec

-------------------------------------------------------------------------------
(* The part of Termination that is no liveness: however the services answer, a step brings the   *)
(* run down in the lexicographic order of the iterations left, the stage within the iteration    *)
(* and the results to handle, all natural numbers.  So no run of the loop goes on for ever.      *)

StagesLeft == [overview_validity |-> 11, module_resolution |-> 10, phase_resolution |-> 9,
               guide_resolution |-> 8, bound_guide |-> 7, action_resolution |-> 6,
               execution_writeback |-> 5, acceptance_promotion |-> 4, acceptance_results |-> 3,
               overview_revision_migration |-> 2, terminal_check |-> 1, returned |-> 0]

IterationsLeft == MaxIterations - iterations

RunsDown ==
  \/ IterationsLeft' < IterationsLeft
  \/ /\ IterationsLeft' = IterationsLeft
     /\ \/ StagesLeft[stage'] < StagesLeft[stage]
        \/ /\ StagesLeft[stage'] = StagesLeft[stage]
           /\ Len(results') < Len(results)

(* The three are natural numbers, so that no infinite sequence of states runs down. *)
LEMMA RunDownIsFinite ==
  ASSUME TypeOK
  PROVE  IterationsLeft \in Nat /\ StagesLeft[stage] \in Nat /\ Len(results) \in Nat
<1>1. IterationsLeft \in Nat
  BY LoopAssumption DEF TypeOK, IterationsLeft
<1>2. StagesLeft[stage] \in Nat
  BY DEF TypeOK, Stages, StagesLeft
<1> QED
  BY <1>1, <1>2, ResultsCounted

(* Every step, in whichever stage, runs down: a return to the head of the loop is paid for by    *)
(* the iteration that follows it, a result handled is gone.                                       *)
LEMMA NextRunsDown == IInv /\ Next => RunsDown
<1> SUFFICES ASSUME IInv, Next PROVE RunsDown
  OBVIOUS
<1> USE DEF At, Goto, Loop, Stop, RunsDown, StagesLeft
<1>0. iterations \in Nat /\ MaxIterations \in Nat
  BY LoopAssumption DEF IInv, TypeOK
<1>1. CASE TerminalCheck
  BY <1>0, <1>1 DEF TerminalCheck, IterationsLeft
<1>2. CASE IterationLimit
  BY <1>0, <1>2 DEF IterationLimit, IterationsLeft
<1>3. CASE ValidateOverview
  BY <1>0, <1>3 DEF ValidateOverview, ValidityOf, IterationsLeft
<1>4. CASE ResolveModule
  BY <1>0, <1>4 DEF ResolveModule, Resolution, KeepModule, SwitchModule, PauseModule, Escalate,
                    IterationsLeft
<1>5. CASE ResolvePhase
  BY <1>0, <1>5 DEF ResolvePhase, Resolution, KeepPhase, SwitchPhase, PausePhase, ReviseGuide,
                    Escalate, IterationsLeft
<1>6. CASE ResolveGuide
  BY <1>0, <1>6 DEF ResolveGuide, Resolution, UseGuide, ReviseGuide, Escalate, IterationsLeft
<1>7. CASE BindGuide
  BY <1>0, <1>7 DEF BindGuide, Resolution, IterationsLeft
<1>8. CASE ResolveAction
  BY <1>0, <1>8 DEF ResolveAction, Resolution, PickAction, PauseAction, ReviseGuide, Escalate,
                    IterationsLeft
<1>9. CASE ExecuteAction
  BY <1>0, <1>9 DEF ExecuteAction, IterationsLeft
<1>10. CASE EvaluateAcceptance
  BY <1>0, <1>10 DEF EvaluateAcceptance, IterationsLeft
<1>11. CASE HandleAcceptance
  <2>1. /\ Len(results) \in Nat
        /\ Len(Tail(results)) = Len(results) - 1
    BY <1>11, ResultsCounted DEF IInv, HandleAcceptance, ResultsPending
  <2>2. /\ results' = Tail(results)
        /\ stage = "acceptance_results"
        /\ stage' \in {"acceptance_results", "overview_revision_migration", "terminal_check",
                       "returned"}
        /\ iterations' = iterations
    BY <1>11 DEF HandleAcceptance, HandleProgress, HandleRevise, HandleEnd, HandleEscalate,
                 HandleNext
  <2> QED
    BY <1>0, <2>1, <2>2 DEF IterationsLeft
<1>12. CASE RunMigration
  BY <1>0, <1>12 DEF RunMigration, AutoResume, RebindTo, MigrationEndsRun, IterationsLeft
<1> QED
  BY <1>1, <1>2, <1>3, <1>4, <1>5, <1>6, <1>7, <1>8, <1>9, <1>10, <1>11, <1>12 DEF Next

(* run_runtime cannot stay busy for ever: no answers of services, executor or migration runner   *)
(* make it take a step that uses up none of its iterations, stages or results.                   *)
THEOREM EveryStepRunsDown == Spec => [][RunsDown]_vars
<1>1. IInv /\ [Next]_vars => [RunsDown]_vars
  BY NextRunsDown
<1> QED
  BY <1>1, LoopInductive, PTL DEF Spec

(* The status run_runtime returns with is terminal, by whichever of its returns it leaves. *)
THEOREM ReturnsTerminal == Spec => [](stage = "returned" => IsTerminal(runtime_status))
<1> DEFINE Ended == stage = "returned" => IsTerminal(runtime_status)
<1> USE DEF At, Goto, Loop, Stop, IsTerminal, TerminalStatuses
<1>1. Init => Ended
  BY DEF Init
<1>2. ASSUME Ended, [Next]_vars
      PROVE  Ended'
  <2>1. CASE TerminalCheck \/ IterationLimit \/ ValidateOverview
    BY <2>1 DEF TerminalCheck, IterationLimit, ValidateOverview, ValidityOf
  <2>2. CASE ResolveModule \/ ResolvePhase \/ ResolveGuide \/ BindGuide \/ ResolveAction
    BY <2>2 DEF ResolveModule, ResolvePhase, ResolveGuide, BindGuide, ResolveAction, KeepModule,
                SwitchModule, PauseModule, KeepPhase, SwitchPhase, PausePhase, UseGuide,
                PickAction, PauseAction, ReviseGuide, Escalate
  <2>3. CASE ExecuteAction \/ EvaluateAcceptance
    BY <2>3 DEF ExecuteAction, EvaluateAcceptance
  <2>4. CASE HandleAcceptance
    BY <2>4 DEF HandleAcceptance, HandleProgress, HandleRevise, HandleEnd, HandleEscalate,
                HandleNext
  <2>5. CASE RunMigration
    BY <2>5 DEF RunMigration, AutoResume, RebindTo, MigrationEndsRun
  <2>6. CASE UNCHANGED vars
    BY <1>2, <2>6 DEF vars
  <2> QED
    BY <1>2, <2>1, <2>2, <2>3, <2>4, <2>5, <2>6 DEF Next
<1> QED
  BY <1>1, <1>2, PTL DEF Spec

-------------------------------------------------------------------------------
(* The rest of Termination, up to ENABLED: a step is always possible.  MoveTo gives every        *)
(* variable one value, so that there is a state it leads to whatever that value is; it is a step  *)
(* of the loop when the value is Onward, which is defined in every state but the last.            *)

Standing == [stage |-> stage, iterations |-> iterations, status |-> runtime_status,
             module |-> current_module_id, phase |-> current_phase_id,
             guide |-> current_guide_id, action |-> current_action_id,
             waiting |-> waiting_context, results |-> results]

MoveTo(n) == /\ stage' = n.stage
             /\ iterations' = n.iterations
             /\ runtime_status' = n.status
             /\ current_module_id' = n.module
             /\ current_phase_id' = n.phase
             /\ current_guide_id' = n.guide
             /\ current_action_id' = n.action
             /\ waiting_context' = n.waiting
             /\ results' = n.results
             /\ UNCHANGED <<versions, guides, record_versions>>

To(s) == [Standing EXCEPT !.stage = s]

(* From the head of the loop. *)
FromHead == IF iterations < MaxIterations
            THEN [To(IF IsTerminal(runtime_status) THEN "returned" ELSE "overview_validity")
                    EXCEPT !.iterations = iterations + 1]
            ELSE [To("returned") EXCEPT !.status = "escalated"]

(* From a result that is handled. *)
FromResult ==
  LET next == IF Len(results) = 1 THEN "terminal_check" ELSE "acceptance_results"
      Handled(s) == [To(s) EXCEPT !.results = Tail(results)]
  IN CASE Head(results) = "revise_guide" -> [Handled(next) EXCEPT !.guide = None, !.action = None]
       [] Head(results) = "pause_acceptance" -> [Handled("returned") EXCEPT !.status = "paused"]
       [] Head(results) = "experiment_done" -> [Handled("returned") EXCEPT !.status = "completed"]
       [] Head(results) = "escalate_to_overview_revision" -> Handled("overview_revision_migration")
       [] OTHER -> Handled(next)

(* Where services and callers are free to send the loop, they may escalate, keep the state or     *)
(* pause.                                                                                          *)
Onward ==
  CASE stage = "terminal_check" -> FromHead
    [] stage = "overview_validity" ->
         To(IF OverviewValid THEN "module_resolution" ELSE "overview_revision_migration")
    [] stage = "bound_guide" ->
         To(IF current_guide_id \in guides THEN "action_resolution"
                                           ELSE "overview_revision_migration")
    [] stage = "execution_writeback" -> To("acceptance_promotion")
    [] stage = "acceptance_promotion" ->
         [To("acceptance_results") EXCEPT !.results = <<"keep_current_state">>]
    [] stage = "acceptance_results" -> FromResult
    [] stage = "overview_revision_migration" ->
         [To("terminal_check") EXCEPT !.status = "paused", !.results = <<>>]
    [] OTHER -> To("overview_revision_migration")

(* A result that is to be handled is of a kind one of the handlers takes. *)
LEMMA ResultIsHandled ==
  ASSUME IInv, stage = "acceptance_results", MoveTo(FromResult)
  PROVE  HandleAcceptance
<1>1. results \in Seq(ResultKinds) /\ results # <<>>
  BY DEF IInv, TypeOK, ResultsPending, ResultKinds
<1>2. Head(results) \in ResultKinds
  BY <1>1
<1> DEFINE next == IF Len(results) = 1 THEN "terminal_check" ELSE "acceptance_results"
<1> USE DEF MoveTo, FromResult, To, Standing
<1>3. results' = Tail(results) /\ iterations' = iterations /\ waiting_context' = waiting_context
  BY <1>2 DEF ResultKinds, AcceptanceKinds
<1>4. CASE Head(results) = "revise_guide"
  BY <1>3, <1>4 DEF HandleAcceptance, HandleRevise, HandleNext, At, Goto, ClearGuideAndAction
<1>5. CASE Head(results) \in {"pause_acceptance", "experiment_done"}
  BY <1>3, <1>5 DEF HandleAcceptance, HandleEnd, At, Goto, pointers
<1>6. CASE Head(results) = "escalate_to_overview_revision"
  BY <1>3, <1>6 DEF HandleAcceptance, HandleEscalate, At, Goto, pointers
<1>7. CASE Head(results) \in {"keep_current_state", "phase_done", "module_done", "adopted"}
  BY <1>3, <1>7 DEF HandleAcceptance, HandleProgress, HandleNext, At, Goto, pointers
<1> QED
  BY <1>2, <1>4, <1>5, <1>6, <1>7 DEF ResultKinds, AcceptanceKinds

(* In no state but the last is run_runtime without a step to take: every result its handlers are  *)
(* handed has a branch, and the end of the loop is reached by counting, not by getting stuck.     *)
THEOREM LoopGoesOn ==
  ASSUME IInv, stage # "returned", MoveTo(Onward)
  PROVE  Next
<1> USE DEF MoveTo, Onward, To, Standing, At, Goto, Loop, Stop, pointers, Resolution, Escalate
<1>1. CASE stage = "terminal_check"
  <2>1. iterations \in 0..MaxIterations /\ MaxIterations \in Nat
    BY LoopAssumption DEF IInv, TypeOK
  <2>2. CASE iterations < MaxIterations
    BY <1>1, <2>1, <2>2 DEF FromHead, Next, TerminalCheck
  <2>3. CASE iterations = MaxIterations
    BY <1>1, <2>1, <2>3 DEF FromHead, Next, IterationLimit
  <2> QED
    BY <2>1, <2>2, <2>3
<1>2. CASE stage = "overview_validity"
  BY <1>2 DEF Next, ValidateOverview, ValidityOf
<1>3. CASE stage = "bound_guide"
  BY <1>3 DEF Next, BindGuide
<1>4. CASE stage \in {"module_resolution", "phase_resolution", "guide_resolution",
                      "action_resolution"}
  BY <1>4 DEF Next, ResolveModule, ResolvePhase, ResolveGuide, ResolveAction
<1>5. CASE stage = "execution_writeback"
  BY <1>5 DEF Next, ExecuteAction
<1>6. CASE stage = "acceptance_promotion"
  <2>1. <<"keep_current_state">> \in AcceptanceResults
    BY DEF AcceptanceResults, Gates, AcceptanceKinds
  <2> QED
    BY <1>6, <2>1 DEF Next, EvaluateAcceptance
<1>7. CASE stage = "acceptance_results"
  BY <1>7, ResultIsHandled DEF Next
<1>8. CASE stage = "overview_revision_migration"
  BY <1>8 DEF Next, RunMigration, MigrationEndsRun
<1> QED
  BY <1>1, <1>2, <1>3, <1>4, <1>5, <1>6, <1>7, <1>8 DEF IInv, TypeOK, Stages

-------------------------------------------------------------------------------
(* What the refuted properties come down to: by how much TerminalStatusSticks and               *)
(* AutoResumeIsValid fail, whatever the services, the executor and the migration runner answer.  *)

(* A stopped run takes a step at the head of the loop only. *)
LEMMA StoppedSteps ==
  ASSUME IInv, Next, IsTerminal(runtime_status)
  PROVE  TerminalCheck \/ IterationLimit
<1>1. stage \in {"terminal_check", "returned"}
  BY DEF IInv, StoppedAtHead
<1> QED
  BY <1>1 DEF Next, At, ValidateOverview, ValidityOf, ResolveModule, ResolvePhase, ResolveGuide,
              BindGuide, ResolveAction, ExecuteAction, EvaluateAcceptance, HandleAcceptance,
              RunMigration

(* TerminalStatusSticks fails in one way: the last iteration was used up to reach the status,   *)
(* and the end of the for loop overwrites it.  A status reached earlier is what run_runtime      *)
(* returns.                                                                                       *)
THEOREM StatusSticksBeforeLimit ==
  Spec => [][IsTerminal(runtime_status) =>
               \/ runtime_status' = runtime_status
               \/ /\ iterations = MaxIterations
                  /\ stage' = "returned"
                  /\ runtime_status' = "escalated"]_vars
<1> DEFINE Sticks == IsTerminal(runtime_status) =>
                       \/ runtime_status' = runtime_status
                       \/ /\ iterations = MaxIterations
                          /\ stage' = "returned"
                          /\ runtime_status' = "escalated"
<1>1. IInv /\ [Next]_vars => [Sticks]_vars
  BY StoppedSteps DEF TerminalCheck, IterationLimit, Goto
<1> QED
  BY <1>1, LoopInductive, PTL DEF Spec

(* Some record is of an overview that has been replaced. *)
Stale == \E v \in record_versions : v < current_overview_version

(* No record is ahead of the overview; one that is behind it leaves only the head of the loop    *)
(* and the migration, and the experiment is not completed.                                        *)
StaleInv ==
  /\ \A v \in record_versions : v <= current_overview_version
  /\ Stale => /\ stage \in {"terminal_check", "overview_validity",
                            "overview_revision_migration", "returned"}
              /\ runtime_status # "completed"

(* A renewed overview is valid for the next iteration exactly if nothing has been recorded yet   *)
(* and it does not come superseded: neither the guides nor the rebound versions can spoil it.     *)
LEMMA RenewalValidity ==
  ASSUME IInv, VersionsAgree, StaleInv, NEW p \in Phases, AutoResume(p), UNCHANGED record_versions
  PROVE  OverviewValid' <=> record_versions = {} /\ ~superseded'
<1>1. /\ overview_version \in Nat
      /\ overview_version = current_overview_version
      /\ overview_version' = overview_version + 1
      /\ current_overview_version' = overview_version'
      /\ objects_version' = overview_version'
  BY LoopAssumption DEF AutoResume, RebindTo, VersionsAgree, IInv, TypeOK, Versions
<1>2. \A g \in guides' : g[2] = current_overview_version'
  BY <1>1 DEF AutoResume, RebindTo
<1>3. record_versions \subseteq {current_overview_version'} <=> record_versions = {}
  BY <1>1, LoopAssumption DEF StaleInv, IInv, TypeOK, Versions
<1> QED
  BY <1>1, <1>2, <1>3 DEF OverviewValid

(* What a step does to StaleInv.  Outside the migration the version stays, and a new record is   *)
(* of it; under a stale record the validity check fails, so that no resolution is reached.        *)
LEMMA NextPreservesStaleInv ==
  ASSUME IInv, VersionsAgree, StaleInv, [Next]_vars
  PROVE  StaleInv' /\ (Stale => Stale')
<1> USE DEF At, Goto, Loop, Stop, versions
<1>1. record_versions \subseteq Nat /\ current_overview_version \in Nat
  BY LoopAssumption DEF IInv, TypeOK, Versions
<1>2. Stale => ~OverviewValid
  BY <1>1 DEF Stale, OverviewValid
<1>3. CASE TerminalCheck \/ IterationLimit
  BY <1>3 DEF TerminalCheck, IterationLimit, StaleInv, Stale
<1>4. CASE ValidateOverview
  BY <1>2, <1>4 DEF ValidateOverview, ValidityOf, StaleInv, Stale
<1>5. CASE \/ ResolveModule \/ ResolvePhase \/ ResolveGuide \/ BindGuide \/ ResolveAction
           \/ EvaluateAcceptance \/ HandleAcceptance
  <2>1. ~Stale
    BY <1>5 DEF StaleInv, ResolveModule, ResolvePhase, ResolveGuide, BindGuide, ResolveAction,
                EvaluateAcceptance, HandleAcceptance
  <2>2. UNCHANGED <<record_versions, current_overview_version>>
    BY <1>5 DEF ResolveModule, ResolvePhase, ResolveGuide, BindGuide, ResolveAction, Resolution,
                EvaluateAcceptance, HandleAcceptance
  <2> QED
    BY <2>1, <2>2 DEF StaleInv, Stale
<1>6. CASE ExecuteAction
  <2>1. /\ ~Stale
        /\ current_overview_version' = current_overview_version
        /\ record_versions' \subseteq record_versions \cup {current_overview_version}
    BY <1>6 DEF StaleInv, ExecuteAction
  <2>2. \A v \in record_versions' : v <= current_overview_version
    BY <1>1, <2>1 DEF StaleInv
  <2>3. \A v \in record_versions' : ~(v < current_overview_version)
    BY <1>1, <2>1 DEF Stale
  <2> QED
    BY <2>1, <2>2, <2>3 DEF StaleInv, Stale
<1>7. CASE RunMigration
  <2>1. runtime_status \notin TerminalStatuses
    BY <1>7 DEF RunMigration, IInv, StoppedAtHead, IsTerminal
  <2>2. CASE MigrationEndsRun
    BY <1>7, <2>2 DEF RunMigration, MigrationEndsRun, StaleInv, Stale
  <2>3. ASSUME NEW p \in Phases, AutoResume(p)
        PROVE  StaleInv' /\ (Stale => Stale')
    <3>1. /\ record_versions' = record_versions
          /\ current_overview_version' = current_overview_version + 1
          /\ stage' = "terminal_check"
          /\ runtime_status' = runtime_status
      BY <1>7, <2>3 DEF RunMigration, AutoResume, RebindTo, VersionsAgree
    <3> QED
      BY <1>1, <2>1, <3>1 DEF StaleInv, Stale, TerminalStatuses
  <2> QED
    BY <1>7, <2>2, <2>3 DEF RunMigration
<1>8. CASE UNCHANGED vars
  BY <1>8 DEF vars, StaleInv, Stale
<1> QED
  BY <1>3, <1>4, <1>5, <1>6, <1>7, <1>8 DEF Next

(* StaleInv holds throughout the run. *)
LEMMA StaleInductive == Spec => [](IInv /\ VersionsAgree /\ StaleInv)
<1>1. Init => StaleInv
  BY DEF Init, StaleInv, Stale
<1>2. Spec => []VersionsAgree
  BY InitVersionsAgree, NextKeepsVersionsAgreed, PTL DEF Spec
<1>3. IInv /\ VersionsAgree /\ StaleInv /\ [Next]_vars => StaleInv'
  BY NextPreservesStaleInv
<1> QED
  BY <1>1, <1>2, <1>3, LoopInductive, PTL DEF Spec

(* AutoResumeIsValid fails for one reason: a migration leaves the action records as they are.    *)
(* A resumed run is valid for the next iteration exactly if it has no record at all and the       *)
(* overview it resumes with is not itself superseded.                                             *)
THEOREM ResumeIsValidWithoutRecords ==
  Spec => [][overview_version' # overview_version
             => (OverviewValid' <=> record_versions = {} /\ ~superseded')]_vars
<1> DEFINE Renewed == overview_version' # overview_version
                      => (OverviewValid' <=> record_versions = {} /\ ~superseded')
<1>1. IInv /\ VersionsAgree /\ StaleInv /\ [Next]_vars => [Renewed]_vars
  <2> SUFFICES ASSUME IInv, VersionsAgree, StaleInv, Next, overview_version' # overview_version
               PROVE  OverviewValid' <=> record_versions = {} /\ ~superseded'
    OBVIOUS
  <2>1. RunMigration
    BY DEF Next, versions, TerminalCheck, IterationLimit, ValidateOverview, ValidityOf,
           ResolveModule, ResolvePhase, ResolveGuide, BindGuide, ResolveAction, Resolution,
           ExecuteAction, EvaluateAcceptance, HandleAcceptance
  <2>2. PICK p \in Phases : AutoResume(p)
    BY <2>1 DEF RunMigration, MigrationEndsRun, versions
  <2> QED
    BY <2>1, <2>2, RenewalValidity DEF RunMigration
<1> QED
  BY <1>1, StaleInductive, PTL DEF Spec

(* And it never recovers: once an overview with a record has been replaced, the run resolves,    *)
(* executes and judges nothing any more, however many migrations resume it, and is never          *)
(* completed.  What remains is to pause or to escalate.                                            *)
THEOREM OldRecordsEndWork ==
  Spec => [](Stale => [](/\ stage \in {"terminal_check", "overview_validity",
                                       "overview_revision_migration", "returned"}
                         /\ runtime_status # "completed"))
<1> DEFINE Idle == /\ stage \in {"terminal_check", "overview_validity",
                                 "overview_revision_migration", "returned"}
                   /\ runtime_status # "completed"
<1>1. IInv /\ VersionsAgree /\ StaleInv /\ [Next]_vars => (Stale => Stale')
  BY NextPreservesStaleInv
<1>2. StaleInv => (Stale => Idle)
  BY DEF StaleInv
<1> QED
  BY <1>1, <1>2, StaleInductive, PTL DEF Spec

===============================================================================
