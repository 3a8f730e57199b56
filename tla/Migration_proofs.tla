--------------------------- MODULE Migration_proofs ---------------------------
(***************************************************************************)
(* Proofs about Migration, for all overviews, mappings and statuses.  The  *)
(* inductive invariant says of each stage what the ones before it have      *)
(* established; the point to resume at rests on the order of the phases     *)
(* being one (Transitive), which the ids of an overview give.               *)
(***************************************************************************)
EXTENDS Migration, FiniteSetTheorems, WellFoundedInduction, TLAPS

(* The call has no answer before it returns. *)
NoAnswerYet == stage # "returned" => outcome = None /\ reason = None

(* CheckGuides has been passed. *)
GuidesChecked ==
  stage \in {"resume_module", "resume_phase", "finish"} \/ Resumes => ~UnmappableGuide

(* What is resumed at is what ResumePointOpen asks of the guide. *)
GoodPoint(q) ==
  /\ q \in PhasesOf(resume_module_id)
  /\ Open(q)
  /\ Waiting(q) \/ \A r \in NewPhases : Precedes(r, q) => new_status[r] = "done"
PointChosen ==
  /\ stage = "resume_phase" => resume_module_id \in NewModules
  /\ stage = "finish" \/ Resumes => GoodPoint(resume_phase_id)
  /\ Resumes => new_guide = resume_phase_id

MigrationIInv ==
  /\ MigrationTypeOK
  /\ NoAnswerYet
  /\ NothingOldIsActive
  /\ HalfMappedIsDiscarded
  /\ GuidesChecked
  /\ PointChosen

(* A phase that comes before another is in the same module. *)
LEMMA PrecedesInModule ==
  ASSUME NEW q, NEW r \in NewPhases, Precedes(q, r)
  PROVE  q \in NewPhases /\ NewModuleOf[q] = NewModuleOf[r]
<1>1. NewModuleOf[r] \in NewModules
  BY MigrationAssumption
<1>2. PICK i, j \in DOMAIN PhaseOrder[NewModuleOf[r]] : PhaseOrder[NewModuleOf[r]][i] = q
  BY DEF Precedes
<1>3. PhaseOrder[NewModuleOf[r]] \in Seq(NewPhases)
  BY <1>1, MigrationAssumption
<1> QED
  BY <1>1, <1>2, <1>3, MigrationAssumption

(* The order of the phases of a module is transitive. *)
LEMMA Transitive ==
  ASSUME NEW q, NEW r \in NewPhases, NEW t \in NewPhases, Precedes(q, r), Precedes(r, t)
  PROVE  Precedes(q, t)
<1> DEFINE order == PhaseOrder[NewModuleOf[t]]
<1>1. NewModuleOf[r] = NewModuleOf[t] /\ NewModuleOf[t] \in NewModules
  BY PrecedesInModule, MigrationAssumption
<1>2. PICK i \in DOMAIN order, j \in DOMAIN order : i < j /\ order[i] = q /\ order[j] = r
  BY <1>1 DEF Precedes
<1>3. PICK k \in DOMAIN order, l \in DOMAIN order : k < l /\ order[k] = r /\ order[l] = t
  BY DEF Precedes
<1>4. j = k
  BY <1>1, <1>2, <1>3, MigrationAssumption
<1>5. order \in Seq(NewPhases)
  BY <1>1, MigrationAssumption
<1>6. i \in Nat /\ k \in Nat /\ l \in Nat
  BY <1>5
<1>7. i < l
  BY <1>2, <1>3, <1>4, <1>6
<1> QED
  BY <1>2, <1>3, <1>7 DEF Precedes

(* An item is one of the mapping's shape, and one that keeps a phase names a new one. *)
LEMMA ItemShape ==
  ASSUME phase_mapping \in Seq(ItemsOver(OldPhases, NewPhases, NewModules)), NEW n \in DOMAIN phase_mapping
  PROVE  /\ phase_mapping[n] \in ItemsOver(OldPhases, NewPhases, NewModules)
         /\ phase_mapping[n].old \in OldPhases \cup {None}
         /\ phase_mapping[n].new \in NewPhases \cup {None}
         /\ phase_mapping[n].type \in Types
         /\ phase_mapping[n].type = "created" <=> phase_mapping[n].old = None
         /\ phase_mapping[n].type = "removed" <=> phase_mapping[n].new = None
<1>1. phase_mapping[n] \in ItemsOver(OldPhases, NewPhases, NewModules)
  OBVIOUS
<1> QED
  BY <1>1 DEF ItemsOver

LEMMA KeptIsNew ==
  ASSUME phase_mapping \in Seq(ItemsOver(OldPhases, NewPhases, NewModules)),
         NEW n \in DOMAIN phase_mapping, phase_mapping[n].type \in Identity
  PROVE  phase_mapping[n].new \in NewPhases
  BY ItemShape DEF Identity

(* Of the open phases of a module before some phase, the one that leads has none before it. *)
LEMMA LeaderIsFirstOpen ==
  ASSUME phase_mapping \in Seq(ItemsOver(OldPhases, NewPhases, NewModules)),
         NEW m \in NewModules, NEW q \in NewPhases,
         \/ Leads(q, Predecessors(m))
         \/ Leads(q, {p \in PhasesOf(m) : Open(p)})
  PROVE  /\ q \in PhasesOf(m)
         /\ Open(q)
         /\ \A r \in NewPhases : Precedes(r, q) => new_status[r] = "done"
<1>1. CASE Leads(q, {p \in PhasesOf(m) : Open(p)})
  BY <1>1, PrecedesInModule DEF Leads, PhasesOf, Open
<1>2. CASE Leads(q, Predecessors(m))
  <2>1. PICK t \in CurrentTargets(m) : Open(q) /\ Precedes(q, t)
    BY <1>2 DEF Leads, Predecessors
  <2>2. t \in NewPhases
    BY KeptIsNew DEF CurrentTargets
  <2>3. q \in PhasesOf(m)
    BY <1>2 DEF Leads, Predecessors
  <2>4. ASSUME NEW r \in NewPhases, Precedes(r, q), new_status[r] # "done"
        PROVE  FALSE
    <3>1. Precedes(r, t)
      BY <2>1, <2>2, <2>4, Transitive
    <3>2. r \in PhasesOf(m)
      BY <2>3, <2>4, PrecedesInModule DEF PhasesOf
    <3>3. r \in Predecessors(m)
      BY <1>2, <2>1, <2>4, <3>1, <3>2 DEF Predecessors, Leads, Open
    <3> QED
      BY <1>2, <2>4, <3>3 DEF Leads
  <2> QED
    BY <2>1, <2>3, <2>4
<1> QED
  BY <1>1, <1>2

(* The guide check lets no item pass that gives an active guide's phase up. *)
LEMMA CheckedGuides ==
  ASSUME MigrationTypeOK, GuidesChecked
  PROVE  NoGuideGuessed
<1> SUFFICES ASSUME Resumes, guide_items, NEW n \in DOMAIN phase_mapping,
                    phase_mapping[n].old \in active_guides
             PROVE  phase_mapping[n].type \in Identity
  BY DEF NoGuideGuessed
<1>1. phase_mapping[n].type \notin {"split", "merged", "removed"}
  BY DEF GuidesChecked, UnmappableGuide
<1>2. phase_mapping[n].old # None
  BY MigrationAssumption DEF MigrationTypeOK
<1> QED
  BY <1>1, <1>2, ItemShape DEF MigrationTypeOK, Types, Identity

LEMMA MigrationInitIInv == MigrationInit => MigrationIInv
<1> SUFFICES ASSUME MigrationInit PROVE MigrationIInv
  OBVIOUS
<1> USE MigrationAssumption DEF MigrationInit
<1>1. PICK r \in Requests :
        /\ phase_mapping = r.phases
        /\ module_mapping = r.modules
        /\ dependencies = r.dependencies
        /\ attempt_status = r.attempts
        /\ old_module_status = r.module_status
        /\ frozen_by = [a \in Attempts |-> IF a \in r.frozen THEN "earlier" ELSE None]
  OBVIOUS
<1>2. PICK standing \in [OldPhases -> Standings] :
        /\ old_status = [p \in OldPhases |-> standing[p].status]
        /\ old_reasons = [p \in OldPhases |-> standing[p].reasons]
  OBVIOUS
<1>3. active_guides \subseteq OldPhases /\ guide_items \in BOOLEAN
  OBVIOUS
<1>4. /\ phase_mapping \in Seq(ItemsOver(OldPhases, NewPhases, NewModules))
      /\ module_mapping \in Seq(ItemsOver(OldModules, NewModules, {}))
      /\ dependencies \subseteq OldModules \cup NewModules
      /\ attempt_status \in [Attempts -> ActiveStatuses \cup {"finished"}]
      /\ old_module_status \in [OldModules -> ModuleStatuses]
  BY <1>1
<1>5. frozen_by \in [Attempts -> {None, "earlier", "this"}]
  BY <1>1
<1>6. /\ old_status \in [OldPhases -> PhaseStatuses]
      /\ old_reasons \in [OldPhases -> SUBSET FailureReasons]
  BY <1>2
<1>7. position \in 1..(Len(phase_mapping) + 1)
  BY <1>4
<1>8. MigrationTypeOK
  BY <1>3, <1>4, <1>5, <1>6, <1>7 DEF MigrationTypeOK, Stages, PhaseStatuses, ModuleStatuses
<1>9. outcome # "auto_resumed" /\ reason \notin MappingStops
  BY DEF Outcomes
<1> QED
  BY <1>8, <1>9 DEF MigrationIInv, NoAnswerYet, NothingOldIsActive, HalfMappedIsDiscarded,
                    GuidesChecked, PointChosen, Resumes

(* What a round of the two loops over the mapping does: go on with the new phases as they are or  *)
(* with one of them changed, hand back the new phases as they were built, or raise.               *)
LoopRound ==
  \/ KeepNew
  \/ Raise
  \/ \E q \in NewPhases : \E status \in PhaseStatuses, reasons \in SUBSET FailureReasons :
       Give(q, status, reasons)
  \/ \E why \in MappingStops : StopMapping(Pause(why)) \/ StopMapping(EscalateFor(why))

LEMMA MapOldPhaseRound == MigrationTypeOK /\ MapOldPhase => LoopRound
<1> SUFFICES ASSUME MigrationTypeOK, MapOldPhase PROVE LoopRound
  OBVIOUS
<1> DEFINE p == Item.old
           q == Item.new
<1>0. position \in DOMAIN phase_mapping
  BY DEF MapOldPhase, MigrationTypeOK
<1>1. /\ p \in OldPhases \cup {None}
      /\ Item.type \in Identity => q \in NewPhases
  BY <1>0, ItemShape, KeptIsNew DEF Item, MigrationTypeOK
<1>2. ASSUME p \in OldPhases
      PROVE  old_status[p] \in PhaseStatuses /\ old_reasons[p] \in SUBSET FailureReasons
  BY <1>2 DEF MigrationTypeOK
<1>3. CASE KeepNew
  BY <1>3 DEF LoopRound
<1>4. CASE p # None /\ Item.type \in Identity /\ InheritIdentity(p, q)
  <2>1. p \in OldPhases /\ q \in NewPhases
    BY <1>1, <1>4
  <2>2. new_reasons[q] \in SUBSET FailureReasons
    BY <2>1 DEF MigrationTypeOK
  <2>3. CASE RouteFailed(p, q)
    BY <2>1, <2>3 DEF RouteFailed, LoopRound, PhaseStatuses, MappingStops
  <2>4. CASE Begun(old_status[p]) /\ Give(q, old_status[p], new_reasons[q])
    BY <1>2, <2>1, <2>2, <2>4 DEF LoopRound
  <2>5. CASE Give(q, "blocked", old_reasons[p])
    BY <1>2, <2>1, <2>5 DEF LoopRound, PhaseStatuses
  <2> QED
    BY <1>3, <1>4, <2>3, <2>4, <2>5 DEF InheritIdentity
<1>5. CASE p # None /\ InheritSplit(p)
  <2>1. CASE \E n \in Candidates(phase_mapping, ItemsOf(phase_mapping, p)) :
               /\ phase_mapping[n].new # None
               /\ Give(phase_mapping[n].new, old_status[p], new_reasons[phase_mapping[n].new])
    <3>1. PICK n \in DOMAIN phase_mapping :
            /\ phase_mapping[n].new # None
            /\ Give(phase_mapping[n].new, old_status[p], new_reasons[phase_mapping[n].new])
      BY <2>1 DEF Candidates, HasName, ItemsOf
    <3>2. phase_mapping[n].new \in NewPhases
      BY <3>1, ItemShape DEF MigrationTypeOK
    <3>3. new_reasons[phase_mapping[n].new] \in SUBSET FailureReasons
      BY <3>2 DEF MigrationTypeOK
    <3> QED
      BY <1>1, <1>2, <1>5, <3>1, <3>2, <3>3 DEF LoopRound
  <2>2. CASE Raise
    BY <2>2 DEF LoopRound
  <2> QED
    BY <1>3, <1>5, <2>1, <2>2 DEF InheritSplit
<1> QED
  BY <1>3, <1>4, <1>5 DEF MapOldPhase

LEMMA MergeNewPhaseRound == MigrationTypeOK /\ MergeNewPhase => LoopRound
<1> SUFFICES ASSUME MigrationTypeOK, MergeNewPhase PROVE LoopRound
  OBVIOUS
<1> DEFINE q == Item.new
<1>1. position \in DOMAIN phase_mapping
  BY DEF MergeNewPhase, MigrationTypeOK
<1>2. q \in NewPhases \cup {None}
  BY <1>1, ItemShape DEF Item, MigrationTypeOK
<1>3. CASE KeepNew
  BY <1>3 DEF LoopRound
<1>4. CASE q # None /\ Merge(q)
  <2>1. new_reasons[q] \in SUBSET FailureReasons /\ q \in NewPhases
    BY <1>2, <1>4 DEF MigrationTypeOK
  <2>2. CASE MergeStatus(q)
    BY <1>3, <2>1, <2>2 DEF MergeStatus, LoopRound, PhaseStatuses
  <2> QED
    BY <1>4, <2>2 DEF Merge, LoopRound, MappingStops
<1> QED
  BY <1>3, <1>4 DEF MergeNewPhase

(* A round preserves the invariant. *)
LEMMA RoundPreservesIInv ==
  ASSUME MigrationIInv, stage \in {"phase_mapping", "merge"}, position <= Len(phase_mapping),
         LoopRound, UNCHANGED <<arguments, frozen, migrated, resumed, created>>
  PROVE  MigrationIInv'
<1> USE DEF MigrationIInv, arguments, frozen, migrated, resumed, created
<1>1. /\ new_status' \in [NewPhases -> PhaseStatuses]
      /\ new_reasons' \in [NewPhases -> SUBSET FailureReasons]
  <2>1. CASE KeepNew \/ Raise
    BY <2>1 DEF KeepNew, Raise, phases, MigrationTypeOK
  <2>2. ASSUME NEW q \in NewPhases, NEW status \in PhaseStatuses,
               NEW reasons \in SUBSET FailureReasons, Give(q, status, reasons)
        PROVE  /\ new_status' \in [NewPhases -> PhaseStatuses]
               /\ new_reasons' \in [NewPhases -> SUBSET FailureReasons]
    BY <2>2 DEF Give, MigrationTypeOK
  <2>3. ASSUME NEW why, StopMapping(Pause(why)) \/ StopMapping(EscalateFor(why))
        PROVE  /\ new_status' \in [NewPhases -> PhaseStatuses]
               /\ new_reasons' \in [NewPhases -> SUBSET FailureReasons]
    BY <2>3 DEF StopMapping, PhaseStatuses
  <2> QED
    BY <2>1, <2>2, <2>3 DEF LoopRound
<1>2. /\ position' \in {position, position + 1}
      /\ \/ UNCHANGED <<stage, outcome, reason>>
         \/ stage' = "raised" /\ UNCHANGED <<outcome, reason>>
         \/ /\ stage' = "returned"
            /\ outcome' \in {"pause_migration", "escalate_migration"}
            /\ reason' \in MappingStops
            /\ \A q \in NewPhases : new_status'[q] = "not_started" /\ new_reasons'[q] = {}
  BY DEF LoopRound, KeepNew, Raise, Give, Advance, StopMapping, Pause, EscalateFor, Return, answer
<1>3. Len(phase_mapping) \in Nat /\ position \in Nat
  BY DEF MigrationTypeOK
<1>4. position' \in 1..(Len(phase_mapping') + 1)
  BY <1>2, <1>3 DEF MigrationTypeOK
<1>5. MigrationTypeOK'
  BY <1>1, <1>2, <1>4 DEF MigrationTypeOK, Stages, Outcomes
<1>6. outcome # "auto_resumed" /\ reason \notin MappingStops /\ reason # "incomplete_mapping"
  BY MigrationAssumption DEF NoAnswerYet, Outcomes, OtherReasons
<1>7. NoAnswerYet' /\ NothingOldIsActive' /\ HalfMappedIsDiscarded'
  BY <1>2, <1>6 DEF NoAnswerYet, NothingOldIsActive, HalfMappedIsDiscarded, MappingStops
<1>8. GuidesChecked' /\ PointChosen'
  BY <1>2, <1>6 DEF GuidesChecked, PointChosen, Resumes
<1> QED
  BY <1>5, <1>7, <1>8

(* What the checks of the call leave alone; the stage they go on to is one that knows it. *)
LEMMA CheckPreservesIInv ==
  ASSUME MigrationIInv, NEW s \in Stages, NEW next \in Stages, NEW stops \in BOOLEAN,
         NEW kind \in Outcomes \ {"auto_resumed"}, NEW why \in OtherReasons,
         Check(s, stops, Return(kind, why), next),
         s # "returned", next \notin {"returned", "resume_phase", "finish"},
         s = "mapping_check" => next = "freeze",
         s # "mapping_check" => s # "freeze" /\ why # "incomplete_mapping",
         s = "mapping_check" => why = "incomplete_mapping",
         next = "resume_module" => (~stops => ~UnmappableGuide)
  PROVE  MigrationIInv'
<1> USE DEF MigrationIInv, arguments, frozen, phases, migrated, resumed, created
<1>1. /\ stage = s
      /\ UNCHANGED <<arguments, position, frozen, phases, migrated, resumed, created>>
      /\ \/ stage' = "returned" /\ outcome' = kind /\ reason' = why
         \/ stage' = next /\ outcome' = outcome /\ reason' = reason /\ ~stops
  BY DEF Check, Return, Goto, At, answer
<1>2. outcome = None /\ reason = None /\ None \notin Outcomes \cup OtherReasons \cup MappingStops
  BY <1>1, MigrationAssumption DEF NoAnswerYet
<1>3. outcome' # "auto_resumed" /\ reason' \notin MappingStops
  BY <1>1, <1>2 DEF Outcomes, OtherReasons, MappingStops
<1>4. MigrationTypeOK'
  BY <1>1 DEF MigrationTypeOK, Stages
<1>5. NoAnswerYet' /\ NothingOldIsActive' /\ HalfMappedIsDiscarded'
  BY <1>1, <1>2, <1>3 DEF NoAnswerYet, NothingOldIsActive, HalfMappedIsDiscarded, OtherReasons
<1>6. GuidesChecked' /\ PointChosen'
  BY <1>1, <1>3 DEF GuidesChecked, PointChosen, Resumes, UnmappableGuide
<1> QED
  BY <1>4, <1>5, <1>6

(* The two stages that choose where to resume. *)
LEMMA ResolveModulePreservesIInv == MigrationIInv /\ ResolveResumeModule => MigrationIInv'
<1> SUFFICES ASSUME MigrationIInv, ResolveResumeModule PROVE MigrationIInv'
  OBVIOUS
<1> USE DEF MigrationIInv, arguments, frozen, phases, migrated, created
<1>1. /\ stage = "resume_module"
      /\ UNCHANGED <<arguments, position, frozen, phases, migrated, resume_phase_id, created>>
      /\ \/ /\ stage' = "returned"
            /\ outcome' = "escalate_migration"
            /\ reason' = "no_legal_continuation_point"
            /\ UNCHANGED resume_module_id
         \/ /\ stage' = "resume_phase"
            /\ UNCHANGED <<outcome, reason>>
            /\ resume_module_id' \in NewModules
  BY MigrationAssumption DEF ResolveResumeModule, At, Goto, EscalateFor, Return, answer
<1>2. outcome = None /\ reason = None /\ None \notin Outcomes \cup OtherReasons \cup MappingStops
  BY <1>1, MigrationAssumption DEF NoAnswerYet
<1>3. outcome' # "auto_resumed" /\ reason' \notin MappingStops /\ reason' # "incomplete_mapping"
  BY <1>1, <1>2 DEF Outcomes, OtherReasons, MappingStops
<1>4. MigrationTypeOK'
  BY <1>1 DEF MigrationTypeOK, Stages, Outcomes, OtherReasons
<1>5. NoAnswerYet' /\ NothingOldIsActive' /\ HalfMappedIsDiscarded'
  BY <1>1, <1>2, <1>3 DEF NoAnswerYet, NothingOldIsActive, HalfMappedIsDiscarded, OtherReasons
<1>6. GuidesChecked' /\ PointChosen'
  BY <1>1, <1>3 DEF GuidesChecked, PointChosen, Resumes, UnmappableGuide
<1> QED
  BY <1>4, <1>5, <1>6

LEMMA ResolvePhasePreservesIInv == MigrationIInv /\ ResolveResumePhase => MigrationIInv'
<1> SUFFICES ASSUME MigrationIInv, ResolveResumePhase PROVE MigrationIInv'
  OBVIOUS
<1> USE DEF MigrationIInv, arguments, frozen, phases, migrated, created
<1> DEFINE m == resume_module_id
<1>1. stage = "resume_phase" /\ m \in NewModules
  BY DEF ResolveResumePhase, At, PointChosen
<1>2. ASSUME NEW q \in NewPhases, Leads(q, Predecessors(m)) \/ Leads(q, PhaseGroup(m))
      PROVE  GoodPoint(q)
  <2>1. CASE Leads(q, Predecessors(m)) \/ Leads(q, {p \in PhasesOf(m) : Open(p)})
    BY <1>1, <2>1, LeaderIsFirstOpen DEF GoodPoint, MigrationTypeOK
  <2>2. CASE q \in PhasesOf(m) /\ Waiting(q)
    BY <2>2 DEF GoodPoint, Waiting, Open
  <2> QED
    BY <1>2, <2>1, <2>2 DEF PhaseGroup, Leads
<1>3. /\ UNCHANGED <<arguments, position, frozen, phases, migrated, resume_module_id, created>>
      /\ \/ /\ stage' = "returned"
            /\ outcome' = "pause_migration"
            /\ reason' = "ambiguous_resume_phase"
            /\ UNCHANGED resume_phase_id
         \/ /\ stage' = "finish"
            /\ UNCHANGED <<outcome, reason>>
            /\ resume_phase_id' \in NewPhases
            /\ GoodPoint(resume_phase_id')
  BY <1>2 DEF ResolveResumePhase, ResumeAt, Goto, Pause, Return, answer
<1>4. outcome = None /\ reason = None /\ None \notin Outcomes \cup OtherReasons \cup MappingStops
  BY <1>1, MigrationAssumption DEF NoAnswerYet
<1>5. outcome' # "auto_resumed" /\ reason' \notin MappingStops /\ reason' # "incomplete_mapping"
  BY <1>3, <1>4 DEF Outcomes, OtherReasons, MappingStops
<1>6. MigrationTypeOK'
  BY <1>3 DEF MigrationTypeOK, Stages, Outcomes, OtherReasons
<1>7. NoAnswerYet' /\ NothingOldIsActive' /\ HalfMappedIsDiscarded'
  BY <1>1, <1>3, <1>4, <1>5
     DEF NoAnswerYet, NothingOldIsActive, HalfMappedIsDiscarded, OtherReasons
<1>8. GuidesChecked'
  BY <1>1, <1>3, <1>5 DEF GuidesChecked, Resumes, UnmappableGuide
<1>9. PointChosen'
  BY <1>1, <1>3, <1>5 DEF PointChosen, Resumes, GoodPoint, PhasesOf, Open, Waiting, Precedes
<1> QED
  BY <1>6, <1>7, <1>8, <1>9

(* The invariant is inductive: one step per stage. *)
LEMMA MigrationNextIInv == MigrationIInv /\ [MigrationNext]_migration_vars => MigrationIInv'
<1> SUFFICES ASSUME MigrationIInv, [MigrationNext]_migration_vars PROVE MigrationIInv'
  OBVIOUS
<1> USE DEF arguments, frozen, phases, migrated, resumed, created
<1>1. CASE CheckMapping
  BY <1>1, CheckPreservesIInv
     DEF CheckMapping, CompleteMapping, Pause, Stages, Outcomes, OtherReasons
<1>2. CASE Freeze
  <2>1. /\ stage = "freeze" /\ stage' = "attempt_conflict"
        /\ UNCHANGED <<outcome, reason>>
        /\ live_guides' = {}
        /\ \A x \in Attempts : attempt_status[x] \in ActiveStatuses => frozen_by'[x] = "this"
        /\ UNCHANGED <<arguments, position, phases, migrated, resumed, created>>
    BY <1>2 DEF Freeze, At, Goto, answer
  <2>2. outcome = None /\ reason = None /\ None \notin Outcomes \cup OtherReasons \cup MappingStops
    BY <2>1, MigrationAssumption DEF MigrationIInv, NoAnswerYet
  <2>3. frozen_by' \in [Attempts -> {None, "earlier", "this"}]
    BY <1>2 DEF Freeze, MigrationIInv, MigrationTypeOK
  <2>4. MigrationTypeOK'
    BY <2>1, <2>3 DEF MigrationIInv, MigrationTypeOK, Stages
  <2> QED
    BY <2>1, <2>2, <2>4 DEF MigrationIInv, NoAnswerYet, NothingOldIsActive,
       HalfMappedIsDiscarded, GuidesChecked, PointChosen, Resumes, Outcomes
<1>3. CASE CheckAttempts
  BY <1>3, CheckPreservesIInv
     DEF CheckAttempts, ActiveAttemptConflict, EscalateFor, Stages, Outcomes, OtherReasons
<1>4. CASE CheckStructure
  BY <1>4, CheckPreservesIInv DEF CheckStructure, EscalateFor, Stages, Outcomes, OtherReasons
<1>5. CASE CheckSplits
  BY <1>5, CheckPreservesIInv
     DEF CheckSplits, SplitAmbiguity, Pause, Stages, Outcomes, OtherReasons
<1>6. CASE MapOldPhase
  BY <1>6, MapOldPhaseRound, RoundPreservesIInv DEF MapOldPhase, At, MigrationIInv
<1>7. CASE EndOldPhases
  <2>1. position' \in 1..(Len(phase_mapping') + 1)
    BY <1>7 DEF EndOldPhases, MigrationIInv, MigrationTypeOK
  <2> QED
    BY <1>7, <2>1 DEF EndOldPhases, At, Goto, answer, MigrationIInv, MigrationTypeOK, Stages,
       NoAnswerYet, NothingOldIsActive, HalfMappedIsDiscarded, GuidesChecked, PointChosen,
       Resumes, UnmappableGuide, GoodPoint, PhasesOf, Open, Waiting, Precedes
<1>8. CASE MergeNewPhase
  BY <1>8, MergeNewPhaseRound, RoundPreservesIInv DEF MergeNewPhase, At, MigrationIInv
<1>9. CASE EndNewPhases
  BY <1>9 DEF EndNewPhases, At, Goto, answer, MigrationIInv, MigrationTypeOK, Stages,
     NoAnswerYet, NothingOldIsActive, HalfMappedIsDiscarded, GuidesChecked, PointChosen,
     Resumes, UnmappableGuide, GoodPoint, PhasesOf, Open, Waiting, Precedes
<1>10. CASE Recompute
  <2>1. module_status' \in [NewModules -> ModuleStatuses]
    BY <1>10 DEF Recompute, RecomputedStatus, ModuleStatuses
  <2>2. obsolete' \subseteq OldModules \cup OldPhases
    <3>1. \A n \in DOMAIN phase_mapping : phase_mapping[n].type = "removed"
                                          => phase_mapping[n].old \in OldPhases
      BY ItemShape DEF MigrationIInv, MigrationTypeOK
    <3>2. \A n \in DOMAIN module_mapping : module_mapping[n].type = "removed"
                                           => module_mapping[n].old \in OldModules
      BY DEF MigrationIInv, MigrationTypeOK, ItemsOver
    <3> QED
      BY <1>10, <3>1, <3>2 DEF Recompute, Removed
  <2> QED
    BY <1>10, <2>1, <2>2 DEF Recompute, At, Goto, answer, MigrationIInv, MigrationTypeOK, Stages,
       NoAnswerYet, NothingOldIsActive, HalfMappedIsDiscarded, GuidesChecked, PointChosen,
       Resumes, UnmappableGuide, GoodPoint, PhasesOf, Open, Waiting, Precedes
<1>11. CASE CheckGuides
  BY <1>11, CheckPreservesIInv
     DEF CheckGuides, UnmappableGuide, Pause, Stages, Outcomes, OtherReasons, MigrationIInv,
         MigrationTypeOK
<1>12. CASE ResolveResumeModule
  BY <1>12, ResolveModulePreservesIInv
<1>13. CASE ResolveResumePhase
  BY <1>13, ResolvePhasePreservesIInv
<1>14. CASE Finish
  <2>1. /\ stage = "finish" /\ stage' = "returned"
        /\ outcome' = "auto_resumed" /\ reason' = "auto_resumed"
        /\ new_guide' = resume_phase_id /\ relinked_to' = resume_phase_id
        /\ UNCHANGED <<arguments, position, live_guides, phases, migrated, resumed>>
    BY <1>14 DEF Finish, At, Return
  <2>2. frozen_by' \in [Attempts -> {None, "earlier", "this"}]
    BY <1>14 DEF Finish, MigrationIInv, MigrationTypeOK
  <2>3. MigrationTypeOK'
    BY <2>1, <2>2 DEF MigrationIInv, MigrationTypeOK, Stages, Outcomes, OtherReasons
  <2>4. \A x \in Attempts : frozen_by[x] = "this" => frozen_by'[x] = "this"
    BY <1>14 DEF Finish
  <2>5. reason = None /\ None \notin OtherReasons
    BY <2>1, MigrationAssumption DEF MigrationIInv, NoAnswerYet
  <2>6. NoAnswerYet' /\ NothingOldIsActive' /\ HalfMappedIsDiscarded'
    BY <2>1, <2>4, <2>5 DEF MigrationIInv, NoAnswerYet, NothingOldIsActive, HalfMappedIsDiscarded,
                            MappingStops, OtherReasons
  <2>7. GuidesChecked' /\ PointChosen'
    BY <2>1 DEF MigrationIInv, GuidesChecked, PointChosen, Resumes, UnmappableGuide, GoodPoint,
                PhasesOf, Open, Waiting, Precedes
  <2> QED
    BY <2>3, <2>6, <2>7 DEF MigrationIInv
<1>15. CASE UNCHANGED migration_vars
  BY <1>15 DEF migration_vars, answer, MigrationIInv, MigrationTypeOK,
     NoAnswerYet, NothingOldIsActive, HalfMappedIsDiscarded, GuidesChecked,
     PointChosen, Resumes, UnmappableGuide, GoodPoint, PhasesOf, Open, Waiting, Precedes
<1> QED
  BY <1>1, <1>2, <1>3, <1>4, <1>5, <1>6, <1>7, <1>8, <1>9, <1>10, <1>11, <1>12, <1>13, <1>14,
     <1>15 DEF MigrationNext

(* The inductive invariant holds throughout the call. *)
THEOREM MigrationInductive == MigrationSpec => []MigrationIInv
<1> QED
  BY MigrationInitIInv, MigrationNextIInv, PTL DEF MigrationSpec

(* What the call builds is of the types its models declare. *)
THEOREM MigrationTypeCorrect == MigrationSpec => []MigrationTypeOK
<1>1. MigrationIInv => MigrationTypeOK
  BY DEF MigrationIInv
<1> QED
  BY <1>1, MigrationInductive, PTL

(* For every overview and mapping, a migration that resumes does so at an open phase of the       *)
(* chosen module, and either that phase waits or all before it in the module are done.            *)
THEOREM ResumesAtOpenPoint == MigrationSpec => []ResumePointOpen
<1>1. MigrationIInv => ResumePointOpen
  BY DEF MigrationIInv, PointChosen, GoodPoint, ResumePointOpen
<1> QED
  BY <1>1, MigrationInductive, PTL

(* No mapping is interpreted while an old guide or an unfrozen attempt is active. *)
THEOREM FrozenBeforeMapping == MigrationSpec => []NothingOldIsActive
<1>1. MigrationIInv => NothingOldIsActive
  BY DEF MigrationIInv
<1> QED
  BY <1>1, MigrationInductive, PTL

(* A mapping that stops half-way hands back the new phases as they were built. *)
THEOREM NoHalfMappedPhases == MigrationSpec => []HalfMappedIsDiscarded
<1>1. MigrationIInv => HalfMappedIsDiscarded
  BY DEF MigrationIInv
<1> QED
  BY <1>1, MigrationInductive, PTL

(* A guide with items is only left behind for a phase that keeps its identity. *)
THEOREM GuidesAreNotGuessed == MigrationSpec => []NoGuideGuessed
<1>1. MigrationIInv => NoGuideGuessed
  BY CheckedGuides DEF MigrationIInv
<1> QED
  BY <1>1, MigrationInductive, PTL

-------------------------------------------------------------------------------
(* What the new phases inherit *)

(* q stands for failed phases only. *)
OnlyFailed(q) == Sources(q) # {} /\ \A p \in Sources(q) : old_status[p] = "failed"
FailedInv == \A q \in NewPhases : OnlyFailed(q) => new_status[q] = "not_started" /\ new_reasons[q] = {}

(* q may be done because of one source, or because of all. *)
DoneByOne(q) == \E p \in Sources(q) : /\ old_status[p] = "done"
                                      /\ <<p, q>> \in Preserving \/ IsSplit(phase_mapping, p)
DoneByAll(q) == MergedInto(q) /\ \A p \in Sources(q) : old_status[p] = "done"
MergeFrom(k, q) == \E n \in DOMAIN phase_mapping : /\ n >= k
                                                   /\ phase_mapping[n].new = q
                                                   /\ FirstFor(n)
                                                   /\ phase_mapping[n].type = "merged"

(* Until its merge has come, a merged phase may be done because of one source. *)
DoneInv ==
  /\ stage \in {"mapping_check", "freeze", "attempt_conflict", "structure", "split_ambiguity"}
     => \A q \in NewPhases : new_status[q] # "done"
  /\ stage = "phase_mapping" => \A q \in NewPhases : new_status[q] = "done" => DoneByOne(q)
  /\ stage = "merge" => \A q \in NewPhases : new_status[q] = "done" =>
       \/ DoneByAll(q)
       \/ DoneByOne(q) /\ (~MergedInto(q) \/ MergeFrom(position, q))
  /\ DoneIsInherited

(* A round over the old phases gives a new one only what an old phase it stands for allows. *)
LEMMA GivenByOldPhase ==
  ASSUME MigrationTypeOK, MapOldPhase
  PROVE  \/ KeepNew \/ Raise
         \/ \E q \in NewPhases : \E status \in PhaseStatuses, reasons \in SUBSET FailureReasons :
              /\ Give(q, status, reasons)
              /\ OnlyFailed(q) => status = "not_started" /\ reasons = {}
              /\ status = "done" => DoneByOne(q)
         \/ \E why \in MappingStops : StopMapping(Pause(why)) \/ StopMapping(EscalateFor(why))
<1> DEFINE p == Item.old
           q == Item.new
<1>0. position \in DOMAIN phase_mapping /\ Item = phase_mapping[position]
  BY DEF MapOldPhase, MigrationTypeOK, Item
<1>1. /\ p \in OldPhases \cup {None}
      /\ Item.type \in Identity => q \in NewPhases
  BY <1>0, ItemShape, KeptIsNew DEF MigrationTypeOK
<1>2. ASSUME p \in OldPhases
      PROVE  /\ old_status[p] \in PhaseStatuses
             /\ old_reasons[p] \in SUBSET FailureReasons
             /\ p \in Sources(q)
  <2>1. p # None
    BY <1>2, MigrationAssumption
  <2> QED
    BY <1>0, <1>2, <2>1 DEF MigrationTypeOK, Sources
<1>3. CASE KeepNew
  BY <1>3
<1>4. CASE p # None /\ Item.type \in Identity /\ InheritIdentity(p, q)
  <2>1. p \in OldPhases /\ q \in NewPhases
    BY <1>1, <1>4
  <2>2. new_reasons[q] \in SUBSET FailureReasons
    BY <2>1 DEF MigrationTypeOK
  <2>3. CASE RouteFailed(p, q)
    <3>1. CASE Give(q, "not_started", {})
      BY <2>1, <3>1 DEF PhaseStatuses
    <3> QED
      BY <2>3, <3>1 DEF RouteFailed, MappingStops
  <2>4. CASE /\ <<p, q>> \in Preserving
             /\ Begun(old_status[p]) /\ Give(q, old_status[p], new_reasons[q])
    <3>1. ~OnlyFailed(q)
      BY <1>2, <2>1, <2>4 DEF OnlyFailed, Begun
    <3>2. old_status[p] = "done" => DoneByOne(q)
      BY <1>2, <2>1, <2>4 DEF DoneByOne
    <3> QED
      BY <1>2, <2>1, <2>2, <2>4, <3>1, <3>2
  <2>5. CASE old_status[p] = "blocked" /\ Give(q, "blocked", old_reasons[p])
    <3>1. ~OnlyFailed(q)
      BY <1>2, <2>1, <2>5 DEF OnlyFailed
    <3> QED
      BY <1>2, <2>1, <2>5, <3>1 DEF PhaseStatuses
  <2> QED
    BY <1>3, <1>4, <2>3, <2>4, <2>5 DEF InheritIdentity
<1>5. CASE p # None /\ FirstOf(phase_mapping, position) /\ Item.type = "split" /\ InheritSplit(p)
  <2>1. CASE /\ Begun(old_status[p])
             /\ \E n \in Candidates(phase_mapping, ItemsOf(phase_mapping, p)) :
                  /\ phase_mapping[n].new # None
                  /\ Give(phase_mapping[n].new, old_status[p], new_reasons[phase_mapping[n].new])
    <3>1. PICK n \in DOMAIN phase_mapping :
            /\ phase_mapping[n].new # None
            /\ phase_mapping[n].old = p
            /\ Give(phase_mapping[n].new, old_status[p], new_reasons[phase_mapping[n].new])
      BY <2>1 DEF Candidates, HasName, ItemsOf
    <3> DEFINE x == phase_mapping[n].new
    <3>2. x \in NewPhases
      BY <3>1, ItemShape DEF MigrationTypeOK
    <3>3. new_reasons[x] \in SUBSET FailureReasons
      BY <3>2 DEF MigrationTypeOK
    <3>4. p \in Sources(x)
      BY <1>5, <3>1 DEF Sources
    <3>5. IsSplit(phase_mapping, p)
      BY <1>0, <1>5 DEF IsSplit, ItemsOf
    <3>6. ~OnlyFailed(x) /\ (old_status[p] = "done" => DoneByOne(x))
      BY <2>1, <3>4, <3>5 DEF OnlyFailed, DoneByOne, Begun
    <3> HIDE DEF x
    <3>7. Give(x, old_status[p], new_reasons[x])
      BY <3>1 DEF x
    <3> QED
      BY <1>1, <1>2, <1>5, <3>2, <3>3, <3>6, <3>7
  <2> QED
    BY <1>3, <1>5, <2>1 DEF InheritSplit
<1> QED
  BY <1>3, <1>4, <1>5 DEF MapOldPhase

(* What the mapping and the old phases say of a new phase does not change. *)
LEMMA ArgumentsFixed ==
  ASSUME UNCHANGED arguments, NEW q
  PROVE  /\ Sources(q)' = Sources(q)
         /\ OnlyFailed(q)' <=> OnlyFailed(q)
         /\ DoneByOne(q)' <=> DoneByOne(q)
         /\ MergedInto(q)' <=> MergedInto(q)
         /\ DoneByAll(q)' <=> DoneByAll(q)
<1>1. phase_mapping' = phase_mapping /\ old_status' = old_status
  BY DEF arguments
<1>2. Sources(q)' = Sources(q)
  BY <1>1 DEF Sources
<1>3. OnlyFailed(q)' <=> OnlyFailed(q)
  BY <1>1, <1>2 DEF OnlyFailed
<1>4. MergedInto(q)' <=> MergedInto(q)
  BY <1>1 DEF MergedInto, FirstFor
<1>5. \A p : IsSplit(phase_mapping, p)' <=> IsSplit(phase_mapping, p)
  BY <1>1 DEF IsSplit, ItemsOf, FirstOf
<1>6. DoneByOne(q)' <=> DoneByOne(q)
  BY <1>1, <1>2, <1>5 DEF DoneByOne
<1> QED
  BY <1>1, <1>2, <1>3, <1>4, <1>6 DEF DoneByAll

(* A round over the new phases leaves what only failed phases became as it was built, and makes a *)
(* phase done only if all its sources are.                                                        *)
LEMMA GivenByMerge ==
  ASSUME MigrationTypeOK, MergeNewPhase
  PROVE  \/ /\ KeepNew
            /\ \A q \in NewPhases : MergeFrom(position, q) /\ q = Item.new /\ Item.type = "merged"
                                     /\ FirstFor(position) => ~DoneByOne(q) \/ DoneByAll(q)
         \/ \E status \in PhaseStatuses, reasons \in SUBSET FailureReasons :
              /\ Item.new \in NewPhases
              /\ Give(Item.new, status, reasons)
              /\ ~OnlyFailed(Item.new)
              /\ status = "done" => DoneByAll(Item.new)
         \/ \E why \in MappingStops : StopMapping(Pause(why)) \/ StopMapping(EscalateFor(why))
<1> DEFINE q == Item.new
<1>1. position \in DOMAIN phase_mapping /\ Item = phase_mapping[position]
  BY DEF MergeNewPhase, MigrationTypeOK, Item
<1>2. q \in NewPhases \cup {None}
  BY <1>1, ItemShape DEF MigrationTypeOK
<1>3. CASE ~(q # None /\ FirstFor(position) /\ Item.type = "merged") /\ KeepNew
  BY <1>3, MigrationAssumption
<1>4. CASE q # None /\ FirstFor(position) /\ Item.type = "merged" /\ MergeStatus(q)
  <2>1. q \in NewPhases /\ MergedInto(q)
    BY <1>1, <1>2, <1>4 DEF MergedInto
  <2>2. new_reasons[q] \in SUBSET FailureReasons
    BY <2>1 DEF MigrationTypeOK
  <2> DEFINE done == Sources(q) # {} /\ \A p \in Sources(q) : old_status[p] = "done"
             begun == \E p \in Sources(q) : old_status[p] \in {"done", "in_progress", "blocked"}
  <2>3. CASE done /\ Give(q, "done", new_reasons[q])
    <3>1. ~OnlyFailed(q) /\ DoneByAll(q)
      BY <2>1, <2>3 DEF OnlyFailed, DoneByAll
    <3> QED
      BY <2>1, <2>2, <2>3, <3>1 DEF PhaseStatuses
  <2>4. CASE begun /\ Give(q, "in_progress", new_reasons[q])
    <3>1. ~OnlyFailed(q)
      BY <2>4 DEF OnlyFailed
    <3> QED
      BY <2>1, <2>2, <2>4, <3>1 DEF PhaseStatuses
  <2>5. CASE ~done /\ ~begun /\ KeepNew
    <3>1. ~DoneByOne(q)
      BY <2>5 DEF DoneByOne
    <3> QED
      BY <2>5, <3>1
  <2> QED
    BY <1>4, <2>3, <2>4, <2>5 DEF MergeStatus
<1>5. CASE Merge(q) /\ ~MergeStatus(q)
  BY <1>5 DEF Merge, MappingStops
<1> QED
  BY <1>3, <1>4, <1>5 DEF MergeNewPhase, Merge

(* Only the two loops change the new phases. *)
LEMMA OtherStagesKeepPhases ==
  ASSUME [MigrationNext]_migration_vars, ~MapOldPhase, ~MergeNewPhase
  PROVE  UNCHANGED <<arguments, phases>>
  BY DEF MigrationNext, migration_vars, CheckMapping, Freeze, CheckAttempts, CheckStructure,
         CheckSplits, EndOldPhases, EndNewPhases, Recompute, CheckGuides, ResolveResumeModule,
         ResolveResumePhase, Finish, Check, arguments, phases

LEMMA FailedInvPreserved ==
  MigrationTypeOK /\ FailedInv /\ [MigrationNext]_migration_vars => FailedInv'
<1> SUFFICES ASSUME MigrationTypeOK, FailedInv, [MigrationNext]_migration_vars,
                    NEW q \in NewPhases, OnlyFailed(q)'
             PROVE  new_status'[q] = "not_started" /\ new_reasons'[q] = {}
  BY DEF FailedInv
<1>1. UNCHANGED arguments
  BY OtherStagesKeepPhases DEF MapOldPhase, MergeNewPhase
<1>2. OnlyFailed(q) /\ new_status[q] = "not_started" /\ new_reasons[q] = {}
  BY <1>1, ArgumentsFixed DEF FailedInv
<1>3. CASE KeepNew \/ Raise \/ UNCHANGED phases
  BY <1>2, <1>3 DEF KeepNew, Raise, phases
<1>4. CASE \E why \in MappingStops : StopMapping(Pause(why)) \/ StopMapping(EscalateFor(why))
  BY <1>4 DEF StopMapping
<1>5. ASSUME NEW x \in NewPhases, NEW status, NEW reasons, Give(x, status, reasons),
             OnlyFailed(x) => status = "not_started" /\ reasons = {}
      PROVE  new_status'[q] = "not_started" /\ new_reasons'[q] = {}
  BY <1>2, <1>5 DEF Give, MigrationTypeOK
<1>6. CASE MapOldPhase
  BY <1>3, <1>4, <1>5, <1>6, GivenByOldPhase
<1>7. CASE MergeNewPhase
  BY <1>3, <1>4, <1>5, <1>7, GivenByMerge
<1> QED
  BY <1>3, <1>6, <1>7, OtherStagesKeepPhases

(* What only a failed phase became starts over, for every mapping: no kind of item lets it pass as *)
(* begun.                                                                                          *)
THEOREM FailedPhasesStartOver == MigrationSpec => []FailedStartsOver
<1>1. MigrationInit => FailedInv
  BY DEF MigrationInit, FailedInv
<1>2. FailedInv => FailedStartsOver
  BY DEF FailedInv, FailedStartsOver, OnlyFailed
<1> QED
  BY <1>1, <1>2, FailedInvPreserved, MigrationTypeCorrect, PTL DEF MigrationSpec

(* What is to be shown of a step for DoneInv, in terms of the state before it. *)
LEMMA DoneInvFrom ==
  ASSUME UNCHANGED arguments,
         \A q \in NewPhases : new_status'[q] = "done" =>
           /\ stage' \notin {"mapping_check", "freeze", "attempt_conflict", "structure",
                           "split_ambiguity"}
           /\ stage' = "phase_mapping" => DoneByOne(q)
           /\ stage' = "merge" =>
                DoneByAll(q) \/ (DoneByOne(q) /\ (~MergedInto(q) \/ MergeFrom(position', q)))
           /\ stage' = "recompute" => DoneByAll(q) \/ (~MergedInto(q) /\ DoneByOne(q))
  PROVE  DoneInv'
<1>1. ASSUME NEW q \in NewPhases, new_status'[q] = "done"
      PROVE  /\ stage' \notin {"mapping_check", "freeze", "attempt_conflict", "structure",
                              "split_ambiguity"}
             /\ stage' = "phase_mapping" => DoneByOne(q)'
             /\ stage' = "merge" =>
                  \/ DoneByAll(q)'
                  \/ DoneByOne(q)' /\ (~MergedInto(q)' \/ MergeFrom(position, q)')
             /\ stage' = "recompute" => DoneByAll(q)' \/ (~MergedInto(q)' /\ DoneByOne(q)')
  <2>1. MergeFrom(position', q) => MergeFrom(position, q)'
    BY DEF MergeFrom, FirstFor, arguments
  <2> QED
    BY <1>1, <2>1, ArgumentsFixed
<1>2. DoneIsInherited'
  BY <1>1 DEF DoneIsInherited, DoneByAll, DoneByOne
<1> QED
  BY <1>1, <1>2 DEF DoneInv

LEMMA DoneInvPreserved ==
  MigrationTypeOK /\ DoneInv /\ [MigrationNext]_migration_vars => DoneInv'
<1> SUFFICES ASSUME MigrationTypeOK, DoneInv, [MigrationNext]_migration_vars PROVE DoneInv'
  OBVIOUS
<1>1. UNCHANGED arguments
  BY OtherStagesKeepPhases DEF MapOldPhase, MergeNewPhase
<1>2. CASE MapOldPhase
  <2>1. stage = "phase_mapping" /\ \A q \in NewPhases : new_status[q] = "done" => DoneByOne(q)
    BY <1>2 DEF MapOldPhase, At, DoneInv
  <2>2. CASE KeepNew
    BY <1>1, <2>1, <2>2, DoneInvFrom DEF KeepNew, Advance, phases
  <2>3. ASSUME NEW q \in NewPhases, NEW status, NEW reasons, Give(q, status, reasons),
               status = "done" => DoneByOne(q)
        PROVE  DoneInv'
    <3>1. stage' = "phase_mapping" /\ \A r \in NewPhases : new_status'[r] = "done" => DoneByOne(r)
      BY <2>1, <2>3 DEF Give, Advance, MigrationTypeOK
    <3> QED
      BY <1>1, <3>1, DoneInvFrom
  <2>4. ASSUME NEW why, StopMapping(Pause(why)) \/ StopMapping(EscalateFor(why))
        PROVE  DoneInv'
    <3>1. stage' = "returned"
      BY <2>4 DEF StopMapping, Pause, EscalateFor, Return
    <3> QED
      BY <1>1, <3>1, DoneInvFrom
  <2>5. CASE Raise
    BY <1>1, <2>5, DoneInvFrom DEF Raise
  <2> QED
    BY <1>2, <2>2, <2>3, <2>4, <2>5, GivenByOldPhase
<1>3. CASE EndOldPhases
  <2>1. /\ stage' = "merge" /\ position' = 1 /\ new_status' = new_status
        /\ \A q \in NewPhases : new_status[q] = "done" => DoneByOne(q)
    BY <1>3 DEF EndOldPhases, At, Goto, phases, DoneInv
  <2>2. ASSUME NEW q \in NewPhases, MergedInto(q)
        PROVE  MergeFrom(position', q)
    <3>1. PICK n \in DOMAIN phase_mapping : /\ phase_mapping[n].new = q
                                            /\ FirstFor(n)
                                            /\ phase_mapping[n].type = "merged"
      BY <2>2 DEF MergedInto
    <3>2. n >= 1 /\ phase_mapping' = phase_mapping
      BY <1>1 DEF MigrationTypeOK, arguments
    <3> QED
      BY <2>1, <3>1, <3>2 DEF MergeFrom
  <2> QED
    BY <1>1, <2>1, <2>2, DoneInvFrom
<1>4. CASE MergeNewPhase
  <2>1. /\ stage = "merge"
        /\ position \in DOMAIN phase_mapping
        /\ \A q \in NewPhases : new_status[q] = "done" =>
             \/ DoneByAll(q)
             \/ DoneByOne(q) /\ (~MergedInto(q) \/ MergeFrom(position, q))
    BY <1>4 DEF MergeNewPhase, At, DoneInv, MigrationTypeOK
  <2>2. Item = phase_mapping[position] /\ phase_mapping' = phase_mapping
    BY <1>1 DEF Item, arguments
  <2>3. ASSUME NEW q \in NewPhases, MergeFrom(position, q), position' = position + 1,
               ~(q = Item.new /\ Item.type = "merged" /\ FirstFor(position))
        PROVE  MergeFrom(position', q)
    <3>1. PICK n \in DOMAIN phase_mapping : /\ n >= position
                                            /\ phase_mapping[n].new = q
                                            /\ FirstFor(n)
                                            /\ phase_mapping[n].type = "merged"
      BY <2>3 DEF MergeFrom
    <3>2. n # position
      BY <2>2, <2>3, <3>1
    <3>3. n >= position + 1
      BY <2>1, <3>1, <3>2 DEF MigrationTypeOK
    <3> QED
      BY <2>3, <3>1, <3>3 DEF MergeFrom
  <2>4. ASSUME KeepNew,
               \A q \in NewPhases : MergeFrom(position, q) /\ q = Item.new /\ Item.type = "merged"
                                   /\ FirstFor(position) => ~DoneByOne(q) \/ DoneByAll(q)
        PROVE  DoneInv'
    <3>1. stage' = "merge" /\ position' = position + 1 /\ new_status' = new_status
      BY <2>1, <2>4 DEF KeepNew, Advance, phases
    <3>2. ASSUME NEW q \in NewPhases, new_status[q] = "done"
          PROVE  \/ DoneByAll(q)
                 \/ DoneByOne(q) /\ (~MergedInto(q) \/ MergeFrom(position', q))
      BY <2>1, <2>3, <2>4, <3>1, <3>2
    <3> QED
      BY <1>1, <3>1, <3>2, DoneInvFrom
  <2>5. ASSUME NEW status, NEW reasons, Item.new \in NewPhases, Give(Item.new, status, reasons),
               status = "done" => DoneByAll(Item.new)
        PROVE  DoneInv'
    <3>1. stage' = "merge" /\ position' = position + 1
      BY <2>1, <2>5 DEF Give, Advance
    <3>2. ASSUME NEW q \in NewPhases, new_status'[q] = "done"
          PROVE  \/ DoneByAll(q)
                 \/ DoneByOne(q) /\ (~MergedInto(q) \/ MergeFrom(position', q))
      <4>1. CASE q = Item.new
        BY <2>5, <3>2, <4>1 DEF Give, MigrationTypeOK
      <4>2. CASE q # Item.new
        <5>1. new_status[q] = "done"
          BY <2>5, <3>2, <4>2 DEF Give, MigrationTypeOK
        <5> QED
          BY <2>1, <2>3, <3>1, <4>2, <5>1
      <4> QED
        BY <4>1, <4>2
    <3> QED
      BY <1>1, <3>1, <3>2, DoneInvFrom
  <2>6. ASSUME NEW why, StopMapping(Pause(why)) \/ StopMapping(EscalateFor(why))
        PROVE  DoneInv'
    <3>1. stage' = "returned"
      BY <2>6 DEF StopMapping, Pause, EscalateFor, Return
    <3> QED
      BY <1>1, <3>1, DoneInvFrom
  <2> QED
    BY <1>4, <2>4, <2>5, <2>6, GivenByMerge
<1>5. CASE EndNewPhases
  <2>1. /\ stage' = "recompute" /\ new_status' = new_status
        /\ position > Len(phase_mapping)
        /\ \A q \in NewPhases : new_status[q] = "done" =>
             \/ DoneByAll(q)
             \/ DoneByOne(q) /\ (~MergedInto(q) \/ MergeFrom(position, q))
    BY <1>5 DEF EndNewPhases, At, Goto, phases, DoneInv
  <2>2. \A q : ~MergeFrom(position, q)
    BY <2>1 DEF MergeFrom, MigrationTypeOK
  <2> QED
    BY <1>1, <2>1, <2>2, DoneInvFrom
<1>6. CASE ~MapOldPhase /\ ~MergeNewPhase /\ ~EndOldPhases /\ ~EndNewPhases
  <2>1. UNCHANGED <<arguments, phases>>
    BY <1>6, OtherStagesKeepPhases
  <2>2. \/ UNCHANGED <<stage, position>>
        \/ /\ stage \in {"mapping_check", "freeze", "attempt_conflict", "structure",
                         "split_ambiguity"}
           /\ stage' \in {"freeze", "attempt_conflict", "structure", "split_ambiguity",
                          "phase_mapping", "returned"}
        \/ stage' \in {"guide_mapping", "resume_module", "resume_phase", "finish", "returned"}
    BY <1>6 DEF MigrationNext, migration_vars, CheckMapping, Freeze, CheckAttempts, CheckStructure,
         CheckSplits, Recompute, CheckGuides, ResolveResumeModule, ResolveResumePhase, Finish,
         Check, At, Goto, Return, Pause, EscalateFor, ResumeAt
  <2>3. CASE UNCHANGED <<stage, position>>
    BY <1>1, <2>1, <2>3, DoneInvFrom DEF DoneInv, phases, DoneIsInherited, DoneByAll, DoneByOne
  <2>4. CASE stage \in {"mapping_check", "freeze", "attempt_conflict", "structure",
                       "split_ambiguity"}
             /\ stage' \in {"freeze", "attempt_conflict", "structure", "split_ambiguity",
                            "phase_mapping", "returned"}
    BY <1>1, <2>1, <2>4, DoneInvFrom DEF DoneInv, phases
  <2>5. CASE stage' \in {"guide_mapping", "resume_module", "resume_phase", "finish", "returned"}
    BY <1>1, <2>5, DoneInvFrom
  <2> QED
    BY <2>2, <2>3, <2>4, <2>5
<1> QED
  BY <1>2, <1>3, <1>4, <1>5, <1>6

(* Done is inherited, never invented: for every mapping, what a merge or a split makes of a new     *)
(* phase is done only if what it stands for was.                                                    *)
THEOREM DoneIsNeverInvented == MigrationSpec => []DoneIsInherited
<1>1. MigrationInit => DoneInv
  BY DEF MigrationInit, DoneInv, DoneIsInherited
<1>2. DoneInv => DoneIsInherited
  BY DEF DoneInv
<1> QED
  BY <1>1, <1>2, DoneInvPreserved, MigrationTypeCorrect, PTL DEF MigrationSpec

-------------------------------------------------------------------------------
(* What a split continues *)

Unmapped == {"mapping_check", "freeze", "attempt_conflict", "structure", "split_ambiguity"}

(* The first of p's items, at which the loop over the old phases decides, has been passed. *)
Decided(p, k) == \E n \in ItemsOf(phase_mapping, p) : FirstOf(phase_mapping, n) /\ n < k

SplitsChecked ==
  stage \notin Unmapped \cup {"returned"} => \A p \in OldPhases : ~Ambiguous(phase_mapping, p, old_status[p])

(* No new phase of a split has a status before the round of p's first item, one of them has p's *)
(* after it, and no other round, of either loop, touches them.                                  *)
Untouched(p) == \A q \in PartsOf(p) : new_status[q] = "not_started"
Dividing(p) == SplitUp(p) /\ Begun(old_status[p])
SplitInv ==
  /\ SplitsChecked
  /\ stage \in Unmapped => position = 1
  /\ \A p \in OldPhases : Dividing(p) =>
       /\ stage \in Unmapped => Untouched(p)
       /\ stage = "phase_mapping" => IF Decided(p, position) THEN ContinuesOnce(p) ELSE Untouched(p)
       /\ stage \notin Unmapped \cup {"phase_mapping", "returned", "raised"} \/ Resumes
          => ContinuesOnce(p)

(* What a split is does not change during the call. *)
LEMMA SplitsFixed ==
  ASSUME UNCHANGED arguments, NEW p
  PROVE  /\ PartsOf(p)' = PartsOf(p)
         /\ Dividing(p)' <=> Dividing(p)
         /\ Ambiguous(phase_mapping, p, old_status[p])' <=> Ambiguous(phase_mapping, p, old_status[p])
         /\ \A k : Decided(p, k)' <=> Decided(p, k)
<1>1. phase_mapping' = phase_mapping /\ old_status' = old_status
  BY DEF arguments
<1>2. PartsOf(p)' = PartsOf(p)
  BY <1>1 DEF PartsOf, Sources
<1>3. IsSplit(phase_mapping, p)' <=> IsSplit(phase_mapping, p)
  BY <1>1 DEF IsSplit, ItemsOf, FirstOf
<1>4. Dividing(p)' <=> Dividing(p)
  BY <1>1, <1>2, <1>3 DEF Dividing, SplitUp, ItemsOf
<1>5. Ambiguous(phase_mapping, p, old_status[p])' <=> Ambiguous(phase_mapping, p, old_status[p])
  BY <1>1, <1>3 DEF Ambiguous, ItemsOf, HasTarget, HasName, Candidates
<1>6. \A k : Decided(p, k)' <=> Decided(p, k)
  BY <1>1 DEF Decided, ItemsOf, FirstOf
<1> QED
  BY <1>2, <1>4, <1>5, <1>6

(* While the new phases of a split keep their statuses, so does what is said of them. *)
LEMMA PartsKept ==
  ASSUME UNCHANGED arguments, NEW p, \A q \in PartsOf(p) : new_status'[q] = new_status[q]
  PROVE  /\ Untouched(p) => Untouched(p)'
         /\ ContinuesOnce(p) => ContinuesOnce(p)'
<1>1. PartsOf(p)' = PartsOf(p) /\ old_status' = old_status
  BY SplitsFixed DEF arguments
<1> QED
  BY <1>1 DEF Untouched, ContinuesOnce

(* An old phase that is divided has more than one item with a target. *)
LEMMA DividedHasTargets ==
  ASSUME MigrationTypeOK, NEW p \in OldPhases, SplitUp(p)
  PROVE  Cardinality(HasTarget(phase_mapping, ItemsOf(phase_mapping, p))) > 1
<1> DEFINE targets == HasTarget(phase_mapping, ItemsOf(phase_mapping, p))
           new[n \in targets] == phase_mapping[n].new
<1>1. ASSUME NEW q \in PartsOf(p) PROVE \E n \in targets : q = phase_mapping[n].new
  <2>1. p \in Sources(q) /\ q # None
    BY MigrationAssumption DEF PartsOf
  <2>2. PICK n \in DOMAIN phase_mapping : phase_mapping[n].new = q /\ phase_mapping[n].old = p
    BY <2>1 DEF Sources
  <2>3. n \in targets
    BY <2>1, <2>2 DEF HasTarget, ItemsOf
  <2> QED
    BY <2>2, <2>3
<1>2. IsFiniteSet(targets) /\ Cardinality(targets) \in Nat
  <2>1. IsFiniteSet(DOMAIN phase_mapping)
    <3>1. DOMAIN phase_mapping = 1..Len(phase_mapping) /\ Len(phase_mapping) \in Nat
      BY DEF MigrationTypeOK
    <3> QED
      BY <3>1, FS_Interval
  <2>2. targets \subseteq DOMAIN phase_mapping
    BY DEF HasTarget, ItemsOf
  <2> QED
    BY <2>1, <2>2, FS_Subset, FS_CardinalityType
<1>3. PartsOf(p) \subseteq {phase_mapping[n].new : n \in targets}
  BY <1>1
<1>4. /\ IsFiniteSet({phase_mapping[n].new : n \in targets})
      /\ Cardinality({phase_mapping[n].new : n \in targets}) <= Cardinality(targets)
  <2>1. new \in Surjection(targets, {phase_mapping[n].new : n \in targets})
    BY DEF Surjection
  <2> QED
    BY <1>2, <2>1, FS_Surjection
<1>5. Cardinality(PartsOf(p)) <= Cardinality({phase_mapping[n].new : n \in targets})
  BY <1>3, <1>4, FS_Subset
<1>6. /\ Cardinality({phase_mapping[n].new : n \in targets}) \in Nat
      /\ Cardinality(PartsOf(p)) \in Nat
  BY <1>3, <1>4, FS_Subset, FS_CardinalityType
<1>7. Cardinality(PartsOf(p)) > 1
  BY DEF SplitUp
<1> QED
  BY <1>2, <1>4, <1>5, <1>6, <1>7

(* A divided phase that is begun names exactly one candidate once the splits have been checked. *)
LEMMA OneCandidate ==
  ASSUME MigrationTypeOK, SplitInv, stage = "phase_mapping", NEW p \in OldPhases, Dividing(p)
  PROVE  /\ Cardinality(Candidates(phase_mapping, ItemsOf(phase_mapping, p))) = 1
         /\ \A n \in Candidates(phase_mapping, ItemsOf(phase_mapping, p)) :
              phase_mapping[n].new \in PartsOf(p)
<1>1. ~Ambiguous(phase_mapping, p, old_status[p])
  BY DEF SplitInv, SplitsChecked, Unmapped
<1>2. Cardinality(HasTarget(phase_mapping, ItemsOf(phase_mapping, p))) > 1
  BY DividedHasTargets DEF Dividing
<1>3. Cardinality(Candidates(phase_mapping, ItemsOf(phase_mapping, p))) = 1
  BY <1>1, <1>2 DEF Ambiguous, Dividing, SplitUp
<1>4. Candidates(phase_mapping, ItemsOf(phase_mapping, p)) \subseteq ItemsOf(phase_mapping, p)
  BY DEF Candidates, HasName
<1> QED
  BY <1>3, <1>4 DEF Dividing, SplitUp

(* A round over the old phases only changes new phases that the item's old phase became. *)
LEMMA OldPhaseRoundGives ==
  ASSUME MigrationTypeOK, MapOldPhase
  PROVE  \/ KeepNew
         \/ Raise
         \/ \E q \in NewPhases : \E status \in PhaseStatuses, reasons \in SUBSET FailureReasons :
              /\ Give(q, status, reasons)
              /\ Item.old \in Sources(q)
              /\ FirstOf(phase_mapping, position)
         \/ \E why \in MappingStops : StopMapping(Pause(why)) \/ StopMapping(EscalateFor(why))
<1> DEFINE p == Item.old
           q == Item.new
<1>0. position \in DOMAIN phase_mapping /\ Item = phase_mapping[position]
  BY DEF MapOldPhase, MigrationTypeOK, Item
<1>1. /\ p \in OldPhases \cup {None}
      /\ Item.type \in Identity => q \in NewPhases
  BY <1>0, ItemShape, KeptIsNew DEF MigrationTypeOK
<1>2. ASSUME p \in OldPhases
      PROVE  old_status[p] \in PhaseStatuses /\ old_reasons[p] \in SUBSET FailureReasons
  BY <1>2 DEF MigrationTypeOK
<1>3. ASSUME p # None, NEW n \in DOMAIN phase_mapping, phase_mapping[n].old = p
      PROVE  p \in Sources(phase_mapping[n].new)
  BY <1>3 DEF Sources
<1>4. CASE p # None /\ FirstOf(phase_mapping, position) /\ Item.type \in Identity
           /\ InheritIdentity(p, q)
  <2>1. p \in OldPhases /\ q \in NewPhases /\ p \in Sources(q)
    BY <1>0, <1>1, <1>3, <1>4
  <2>2. new_reasons[q] \in SUBSET FailureReasons
    BY <2>1 DEF MigrationTypeOK
  <2>3. CASE RouteFailed(p, q)
    BY <1>4, <2>1, <2>3 DEF RouteFailed, MappingStops, PhaseStatuses
  <2>4. CASE Give(q, old_status[p], new_reasons[q])
    BY <1>2, <1>4, <2>1, <2>2, <2>4
  <2>5. CASE Give(q, "blocked", old_reasons[p])
    BY <1>2, <1>4, <2>1, <2>5 DEF PhaseStatuses
  <2> QED
    BY <1>4, <2>3, <2>4, <2>5 DEF InheritIdentity
<1>5. CASE p # None /\ FirstOf(phase_mapping, position) /\ InheritSplit(p)
  <2>1. ASSUME NEW n \in Candidates(phase_mapping, ItemsOf(phase_mapping, p)),
               phase_mapping[n].new # None,
               Give(phase_mapping[n].new, old_status[p], new_reasons[phase_mapping[n].new])
        PROVE  \E x \in NewPhases : \E status \in PhaseStatuses, reasons \in SUBSET FailureReasons :
                 Give(x, status, reasons) /\ p \in Sources(x)
    <3>1. n \in DOMAIN phase_mapping /\ phase_mapping[n].new # None /\ phase_mapping[n].old = p
      BY <2>1 DEF Candidates, HasName, ItemsOf
    <3> DEFINE x == phase_mapping[n].new
    <3>2. x \in NewPhases
      BY <3>1, ItemShape DEF MigrationTypeOK
    <3>3. new_reasons[x] \in SUBSET FailureReasons
      BY <3>2 DEF MigrationTypeOK
    <3>4. p \in Sources(x)
      BY <1>3, <1>5, <3>1
    <3>5. Give(x, old_status[p], new_reasons[x])
      BY <2>1 DEF x
    <3> HIDE DEF x
    <3> QED
      BY <1>1, <1>2, <1>5, <3>2, <3>3, <3>4, <3>5
  <2> QED
    BY <1>5, <2>1 DEF InheritSplit
<1> QED
  BY <1>4, <1>5 DEF MapOldPhase

(* A round over the new phases only changes one that a merged item is for. *)
LEMMA NewPhaseRoundGives ==
  ASSUME MigrationTypeOK, MergeNewPhase
  PROVE  \/ KeepNew
         \/ /\ Item.type = "merged"
            /\ \E status, reasons : Give(Item.new, status, reasons)
         \/ \E why \in MappingStops : StopMapping(Pause(why)) \/ StopMapping(EscalateFor(why))
<1>1. CASE Item.type = "merged" /\ MergeStatus(Item.new)
  BY <1>1 DEF MergeStatus
<1>2. CASE Item.type = "merged" /\ Merge(Item.new)
  BY <1>1, <1>2 DEF Merge, MappingStops
<1> QED
  BY <1>2 DEF MergeNewPhase

LEMMA SplitInvPreserved ==
  MigrationTypeOK /\ NoAnswerYet /\ SplitInv /\ [MigrationNext]_migration_vars => SplitInv'
<1> SUFFICES ASSUME MigrationTypeOK, NoAnswerYet, SplitInv, [MigrationNext]_migration_vars
             PROVE  SplitInv'
  OBVIOUS
<1>1. UNCHANGED arguments
  BY OtherStagesKeepPhases DEF MapOldPhase, MergeNewPhase
<1>2. phase_mapping' = phase_mapping /\ old_status' = old_status
  BY <1>1 DEF arguments
<1>3. SplitsChecked'
  <2>1. CASE CheckSplits
    <3>1. stage' \in {"returned", "phase_mapping"}
          /\ (stage' = "phase_mapping" => ~SplitAmbiguity)
      BY <2>1 DEF CheckSplits, Check, Pause, Return, Goto
    <3> QED
      BY <1>1, <3>1, SplitsFixed DEF SplitsChecked, SplitAmbiguity
  <2>2. CASE ~CheckSplits
    <3>1. \/ stage' \in Unmapped \cup {"returned"}
          \/ stage' = stage
          \/ stage \notin Unmapped \cup {"returned"}
      BY <2>2 DEF MigrationNext, migration_vars, CheckMapping, Freeze, CheckAttempts,
         CheckStructure, MapOldPhase, EndOldPhases, MergeNewPhase, EndNewPhases, Recompute,
         CheckGuides, ResolveResumeModule, ResolveResumePhase, Finish, Check, At, Goto, Return,
         Pause, EscalateFor, Unmapped
    <3> QED
      BY <1>1, <3>1, SplitsFixed DEF SplitInv, SplitsChecked
  <2> QED
    BY <2>1, <2>2
<1>4. ASSUME NEW p \in OldPhases, Dividing(p)'
      PROVE  /\ stage' \in Unmapped => Untouched(p)'
             /\ stage' = "phase_mapping"
                => IF Decided(p, position)' THEN ContinuesOnce(p)' ELSE Untouched(p)'
             /\ stage' \notin Unmapped \cup {"phase_mapping", "returned", "raised"} \/ Resumes'
                => ContinuesOnce(p)'
  <2>0. /\ Dividing(p) /\ SplitUp(p)
        /\ PartsOf(p)' = PartsOf(p) /\ PartsOf(p) \subseteq NewPhases
        /\ p # None
    <3>1. Dividing(p) /\ PartsOf(p)' = PartsOf(p)
      BY <1>1, <1>4, SplitsFixed
    <3> QED
      BY <3>1, MigrationAssumption DEF Dividing, PartsOf
  <2> DEFINE stopped == stage' \in {"returned", "raised"} /\ outcome' # "auto_resumed"
             kept == \A q \in PartsOf(p) : new_status'[q] = new_status[q]
  <2>1. ASSUME NEW why, StopMapping(Pause(why)) \/ StopMapping(EscalateFor(why))
        PROVE  stopped
    BY <2>1 DEF StopMapping, Pause, EscalateFor, Return
  <2>2. CASE stopped
    BY <2>2 DEF Unmapped, Resumes
  <2>3. CASE MapOldPhase
    <3>0. /\ stage = "phase_mapping"
          /\ position \in DOMAIN phase_mapping
          /\ Item = phase_mapping[position]
          /\ \A n \in DOMAIN phase_mapping : n \in Nat
      BY <2>3 DEF MapOldPhase, At, MigrationTypeOK, Item
    <3>5. Raise => stopped
      BY <3>0, MigrationAssumption DEF Raise, answer, NoAnswerYet, Outcomes
    <3> DEFINE head == Item.old = p /\ FirstOf(phase_mapping, position)
    <3>1. position' = position + 1 => (Decided(p, position)' <=> head \/ Decided(p, position))
      <4>1. Decided(p, position)' <=> Decided(p, position')
        BY <1>2 DEF Decided, ItemsOf, FirstOf
      <4>2. \A n \in DOMAIN phase_mapping : n < position + 1 <=> n < position \/ n = position
        BY <3>0
      <4>3. Decided(p, position + 1) <=> head \/ Decided(p, position)
        BY <3>0, <4>2 DEF Decided, ItemsOf
      <4> QED
        BY <4>1, <4>3
    <3>2. CASE head /\ ~stopped
      <4>1. ~Decided(p, position) /\ Untouched(p)
        <5>1. \A n \in ItemsOf(phase_mapping, p) : n < position => n \in 1..(position - 1)
          BY <3>0 DEF ItemsOf, MigrationTypeOK
        <5>2. ~Decided(p, position)
          BY <3>0, <3>2, <5>1 DEF Decided, FirstOf, ItemsOf
        <5> QED
          BY <2>0, <3>0, <5>2 DEF SplitInv
      <4>2. Item.type = "split" /\ position \in ItemsOf(phase_mapping, p)
        BY <2>0, <3>0, <3>2 DEF SplitUp, ItemsOf
      <4>3. InheritSplit(p)
        BY <2>0, <2>3, <3>2, <4>2 DEF MapOldPhase, Identity
      <4>4. PICK n \in Candidates(phase_mapping, ItemsOf(phase_mapping, p)) :
              Give(phase_mapping[n].new, old_status[p], new_reasons[phase_mapping[n].new])
        BY <2>0, <3>0, <3>2, <3>5, <4>3, OneCandidate DEF InheritSplit, Dividing
      <4> DEFINE x == phase_mapping[n].new
      <4>5. x \in PartsOf(p)
        BY <2>0, <3>0, OneCandidate
      <4>6. /\ new_status' = [new_status EXCEPT ![x] = old_status[p]]
            /\ position' = position + 1
            /\ UNCHANGED <<stage, outcome>>
        BY <4>4 DEF Give, Advance, answer
      <4> HIDE DEF x
      <4>7. ContinuesOnce(p)'
        BY <1>2, <2>0, <4>1, <4>5, <4>6 DEF ContinuesOnce, Untouched, MigrationTypeOK
      <4> QED
        BY <3>0, <3>1, <3>2, <4>6, <4>7 DEF Unmapped
    <3>3. CASE ~head /\ ~stopped
      <4>1. /\ position' = position + 1 /\ UNCHANGED <<stage, outcome>>
            /\ kept
        <5>1. CASE KeepNew
          BY <5>1 DEF KeepNew, Advance, phases, answer
        <5>2. ASSUME NEW q \in NewPhases, NEW status, NEW reasons, Give(q, status, reasons),
                     Item.old \in Sources(q), FirstOf(phase_mapping, position)
              PROVE  position' = position + 1 /\ UNCHANGED <<stage, outcome>> /\ kept
          <6>1. q \notin PartsOf(p)
            BY <3>3, <5>2 DEF PartsOf
          <6> QED
            BY <2>0, <5>2, <6>1 DEF Give, Advance, answer, MigrationTypeOK
        <5> QED
          BY <2>1, <2>3, <3>3, <3>5, <5>1, <5>2, OldPhaseRoundGives
      <4>2. outcome # "auto_resumed"
        BY <3>0, MigrationAssumption DEF NoAnswerYet, Outcomes
      <4> QED
        BY <1>1, <2>0, <3>0, <3>1, <3>3, <4>1, <4>2, PartsKept DEF SplitInv, Unmapped, Resumes
    <3> QED
      BY <2>2, <3>2, <3>3
  <2>4. CASE MergeNewPhase
    <3>0. /\ stage = "merge"
          /\ position \in DOMAIN phase_mapping
          /\ Item = phase_mapping[position]
      BY <2>4 DEF MergeNewPhase, At, MigrationTypeOK, Item
    <3>1. ASSUME Item.type = "merged" PROVE Item.new \notin PartsOf(p)
      <4>1. Item.old # None
        BY <3>0, <3>1, ItemShape DEF MigrationTypeOK
      <4>2. Item.old \in Sources(Item.new)
        BY <3>0, <4>1 DEF Sources
      <4>3. Item.old # p
        BY <2>0, <3>0, <3>1 DEF SplitUp, ItemsOf
      <4> QED
        BY <4>2, <4>3 DEF PartsOf
    <3>2. CASE ~stopped
      <4>1. UNCHANGED <<stage, outcome>> /\ kept
        <5>1. CASE KeepNew
          BY <5>1 DEF KeepNew, Advance, phases, answer
        <5>2. ASSUME NEW status, NEW reasons, Give(Item.new, status, reasons), Item.type = "merged"
              PROVE  UNCHANGED <<stage, outcome>> /\ kept
          BY <2>0, <3>1, <5>2 DEF Give, Advance, answer, MigrationTypeOK
        <5> QED
          BY <2>1, <2>4, <3>2, <5>1, <5>2, NewPhaseRoundGives
      <4> QED
        BY <1>1, <2>0, <3>0, <4>1, PartsKept DEF SplitInv, Unmapped, Resumes
    <3> QED
      BY <2>2, <3>2
  <2>5. CASE ~MapOldPhase /\ ~MergeNewPhase
    <3>1. kept /\ UNCHANGED phases
      BY <2>5, OtherStagesKeepPhases DEF phases
    <3>2. \/ UNCHANGED <<stage, position, outcome>>
          \/ stage \in Unmapped /\ stage' \in Unmapped /\ outcome' = outcome
          \/ CheckSplits /\ stage' = "phase_mapping" /\ outcome' = outcome
          \/ EndOldPhases
          \/ /\ stage \notin Unmapped \cup {"phase_mapping", "returned", "raised"}
             /\ stage' \notin Unmapped \cup {"phase_mapping"}
          \/ stopped
      BY <2>5 DEF MigrationNext, migration_vars, CheckMapping, Freeze, CheckAttempts, CheckStructure,
         CheckSplits, EndNewPhases, Recompute, CheckGuides, ResolveResumeModule, ResolveResumePhase,
         Finish, Check, At, Goto, Return, Pause, EscalateFor, ResumeAt, Unmapped, answer
    <3>3. CASE UNCHANGED <<stage, position, outcome>>
      <4>1. Decided(p, position)' <=> Decided(p, position)
        BY <1>2, <3>3 DEF Decided, ItemsOf, FirstOf
      <4> QED
        BY <1>1, <2>0, <3>1, <3>3, <4>1, PartsKept DEF SplitInv, Resumes
    <3>4. CASE stage \in Unmapped /\ stage' \in Unmapped /\ outcome' = outcome
      <4>1. outcome # "auto_resumed"
        BY <3>4, MigrationAssumption DEF NoAnswerYet, Outcomes, Unmapped
      <4> QED
        BY <1>1, <2>0, <3>1, <3>4, <4>1, PartsKept DEF SplitInv, Resumes, Unmapped
    <3>5. CASE CheckSplits /\ stage' = "phase_mapping" /\ outcome' = outcome
      <4>1. stage \in Unmapped /\ position' = 1
        BY <3>5 DEF CheckSplits, Check, At, Unmapped, SplitInv
      <4>2. ~Decided(p, position)'
        BY <1>2, <4>1 DEF Decided, ItemsOf, MigrationTypeOK
      <4>3. outcome # "auto_resumed"
        BY <4>1, MigrationAssumption DEF NoAnswerYet, Outcomes, Unmapped
      <4> QED
        BY <1>1, <2>0, <3>1, <3>5, <4>1, <4>2, <4>3, PartsKept DEF SplitInv, Resumes, Unmapped
    <3>6. CASE EndOldPhases
      <4>1. stage = "phase_mapping" /\ stage' = "merge" /\ position > Len(phase_mapping)
        BY <3>6 DEF EndOldPhases, At, Goto
      <4>2. Decided(p, position)
        BY <2>0, <4>1 DEF SplitUp, IsSplit, Decided, ItemsOf, MigrationTypeOK
      <4> QED
        BY <1>1, <2>0, <3>1, <4>1, <4>2, PartsKept DEF SplitInv, Unmapped
    <3>7. CASE /\ stage \notin Unmapped \cup {"phase_mapping", "returned", "raised"}
               /\ stage' \notin Unmapped \cup {"phase_mapping"}
      BY <1>1, <2>0, <3>1, <3>7, PartsKept DEF SplitInv, Unmapped
    <3> QED
      BY <2>2, <3>2, <3>3, <3>4, <3>5, <3>6, <3>7
  <2> QED
    BY <2>3, <2>4, <2>5
<1>5. stage' \in Unmapped => position' = 1
  BY DEF SplitInv, Unmapped, MigrationNext, migration_vars, CheckMapping, Freeze, CheckAttempts,
         CheckStructure, CheckSplits, MapOldPhase, EndOldPhases, MergeNewPhase, EndNewPhases,
         Recompute, CheckGuides, ResolveResumeModule, ResolveResumePhase, Finish, Check, At, Goto,
         Return, Pause, EscalateFor, ResumeAt, KeepNew, Give, Advance, StopMapping, InheritIdentity,
         InheritSplit, Raise, RouteFailed, Merge, MergeStatus
<1> QED
  BY <1>3, <1>4, <1>5 DEF SplitInv

(* For every mapping, a phase that only split items are for, and that was begun, goes on in exactly *)
(* one of its parts: what lets the ambiguity check stand for the choice the mapping makes later.    *)
THEOREM SplitsContinueOnce == MigrationSpec => []SplitContinuesOnce
<1>1. MigrationInit => SplitInv
  BY MigrationAssumption
     DEF MigrationInit, SplitInv, SplitsChecked, Unmapped, Untouched, PartsOf, Resumes, Outcomes
<1>2. SplitInv => SplitContinuesOnce
  BY DEF SplitInv, Dividing, SplitContinuesOnce
<1>3. MigrationIInv => MigrationTypeOK /\ NoAnswerYet
  BY DEF MigrationIInv
<1> QED
  BY <1>1, <1>2, <1>3, SplitInvPreserved, MigrationInductive, PTL DEF MigrationSpec

-------------------------------------------------------------------------------
(* There is a phase to resume at *)

(* Some phase of a module comes first among those of a set. *)
LEMMA SomePhaseLeads ==
  ASSUME NEW m \in NewModules, NEW set \in SUBSET PhasesOf(m), set # {}
  PROVE  \E q \in set : Leads(q, set)
<1> DEFINE order == PhaseOrder[m]
           places == {i \in DOMAIN order : order[i] \in set}
<1>1. /\ order \in Seq(NewPhases)
      /\ \A i, j \in DOMAIN order : order[i] = order[j] => i = j
  BY MigrationAssumption
<1>2. places \subseteq Nat /\ places # {}
  <2>1. PICK q \in set : q \in NewPhases /\ NewModuleOf[q] = m
    BY DEF PhasesOf
  <2>2. \E i \in DOMAIN order : order[i] = q
    BY <2>1, MigrationAssumption
  <2> QED
    BY <1>1, <2>1, <2>2
<1> HIDE DEF places
<1>3. PICK i \in places : \A j \in places : ~(<<j, i>> \in OpToRel(<, Nat))
  BY <1>2, WFMin, NatLessThanWellFounded
<1>4. \A j \in places : ~(j < i)
  BY <1>2, <1>3 DEF OpToRel
<1>5. i \in DOMAIN order /\ order[i] \in set /\ NewModuleOf[order[i]] = m
  BY DEF places, PhasesOf
<1>6. ASSUME NEW r \in set, Precedes(r, order[i]) PROVE FALSE
  <2>1. PICK k, l \in DOMAIN order : k < l /\ order[k] = r /\ order[l] = order[i]
    BY <1>5, <1>6 DEF Precedes
  <2>2. l = i /\ k \in places
    BY <1>1, <1>5, <2>1 DEF places
  <2> QED
    BY <1>4, <2>1, <2>2
<1> QED
  BY <1>5, <1>6 DEF Leads

(* The groups of resolve_resume_module and resolve_resume_phase agree: a module is only chosen *)
(* for phases that are looked for in it afterwards.                                            *)
LEMMA ChosenModuleHasPhase ==
  ASSUME NEW m \in ResumeGroup
  PROVE  PhaseGroup(m) # {} /\ PhaseGroup(m) \subseteq PhasesOf(m)
<1>1. \A q \in NewPhases : InProgress(q) => Open(q)
  BY DEF InProgress, Open
<1>2. \E q \in NewPhases : /\ NewModuleOf[q] = m
                           /\ \/ InProgress(q)
                              \/ Waiting(q) /\ \A r \in NewPhases : ~InProgress(r)
                              \/ Open(q) /\ \A r \in NewPhases : ~InProgress(r) /\ ~Waiting(r)
  BY DEF ResumeGroup
<1> QED
  BY <1>1, <1>2 DEF PhaseGroup, PhasesOf

(* The phases before the current one are of the module that is resumed. *)
LEMMA PredecessorsInModule ==
  ASSUME NEW m
  PROVE  Predecessors(m) \subseteq PhasesOf(m)
BY DEF Predecessors

(* The module that is resumed was chosen of the groups, and nothing has changed since. *)
ModuleChosen ==
  stage = "resume_phase" => resume_module_id \in ResumeGroup /\ resume_module_id \in NewModules

LEMMA ModuleChosenPreserved ==
  MigrationTypeOK /\ ModuleChosen /\ [MigrationNext]_migration_vars => ModuleChosen'
<1> SUFFICES ASSUME MigrationTypeOK, ModuleChosen, [MigrationNext]_migration_vars,
                    stage' = "resume_phase"
             PROVE  resume_module_id' \in ResumeGroup' /\ resume_module_id' \in NewModules
  BY DEF ModuleChosen
<1>1. CASE ResolveResumeModule
  <2>1. /\ UNCHANGED <<new_status, new_reasons>>
        /\ \E n \in DOMAIN ModuleOrder : /\ ModuleOrder[n] \in ResumeGroup
                                         /\ resume_module_id' = ModuleOrder[n]
    BY <1>1 DEF ResolveResumeModule, EscalateFor, Return, phases
  <2>2. ResumeGroup' = ResumeGroup
    BY <2>1 DEF ResumeGroup, InProgress, Waiting, Open
  <2> QED
    BY <2>1, <2>2, MigrationAssumption
<1>2. CASE UNCHANGED migration_vars
  <2>1. UNCHANGED <<stage, resume_module_id, new_status, new_reasons>>
    BY <1>2 DEF migration_vars, resumed, phases
  <2>2. ResumeGroup' = ResumeGroup
    BY <2>1 DEF ResumeGroup, InProgress, Waiting, Open
  <2> QED
    BY <2>1, <2>2 DEF ModuleChosen
<1> QED
  BY <1>1, <1>2 DEF MigrationNext, CheckMapping, Freeze, CheckAttempts, CheckStructure, CheckSplits,
     MapOldPhase, EndOldPhases, MergeNewPhase, EndNewPhases, Recompute, CheckGuides,
     ResolveResumePhase, Finish, Check, At, Goto, Return, Pause, EscalateFor, ResumeAt, KeepNew,
     Give, Advance, StopMapping, InheritIdentity, InheritSplit, Raise, RouteFailed, Merge, MergeStatus

(* For every overview: once a module is chosen to resume, there is a phase of it to resume at, so    *)
(* that migrate_overview never comes to its second handler of "no legal continuation point".         *)
THEOREM ResumePhaseIsFound == MigrationSpec => []ResumePhaseExists
<1>1. MigrationInit => ModuleChosen
  BY DEF MigrationInit, ModuleChosen
<1>2. ASSUME MigrationTypeOK, ModuleChosen, stage = "resume_phase"
      PROVE  LET before == Predecessors(resume_module_id)
                 group == PhaseGroup(resume_module_id)
             IN \E q \in NewPhases : Leads(q, before) \/ (before = {} /\ Leads(q, group))
  <2> DEFINE m == resume_module_id
  <2>1. m \in NewModules /\ m \in ResumeGroup
    BY <1>2 DEF ModuleChosen
  <2>2. /\ Predecessors(m) \subseteq PhasesOf(m)
        /\ PhaseGroup(m) # {} /\ PhaseGroup(m) \subseteq PhasesOf(m)
        /\ PhasesOf(m) \subseteq NewPhases
    BY <1>2, <2>1, PredecessorsInModule, ChosenModuleHasPhase DEF MigrationTypeOK, PhasesOf
  <2> HIDE DEF m
  <2>3. CASE Predecessors(m) # {}
    <3>1. \E q \in Predecessors(m) : Leads(q, Predecessors(m))
      BY <2>1, <2>2, <2>3, SomePhaseLeads
    <3> QED
      BY <2>2, <3>1 DEF m
  <2>4. CASE Predecessors(m) = {}
    <3>1. \E q \in PhaseGroup(m) : Leads(q, PhaseGroup(m))
      BY <2>1, <2>2, SomePhaseLeads
    <3> QED
      BY <2>2, <2>4, <3>1 DEF m
  <2> QED
    BY <2>3, <2>4
<1>3. MigrationTypeOK /\ ModuleChosen => ResumePhaseExists
  BY <1>2 DEF ResumePhaseExists
<1> QED
  BY <1>1, <1>3, ModuleChosenPreserved, MigrationTypeCorrect, PTL DEF MigrationSpec

-------------------------------------------------------------------------------
(* The history that is handed back *)

(* The freeze stamps the active attempts, and only the last stage stamps others. *)
HistoryInv ==
  /\ stage \in {"mapping_check", "freeze"} => \A x \in Attempts : frozen_by[x] # "this"
  /\ stage \notin {"mapping_check", "freeze", "returned"} =>
       \A x \in Attempts : frozen_by[x] = "this" <=> attempt_status[x] \in ActiveStatuses
  /\ HistorySealed

LEMMA HistoryInvPreserved ==
  MigrationIInv /\ HistoryInv /\ [MigrationNext]_migration_vars => HistoryInv'
<1> SUFFICES ASSUME MigrationIInv, HistoryInv, [MigrationNext]_migration_vars PROVE HistoryInv'
  OBVIOUS
<1>0. /\ None \notin {"earlier", "this"}
      /\ frozen_by \in [Attempts -> {None, "earlier", "this"}]
      /\ stage # "returned" => outcome # "auto_resumed" /\ reason # "incomplete_mapping"
  BY MigrationAssumption
     DEF MigrationIInv, MigrationTypeOK, NoAnswerYet, Outcomes, OtherReasons
<1>1. CASE Freeze
  BY <1>0, <1>1 DEF Freeze, At, Goto, HistoryInv, HistorySealed, arguments
<1>2. CASE Finish
  <2>1. /\ stage' = "returned" /\ outcome' = "auto_resumed"
        /\ \A x \in Attempts : frozen_by'[x] # None
    BY <1>0, <1>2 DEF Finish, Return
  <2> QED
    BY <2>1 DEF HistoryInv, HistorySealed, Resumes
<1>3. CASE CheckMapping
  <2>1. /\ UNCHANGED <<frozen_by, attempt_status>> /\ stage = "mapping_check"
        /\ \/ stage' = "freeze"
           \/ /\ stage' = "returned" /\ outcome' # "auto_resumed"
              /\ reason' = "incomplete_mapping"
    BY <1>3 DEF CheckMapping, Check, At, Goto, Pause, Return, frozen, arguments
  <2> QED
    BY <2>1 DEF HistoryInv, HistorySealed, Resumes
<1>4. CASE ~Freeze /\ ~Finish /\ ~CheckMapping
  <2>1. UNCHANGED <<frozen_by, attempt_status>>
    BY <1>4 DEF MigrationNext, migration_vars, CheckAttempts, CheckStructure, CheckSplits,
       MapOldPhase, EndOldPhases, MergeNewPhase, EndNewPhases, Recompute, CheckGuides,
       ResolveResumeModule, ResolveResumePhase, Check, arguments, frozen
  <2>2. \/ UNCHANGED <<stage, outcome, reason>>
        \/ /\ stage \notin {"mapping_check", "freeze", "returned"}
           /\ stage' \notin {"mapping_check", "freeze"}
           /\ stage' = "returned" => outcome' # "auto_resumed" /\ reason' # "incomplete_mapping"
    <3>1. CASE MapOldPhase \/ MergeNewPhase
      <4>1. stage \in {"phase_mapping", "merge"} /\ LoopRound
        BY <3>1, MapOldPhaseRound, MergeNewPhaseRound
           DEF MapOldPhase, MergeNewPhase, At, MigrationIInv
      <4> QED
        BY <4>1 DEF LoopRound, KeepNew, Raise, Give, Advance, StopMapping, Pause, EscalateFor,
                    Return, answer, MappingStops
    <3> QED
      BY <1>4, <3>1 DEF MigrationNext, migration_vars, CheckAttempts, CheckStructure, CheckSplits,
         EndOldPhases, EndNewPhases, Recompute, CheckGuides, ResolveResumeModule,
         ResolveResumePhase, Check, At, Goto, Return, Pause, EscalateFor, ResumeAt, answer
  <2> QED
    BY <1>0, <2>1, <2>2 DEF HistoryInv, HistorySealed, Resumes
<1> QED
  BY <1>1, <1>2, <1>3, <1>4

(* Whatever way the call returns, the records are stamped as its outcome says, and as the record     *)
(* protocol's model of a migration takes them.                                                       *)
THEOREM HistoryIsSealed == MigrationSpec => []HistorySealed
<1>1. MigrationInit => HistoryInv
  <2> SUFFICES ASSUME MigrationInit PROVE HistoryInv
    OBVIOUS
  <2>1. PICK r \in Requests : frozen_by = [x \in Attempts |-> IF x \in r.frozen THEN "earlier" ELSE None]
    BY DEF MigrationInit
  <2>2. \A x \in Attempts : frozen_by[x] # "this"
    BY <2>1, MigrationAssumption
  <2> QED
    BY <2>2 DEF MigrationInit, HistoryInv, HistorySealed
<1>2. HistoryInv => HistorySealed
  BY DEF HistoryInv
<1> QED
  BY <1>1, <1>2, HistoryInvPreserved, MigrationInductive, PTL DEF MigrationSpec

-------------------------------------------------------------------------------
(* The part of MigrationReturns that is no liveness: every step brings the call down in the       *)
(* lexicographic order of the stages and the mapping items left, and it ends as it is said to.    *)

CallStagesLeft ==
  [mapping_check |-> 12, freeze |-> 11, attempt_conflict |-> 10, structure |-> 9,
   split_ambiguity |-> 8, phase_mapping |-> 7, merge |-> 6, recompute |-> 5, guide_mapping |-> 4,
   resume_module |-> 3, resume_phase |-> 2, finish |-> 1, returned |-> 0, raised |-> 0]

ItemsLeft == Len(phase_mapping) + 1 - position

CallRunsDown ==
  \/ CallStagesLeft[stage'] < CallStagesLeft[stage]
  \/ /\ CallStagesLeft[stage'] = CallStagesLeft[stage]
     /\ ItemsLeft' < ItemsLeft

(* Both are natural numbers. *)
LEMMA CallRunDownIsFinite ==
  ASSUME MigrationTypeOK
  PROVE  CallStagesLeft[stage] \in Nat /\ ItemsLeft \in Nat
<1>1. CallStagesLeft[stage] \in Nat
  BY DEF MigrationTypeOK, Stages, CallStagesLeft
<1>2. ItemsLeft \in Nat
  BY DEF MigrationTypeOK, ItemsLeft
<1> QED
  BY <1>1, <1>2

(* A round of either loop takes the next item or ends the call; every other stage hands on. *)
THEOREM EveryStageRunsDown == MigrationSpec => [][CallRunsDown]_migration_vars
<1>1. ASSUME MigrationIInv, MigrationNext
      PROVE  CallRunsDown
  <2> USE DEF At, Goto, Return, Pause, EscalateFor, CallRunsDown, CallStagesLeft
  <2>1. ASSUME LoopRound, stage \in {"phase_mapping", "merge"}, UNCHANGED arguments
        PROVE  CallRunsDown
    <3>1. CASE /\ stage' = stage
               /\ position' = position + 1
      <4>1. Len(phase_mapping) \in Nat /\ position \in Nat
        BY <1>1 DEF MigrationIInv, MigrationTypeOK
      <4>2. ItemsLeft' < ItemsLeft
        BY <2>1, <3>1, <4>1 DEF ItemsLeft, arguments
      <4> QED
        BY <2>1, <3>1, <4>2
    <3>2. CASE stage' \in {"returned", "raised"}
      BY <2>1, <3>2
    <3> QED
      BY <2>1, <3>1, <3>2 DEF LoopRound, KeepNew, Raise, Give, Advance, StopMapping
  <2>2. CASE MapOldPhase
    BY <1>1, <2>1, <2>2, MapOldPhaseRound DEF MapOldPhase, MigrationIInv
  <2>3. CASE MergeNewPhase
    BY <1>1, <2>1, <2>3, MergeNewPhaseRound DEF MergeNewPhase, MigrationIInv
  <2>4. CASE CheckMapping \/ CheckAttempts \/ CheckStructure \/ CheckSplits \/ CheckGuides
    BY <2>4 DEF CheckMapping, CheckAttempts, CheckStructure, CheckSplits, CheckGuides, Check
  <2>5. CASE Freeze \/ EndOldPhases \/ EndNewPhases \/ Recompute \/ Finish
    BY <2>5 DEF Freeze, EndOldPhases, EndNewPhases, Recompute, Finish
  <2>6. CASE ResolveResumeModule \/ ResolveResumePhase
    BY <2>6 DEF ResolveResumeModule, ResolveResumePhase, ResumeAt
  <2> QED
    BY <1>1, <2>2, <2>3, <2>4, <2>5, <2>6 DEF MigrationNext
<1>2. MigrationIInv /\ [MigrationNext]_migration_vars => [CallRunsDown]_migration_vars
  BY <1>1
<1> QED
  BY <1>2, MigrationInductive, PTL DEF MigrationSpec

-------------------------------------------------------------------------------
(* How the call ends *)

(* It has an answer or has raised; it raises only where a phase strays, and does not resume then. *)
CallEnds ==
  /\ stage = "returned" => outcome \in Outcomes
  /\ stage = "raised" => \E p \in OldPhases : Strays(p)
  /\ Resumes => \A p \in OldPhases : ~Strays(p)

(* A phase that strays stops the loop over the old phases at its first item. *)
StrayInv ==
  /\ CallEnds
  /\ stage = "phase_mapping" => \A p \in OldPhases : Strays(p) => ~Decided(p, position)
  /\ stage \in {"merge", "recompute", "guide_mapping", "resume_module", "resume_phase", "finish"}
     => \A p \in OldPhases : ~Strays(p)

LEMMA StraysFixed ==
  ASSUME UNCHANGED arguments, NEW p
  PROVE  (Strays(p)' <=> Strays(p)) /\ \A k : Decided(p, k)' <=> Decided(p, k)
<1>1. phase_mapping' = phase_mapping /\ old_status' = old_status
  BY DEF arguments
<1>2. IsSplit(phase_mapping, p)' <=> IsSplit(phase_mapping, p)
  BY <1>1 DEF IsSplit, ItemsOf, FirstOf
<1>3. ItemsOf(phase_mapping, p)' = ItemsOf(phase_mapping, p)
  BY <1>1 DEF ItemsOf
<1>4. Candidates(phase_mapping, ItemsOf(phase_mapping, p))'
      = Candidates(phase_mapping, ItemsOf(phase_mapping, p))
  BY <1>1, <1>3 DEF Candidates, HasName
<1>5. Strays(p)' <=> Strays(p)
  BY <1>1, <1>2, <1>3, <1>4 DEF Strays
<1> QED
  BY <1>5, SplitsFixed

(* The candidates of an old phase are some of its items, of which there are finitely many. *)
LEMMA CandidatesFinite ==
  ASSUME MigrationTypeOK, NEW p
  PROVE  /\ IsFiniteSet(Candidates(phase_mapping, ItemsOf(phase_mapping, p)))
         /\ Candidates(phase_mapping, ItemsOf(phase_mapping, p)) \subseteq ItemsOf(phase_mapping, p)
<1> DEFINE chosen == Candidates(phase_mapping, ItemsOf(phase_mapping, p))
<1>1. chosen \subseteq ItemsOf(phase_mapping, p)
  BY DEF Candidates, HasName
<1>2. chosen \subseteq 1..Len(phase_mapping) /\ Len(phase_mapping) \in Nat
  BY <1>1 DEF ItemsOf, MigrationTypeOK
<1> HIDE DEF chosen
<1>3. IsFiniteSet(1..Len(phase_mapping))
  BY <1>2, FS_Interval
<1>4. IsFiniteSet(chosen)
  BY <1>2, <1>3, FS_Subset
<1> QED
  BY <1>1, <1>4 DEF chosen

(* The round of a phase that strays raises, *)
LEMMA StrayRaises ==
  ASSUME MigrationTypeOK, MapOldPhase, NEW p \in OldPhases, Strays(p),
         Item.old = p, FirstOf(phase_mapping, position)
  PROVE  Raise
<1> DEFINE chosen == Candidates(phase_mapping, ItemsOf(phase_mapping, p))
<1>1. position \in DOMAIN phase_mapping /\ Item = phase_mapping[position]
      /\ \A k \in DOMAIN phase_mapping : k \in Nat /\ k >= 1
  BY DEF MapOldPhase, MigrationTypeOK, Item
<1>2. PICK k \in DOMAIN phase_mapping : /\ phase_mapping[k].old = p
                                        /\ FirstOf(phase_mapping, k)
                                        /\ phase_mapping[k].type = "split"
  BY DEF Strays, IsSplit, ItemsOf
<1>3. ~(k < position) /\ ~(position < k)
  BY <1>1, <1>2 DEF FirstOf
<1>4. Item.type = "split" /\ p # None
  BY <1>1, <1>2, <1>3, MigrationAssumption
<1>5. InheritSplit(p)
  BY <1>4 DEF MapOldPhase, Identity
<1>6. PICK n : chosen = {n} /\ phase_mapping[n].new = None
  BY DEF Strays
<1>7. Cardinality(chosen) = 1
  BY <1>6, FS_Singleton
<1>8. Begun(old_status[p])
  BY DEF Strays
<1> HIDE DEF chosen
<1> QED
  BY <1>5, <1>6, <1>7, <1>8 DEF InheritSplit, chosen

(* and no other does. *)
LEMMA RaiseIsStray ==
  ASSUME MigrationTypeOK, MapOldPhase, Raise
  PROVE  \E p \in OldPhases : Strays(p)
<1> DEFINE p == Item.old
           chosen == Candidates(phase_mapping, ItemsOf(phase_mapping, p))
<1>1. position \in DOMAIN phase_mapping /\ Item = phase_mapping[position]
  BY DEF MapOldPhase, MigrationTypeOK, Item
<1>2. stage = "phase_mapping" /\ stage' = "raised"
  BY DEF MapOldPhase, At, Raise
<1>3. ~KeepNew /\ \A q, status, reasons : ~Give(q, status, reasons)
  BY <1>2 DEF KeepNew, Give, Advance
<1>4. \A why : ~StopMapping(Pause(why)) /\ ~StopMapping(EscalateFor(why))
  BY <1>2 DEF StopMapping, Pause, EscalateFor, Return
<1>5. \A q : ~InheritIdentity(p, q)
  BY <1>3, <1>4 DEF InheritIdentity, RouteFailed
<1>6. p # None /\ FirstOf(phase_mapping, position) /\ Item.type = "split" /\ InheritSplit(p)
  BY <1>3, <1>5 DEF MapOldPhase
<1>7. p \in OldPhases
  BY <1>1, <1>6, ItemShape DEF MigrationTypeOK
<1>8. IsSplit(phase_mapping, p)
  BY <1>1, <1>6 DEF IsSplit, ItemsOf
<1>9. PICK n \in chosen : /\ Begun(old_status[p]) /\ Cardinality(chosen) = 1
                          /\ phase_mapping[n].new = None
  BY <1>3, <1>6 DEF InheritSplit
<1>10. IsFiniteSet(chosen) /\ chosen \subseteq ItemsOf(phase_mapping, p)
  BY CandidatesFinite
<1>11. chosen = {n}
  <2> HIDE DEF chosen
  <2>1. PICK x : chosen = {x}
    BY <1>9, <1>10, FS_Singleton
  <2> QED
    BY <1>9, <2>1
<1>12. Strays(p)
  BY <1>8, <1>9, <1>10, <1>11 DEF Strays
<1> HIDE DEF p
<1> QED
  BY <1>7, <1>12

LEMMA StrayInvPreserved ==
  MigrationIInv /\ SplitInv /\ StrayInv /\ [MigrationNext]_migration_vars => StrayInv'
<1> SUFFICES ASSUME MigrationIInv, SplitInv, StrayInv, [MigrationNext]_migration_vars
             PROVE  StrayInv'
  OBVIOUS
<1>1. UNCHANGED arguments /\ MigrationTypeOK
  BY OtherStagesKeepPhases DEF MapOldPhase, MergeNewPhase, MigrationIInv
<1>2. \A p : (Strays(p)' <=> Strays(p)) /\ \A k : Decided(p, k)' <=> Decided(p, k)
  BY <1>1, StraysFixed
<1>3. outcome \in Outcomes => outcome # None
  BY MigrationAssumption
<1>4. stage # "returned" => ~Resumes
  BY <1>3 DEF MigrationIInv, NoAnswerYet, Resumes, Outcomes
<1> DEFINE stopped == /\ stage' = "returned"
                      /\ outcome' \in {"pause_migration", "escalate_migration"}
<1>5. CASE stopped
  BY <1>5 DEF StrayInv, CallEnds, Resumes, Outcomes
<1>6. ASSUME NEW why, StopMapping(Pause(why)) \/ StopMapping(EscalateFor(why))
      PROVE  stopped
  BY <1>6 DEF StopMapping, Pause, EscalateFor, Return
<1>7. CASE MapOldPhase /\ ~stopped
  <2>0. stage = "phase_mapping" /\ position \in DOMAIN phase_mapping
    BY <1>1, <1>7 DEF MapOldPhase, At, MigrationTypeOK
  <2>1. CASE Raise
    <3>1. (\E p \in OldPhases : Strays(p)) /\ stage' = "raised" /\ ~Resumes'
      BY <1>1, <1>4, <1>7, <2>0, <2>1, RaiseIsStray DEF Raise, Resumes, answer
    <3> QED
      BY <1>2, <3>1 DEF StrayInv, CallEnds
  <2>2. CASE ~Raise
    <3>1. stage' = "phase_mapping" /\ position' = position + 1 /\ ~Resumes'
      <4>1. KeepNew \/ \E q, status, reasons : Give(q, status, reasons)
        BY <1>1, <1>6, <1>7, <2>2, OldPhaseRoundGives
      <4> QED
        BY <1>4, <2>0, <4>1 DEF KeepNew, Give, Advance, answer, Resumes
    <3>2. ASSUME NEW p \in OldPhases, Strays(p) PROVE ~Decided(p, position + 1)
      <4>1. SUFFICES ASSUME Decided(p, position + 1) PROVE FALSE
        OBVIOUS
      <4>2. PICK n \in ItemsOf(phase_mapping, p) : FirstOf(phase_mapping, n) /\ n < position + 1
        BY <4>1 DEF Decided
      <4>3. ~(n < position)
        BY <2>0, <3>2, <4>2 DEF StrayInv, Decided
      <4>4. n = position
        BY <1>1, <2>0, <4>2, <4>3 DEF ItemsOf, MigrationTypeOK
      <4>5. Item.old = p
        BY <4>2, <4>4 DEF ItemsOf, Item
      <4> QED
        BY <1>1, <1>7, <2>2, <3>2, <4>2, <4>4, <4>5, StrayRaises
    <3>3. \A p \in OldPhases : Strays(p)' => ~Decided(p, position)'
      <4>1. \A p : Decided(p, position)' <=> Decided(p, position')
        BY <1>1 DEF arguments, Decided, ItemsOf, FirstOf
      <4> QED
        BY <1>2, <3>1, <3>2, <4>1
    <3> QED
      BY <3>1, <3>3 DEF StrayInv, CallEnds
  <2> QED
    BY <2>1, <2>2
<1>8. CASE EndOldPhases
  <2>1. /\ stage = "phase_mapping" /\ position > Len(phase_mapping)
        /\ stage' = "merge" /\ ~Resumes'
    BY <1>4, <1>8 DEF EndOldPhases, At, Goto, answer, Resumes
  <2>2. ASSUME NEW p \in OldPhases, Strays(p) PROVE FALSE
    <3>1. Decided(p, position)
      BY <1>1, <2>1, <2>2 DEF Strays, IsSplit, Decided, ItemsOf, MigrationTypeOK
    <3> QED
      BY <2>1, <2>2, <3>1 DEF StrayInv
  <2> QED
    BY <1>2, <2>1, <2>2 DEF StrayInv, CallEnds
<1>9. CASE CheckSplits /\ ~stopped
  <2>1. stage = "split_ambiguity" /\ stage' = "phase_mapping" /\ position' = position /\ ~Resumes'
    BY <1>4, <1>9 DEF CheckSplits, Check, At, Goto, Pause, Return, answer, Resumes
  <2>2. position = 1
    BY <2>1 DEF SplitInv, Unmapped
  <2>3. \A p \in OldPhases : ~Decided(p, 1)
    BY <1>1 DEF Decided, ItemsOf, MigrationTypeOK
  <2>4. \A p \in OldPhases : ~Decided(p, position)'
    <3>1. \A p : Decided(p, position)' <=> Decided(p, position')
      BY <1>1 DEF arguments, Decided, ItemsOf, FirstOf
    <3> QED
      BY <2>1, <2>2, <2>3, <3>1
  <2> QED
    BY <2>1, <2>4 DEF StrayInv, CallEnds
<1>10. CASE MergeNewPhase /\ ~stopped
  <2>1. stage = "merge" /\ stage' = "merge" /\ ~Resumes'
    <3>1. KeepNew \/ \E q, status, reasons : Give(q, status, reasons)
      BY <1>1, <1>6, <1>10, NewPhaseRoundGives
    <3> QED
      BY <1>4, <1>10, <3>1 DEF MergeNewPhase, At, KeepNew, Give, Advance, answer, Resumes
  <2> QED
    BY <1>2, <2>1 DEF StrayInv, CallEnds
<1>11. CASE UNCHANGED migration_vars
  <2>1. UNCHANGED <<stage, outcome, position, phase_mapping>>
    BY <1>11 DEF migration_vars, arguments, answer
  <2>2. \A p : Decided(p, position)' <=> Decided(p, position)
    BY <2>1 DEF Decided, ItemsOf, FirstOf
  <2> QED
    BY <1>2, <2>1, <2>2 DEF StrayInv, CallEnds, Resumes
<1>12. CASE /\ MigrationNext /\ ~MapOldPhase /\ ~EndOldPhases /\ ~CheckSplits /\ ~MergeNewPhase
            /\ ~stopped
  <2> DEFINE late == {"merge", "recompute", "guide_mapping", "resume_module", "resume_phase",
                      "finish"}
  <2>1. \/ stage' \in Unmapped /\ stage # "returned" /\ outcome' = outcome
        \/ stage \in late /\ stage' \in late /\ outcome' = outcome
        \/ stage \in late /\ stage' = "returned" /\ outcome' = "auto_resumed"
    BY <1>12 DEF MigrationNext, CheckMapping, Freeze, CheckAttempts, CheckStructure, EndNewPhases,
       Recompute, CheckGuides, ResolveResumeModule, ResolveResumePhase, Finish, Check, At, Goto,
       Return, Pause, EscalateFor, ResumeAt, Unmapped, answer
  <2>2. stage' = "returned" => outcome' = "auto_resumed"
    BY <2>1 DEF Unmapped
  <2> QED
    BY <1>2, <1>4, <2>1, <2>2 DEF StrayInv, CallEnds, Resumes, Unmapped, Outcomes
<1> QED
  BY <1>5, <1>7, <1>8, <1>9, <1>10, <1>11, <1>12

(* For every overview and mapping: a call that has returned has an answer; it raises only over a    *)
(* begun phase whose split would go on in an item without a new phase; and with such a phase it     *)
(* never resumes.  The safety half of what MigrationReturns says of the end of a call.              *)
THEOREM OnlyStraysRaise == MigrationSpec => []CallEnds
<1>1. MigrationInit => StrayInv /\ SplitInv
  BY MigrationAssumption
     DEF MigrationInit, StrayInv, CallEnds, SplitInv, SplitsChecked, Unmapped, Untouched, PartsOf,
         Resumes, Outcomes
<1>2. StrayInv => CallEnds
  BY DEF StrayInv
<1>3. MigrationIInv => MigrationTypeOK /\ NoAnswerYet
  BY DEF MigrationIInv
<1> QED
  BY <1>1, <1>2, <1>3, StrayInvPreserved, SplitInvPreserved, MigrationInductive, PTL
  DEF MigrationSpec

-------------------------------------------------------------------------------
(* The rest of MigrationReturns, up to ENABLED: some step is always possible until the call has   *)
(* ended.  HandsOn gives every variable the call assigns one value, so that there is a state   *)
(* it leads to whatever that value is; Moves are the values the code may hand on.                 *)

Held == [stage |-> stage, position |-> position, outcome |-> outcome, reason |-> reason,
         guides |-> live_guides, stamps |-> frozen_by, status |-> new_status,
         reasons |-> new_reasons, modules |-> module_status, obsolete |-> obsolete,
         module |-> resume_module_id, phase |-> resume_phase_id,
         guide |-> new_guide, linked |-> relinked_to]

HandsOn(n) == /\ stage' = n.stage
              /\ position' = n.position
              /\ outcome' = n.outcome
              /\ reason' = n.reason
              /\ live_guides' = n.guides
              /\ frozen_by' = n.stamps
              /\ new_status' = n.status
              /\ new_reasons' = n.reasons
              /\ module_status' = n.modules
              /\ obsolete' = n.obsolete
              /\ resume_module_id' = n.module
              /\ resume_phase_id' = n.phase
              /\ new_guide' = n.guide
              /\ relinked_to' = n.linked
              /\ UNCHANGED arguments

Onto(s) == [Held EXCEPT !.stage = s]
Ended(kind, why) == [Held EXCEPT !.stage = "returned", !.outcome = kind, !.reason = why]
Kept == [Held EXCEPT !.position = position + 1]
Given(q, status, reasons) ==
  [Kept EXCEPT !.status = [new_status EXCEPT ![q] = status],
               !.reasons = [new_reasons EXCEPT ![q] = reasons]]
Stopped(kind, why) ==
  [Ended(kind, why) EXCEPT !.status = [q \in NewPhases |-> "not_started"],
                           !.reasons = [q \in NewPhases |-> {}]]

(* What one round over the old phases makes of a new one, *)
FailedGives(p, q) ==
  IF "repaired" \in ReasonsFor(p) THEN Given(q, "not_started", {})
  ELSE IF "still_broken" \in ReasonsFor(p)
  THEN Stopped("escalate_migration", "failed_phase_still_broken")
  ELSE Stopped("pause_migration", "failed_phase_repair_indeterminate")
IdentityGives(p, q) ==
  CASE <<p, q>> \notin Preserving -> Kept
    [] <<p, q>> \in Preserving /\ old_status[p] = "failed" -> FailedGives(p, q)
    [] <<p, q>> \in Preserving /\ Begun(old_status[p]) -> Given(q, old_status[p], new_reasons[q])
    [] <<p, q>> \in Preserving /\ old_status[p] = "blocked" /\ WaitsOnly(old_reasons[p]) ->
         Given(q, "blocked", old_reasons[p])
    [] OTHER -> Kept
ContinuedIn(p, q) == IF q = None THEN Onto("raised") ELSE Given(q, old_status[p], new_reasons[q])
SplitGives(p) ==
  LET chosen == Candidates(phase_mapping, ItemsOf(phase_mapping, p)) IN
  IF Begun(old_status[p]) /\ Cardinality(chosen) = 1
  THEN {ContinuedIn(p, phase_mapping[n].new) : n \in chosen}
  ELSE {Kept}
OldPhaseGives ==
  IF Item.old # None /\ FirstOf(phase_mapping, position) /\ Item.type \in Identity \cup {"split"}
  THEN IF Item.type = "split" THEN SplitGives(Item.old) ELSE {IdentityGives(Item.old, Item.new)}
  ELSE {Kept}

(* and what one over the new phases does. *)
MergeGives(q) ==
  LET some(status) == \E p \in Sources(q) : old_status[p] = status
      conflict == \E p \in Sources(q) : /\ old_status[p] \in {"blocked", "failed"}
                                        /\ ~WaitsOnly(old_reasons[p])
      waits == \E p \in Sources(q) : old_status[p] = "blocked" /\ WaitsOnly(old_reasons[p])
  IN CASE conflict -> Stopped("escalate_migration", "merged_phase_conflict")
       [] ~conflict /\ waits /\ some("failed") ->
            Stopped("pause_migration", "merged_phase_ambiguous")
       [] ~conflict /\ ~(waits /\ some("failed")) ->
            IF Sources(q) # {} /\ \A p \in Sources(q) : old_status[p] = "done"
            THEN Given(q, "done", new_reasons[q])
            ELSE IF some("done") \/ some("in_progress") \/ some("blocked")
            THEN Given(q, "in_progress", new_reasons[q])
            ELSE Kept
NewPhaseGives ==
  IF Item.new # None /\ FirstFor(position) /\ Item.type = "merged"
  THEN MergeGives(Item.new) ELSE Kept

(* The modules, and the phases of the chosen one, that the run may resume at. *)
FirstModules ==
  {ModuleOrder[n] : n \in {k \in DOMAIN ModuleOrder :
                             /\ ModuleOrder[k] \in ResumeGroup
                             /\ \A l \in 1..(k - 1) : ModuleOrder[l] \notin ResumeGroup}}
FirstPhases ==
  LET before == Predecessors(resume_module_id)
  IN {q \in NewPhases : Leads(q, IF before # {} THEN before ELSE PhaseGroup(resume_module_id))}

Unless(stops, ended, next) == {IF stops THEN ended ELSE Onto(next)}

Moves ==
  CASE stage = "mapping_check" ->
         Unless(~CompleteMapping, Ended("pause_migration", "incomplete_mapping"), "freeze")
    [] stage = "freeze" ->
         {[Onto("attempt_conflict") EXCEPT !.guides = {},
             !.stamps = [a \in Attempts |-> IF attempt_status[a] \in ActiveStatuses
                                            THEN "this" ELSE frozen_by[a]]]}
    [] stage = "attempt_conflict" ->
         Unless(ActiveAttemptConflict, Ended("escalate_migration", "active_attempt_conflict"),
                "structure")
    [] stage = "structure" ->
         Unless(~(dependencies \subseteq NewModules),
                Ended("escalate_migration", "undeclared_dependency_still_present"),
                "split_ambiguity")
    [] stage = "split_ambiguity" ->
         Unless(SplitAmbiguity, Ended("pause_migration", "split_coverage_ambiguous"),
                "phase_mapping")
    [] stage = "phase_mapping" ->
         IF position <= Len(phase_mapping) THEN OldPhaseGives
         ELSE {[Onto("merge") EXCEPT !.position = 1]}
    [] stage = "merge" ->
         IF position <= Len(phase_mapping) THEN {NewPhaseGives} ELSE {Onto("recompute")}
    [] stage = "recompute" ->
         {[Onto("guide_mapping") EXCEPT
             !.obsolete = Removed(module_mapping) \cup Removed(phase_mapping),
             !.modules = [m \in NewModules |-> RecomputedStatus(PhasesOf(m), new_status)]]}
    [] stage = "guide_mapping" ->
         Unless(UnmappableGuide, Ended("pause_migration", "guide_mapping_not_unique"),
                "resume_module")
    [] stage = "resume_module" ->
         IF ResumeGroup = {} THEN {Ended("escalate_migration", "no_legal_continuation_point")}
         ELSE {[Onto("resume_phase") EXCEPT !.module = m] : m \in FirstModules}
    [] stage = "resume_phase" ->
         {IF OneOfSeveral(q, Predecessors(resume_module_id))
          THEN Ended("pause_migration", "ambiguous_resume_phase")
          ELSE [Onto("finish") EXCEPT !.phase = q] : q \in FirstPhases}
    [] OTHER ->
         {[Ended("auto_resumed", "auto_resumed") EXCEPT
             !.guide = resume_phase_id, !.linked = resume_phase_id,
             !.stamps = [a \in Attempts |-> IF frozen_by[a] = None THEN "this" ELSE frozen_by[a]]]}

LEMMA HandedOnto ==
  ASSUME NEW s, HandsOn(Onto(s))
  PROVE  Goto(s) /\ UNCHANGED <<arguments, position, frozen, phases, migrated, resumed, created>>
BY DEF HandsOn, Onto, Held, Goto, answer, frozen, phases, migrated, resumed, created

LEMMA HandedEnd ==
  ASSUME NEW kind, NEW why, HandsOn(Ended(kind, why))
  PROVE  /\ Return(kind, why)
         /\ UNCHANGED <<arguments, position, frozen, phases, migrated, resumed, created>>
BY DEF HandsOn, Ended, Held, Return, frozen, phases, migrated, resumed, created

LEMMA HandedKept ==
  ASSUME HandsOn(Kept)
  PROVE  KeepNew /\ UNCHANGED <<arguments, frozen, migrated, resumed, created>>
BY DEF HandsOn, Kept, Held, KeepNew, Advance, answer, frozen, phases, migrated, resumed, created

LEMMA HandedGiven ==
  ASSUME NEW q, NEW status, NEW reasons, HandsOn(Given(q, status, reasons))
  PROVE  Give(q, status, reasons) /\ UNCHANGED <<arguments, frozen, migrated, resumed, created>>
BY DEF HandsOn, Given, Kept, Held, Give, Advance, answer, frozen, migrated, resumed, created

LEMMA HandedStop ==
  ASSUME NEW kind, NEW why, HandsOn(Stopped(kind, why))
  PROVE  /\ StopMapping(Return(kind, why))
         /\ UNCHANGED <<arguments, frozen, migrated, resumed, created>>
BY DEF HandsOn, Stopped, Ended, Held, StopMapping, Return, frozen, migrated, resumed, created

(* What the rounds are given to hand on are the rounds of Migration. *)
LEMMA FailedMoves ==
  ASSUME NEW p, NEW q, HandsOn(FailedGives(p, q))
  PROVE  RouteFailed(p, q) /\ UNCHANGED <<arguments, frozen, migrated, resumed, created>>
<1>1. CASE "repaired" \in ReasonsFor(p)
  BY <1>1, HandedGiven DEF FailedGives, RouteFailed
<1>2. CASE "repaired" \notin ReasonsFor(p) /\ "still_broken" \in ReasonsFor(p)
  BY <1>2, HandedStop DEF FailedGives, RouteFailed, EscalateFor
<1>3. CASE "repaired" \notin ReasonsFor(p) /\ "still_broken" \notin ReasonsFor(p)
  BY <1>3, HandedStop DEF FailedGives, RouteFailed, Pause
<1> QED
  BY <1>1, <1>2, <1>3

LEMMA IdentityMoves ==
  ASSUME MigrationTypeOK, NEW p \in OldPhases, NEW q, HandsOn(IdentityGives(p, q))
  PROVE  InheritIdentity(p, q) /\ UNCHANGED <<arguments, frozen, migrated, resumed, created>>
<1>1. old_status[p] \in PhaseStatuses
  BY DEF MigrationTypeOK
<1>2. CASE <<p, q>> \notin Preserving
  BY <1>2, HandedKept DEF IdentityGives, InheritIdentity
<1>3. CASE <<p, q>> \in Preserving /\ old_status[p] = "failed"
  BY <1>3, FailedMoves DEF IdentityGives, InheritIdentity, Begun
<1>4. CASE <<p, q>> \in Preserving /\ Begun(old_status[p])
  BY <1>4, HandedGiven DEF IdentityGives, InheritIdentity, Begun
<1>5. CASE <<p, q>> \in Preserving /\ old_status[p] = "blocked" /\ WaitsOnly(old_reasons[p])
  BY <1>5, HandedGiven DEF IdentityGives, InheritIdentity, Begun
<1>6. CASE /\ <<p, q>> \in Preserving
           /\ old_status[p] = "not_started" \/ (old_status[p] = "blocked" /\ ~WaitsOnly(old_reasons[p]))
  BY <1>6, HandedKept DEF IdentityGives, InheritIdentity, Begun
<1> QED
  BY <1>1, <1>2, <1>3, <1>4, <1>5, <1>6 DEF PhaseStatuses, Begun

LEMMA SplitMoves ==
  ASSUME NEW p, NEW n \in SplitGives(p), HandsOn(n)
  PROVE  InheritSplit(p) /\ UNCHANGED <<arguments, frozen, migrated, resumed, created>>
<1> DEFINE chosen == Candidates(phase_mapping, ItemsOf(phase_mapping, p))
           continues == Begun(old_status[p]) /\ Cardinality(chosen) = 1
<1>1. CASE continues
  <2>1. PICK k \in chosen : n = ContinuedIn(p, phase_mapping[k].new)
    BY <1>1 DEF SplitGives
  <2> DEFINE q == phase_mapping[k].new
  <2>2. CASE q # None
    <3>1. /\ Give(q, old_status[p], new_reasons[q])
          /\ UNCHANGED <<arguments, frozen, migrated, resumed, created>>
      BY <2>1, <2>2, HandedGiven DEF ContinuedIn
    <3> QED
      BY <1>1, <2>2, <3>1 DEF InheritSplit
  <2>3. CASE q = None
    <3>1. Raise /\ UNCHANGED <<arguments, frozen, migrated, resumed, created>>
      BY <2>1, <2>3, HandedOnto DEF ContinuedIn, Raise, Goto
    <3> QED
      BY <1>1, <2>3, <3>1 DEF InheritSplit
  <2> QED
    BY <2>2, <2>3
<1>2. CASE ~continues
  BY <1>2, HandedKept DEF SplitGives, InheritSplit
<1> QED
  BY <1>1, <1>2

LEMMA OldPhaseMoves ==
  ASSUME MigrationTypeOK, stage = "phase_mapping", position <= Len(phase_mapping),
         NEW n \in OldPhaseGives, HandsOn(n)
  PROVE  MapOldPhase
<1> DEFINE heads == Item.old # None /\ FirstOf(phase_mapping, position)
<1>1. position \in DOMAIN phase_mapping /\ phase_mapping \in Seq(ItemsOver(OldPhases, NewPhases, NewModules))
  BY DEF MigrationTypeOK
<1>2. Item.old # None => Item.old \in OldPhases
  BY <1>1, ItemShape DEF Item
<1>3. CASE heads /\ Item.type \in Identity
  <2>1. n = IdentityGives(Item.old, Item.new)
    BY <1>3 DEF OldPhaseGives, Identity
  <2> QED
    BY <1>2, <1>3, <2>1, IdentityMoves DEF MapOldPhase, At
<1>4. CASE heads /\ Item.type = "split"
  <2>1. n \in SplitGives(Item.old)
    BY <1>4 DEF OldPhaseGives
  <2> QED
    BY <1>4, <2>1, SplitMoves DEF MapOldPhase, At
<1>5. CASE ~(heads /\ Item.type \in Identity \cup {"split"})
  <2>1. n = Kept
    BY <1>5 DEF OldPhaseGives
  <2> QED
    BY <1>5, <2>1, HandedKept DEF MapOldPhase, At
<1> QED
  BY <1>3, <1>4, <1>5

LEMMA MergeMoves ==
  ASSUME NEW q, HandsOn(MergeGives(q))
  PROVE  Merge(q) /\ UNCHANGED <<arguments, frozen, migrated, resumed, created>>
<1> DEFINE conflict == \E p \in Sources(q) : /\ old_status[p] \in {"blocked", "failed"}
                                             /\ ~WaitsOnly(old_reasons[p])
           waits == \E p \in Sources(q) : old_status[p] = "blocked" /\ WaitsOnly(old_reasons[p])
           failed == \E p \in Sources(q) : old_status[p] = "failed"
           done == Sources(q) # {} /\ \A p \in Sources(q) : old_status[p] = "done"
           begun == \E p \in Sources(q) : old_status[p] \in {"done", "in_progress", "blocked"}
<1>1. CASE conflict
  BY <1>1, HandedStop DEF MergeGives, Merge, EscalateFor
<1>2. CASE ~conflict /\ waits /\ failed
  BY <1>2, HandedStop DEF MergeGives, Merge, Pause
<1>3. CASE ~conflict /\ ~(waits /\ failed)
  <2>1. CASE done
    BY <1>3, <2>1, HandedGiven DEF MergeGives, Merge, MergeStatus
  <2>2. CASE ~done /\ begun
    <3>1. MergeGives(q) = Given(q, "in_progress", new_reasons[q])
      BY <1>3, <2>2 DEF MergeGives
    <3> QED
      BY <1>3, <2>2, <3>1, HandedGiven DEF Merge, MergeStatus
  <2>3. CASE ~done /\ ~begun
    <3>1. MergeGives(q) = Kept
      BY <1>3, <2>3 DEF MergeGives
    <3> QED
      BY <1>3, <2>3, <3>1, HandedKept DEF Merge, MergeStatus
  <2> QED
    BY <2>1, <2>2, <2>3
<1> QED
  BY <1>1, <1>2, <1>3

LEMMA NewPhaseMoves ==
  ASSUME stage = "merge", position <= Len(phase_mapping), HandsOn(NewPhaseGives)
  PROVE  MergeNewPhase
<1> DEFINE heads == Item.new # None /\ FirstFor(position)
<1>1. CASE heads /\ Item.type = "merged"
  BY <1>1, MergeMoves DEF NewPhaseGives, MergeNewPhase, At
<1>2. CASE ~(heads /\ Item.type = "merged")
  BY <1>2, HandedKept DEF NewPhaseGives, MergeNewPhase, At
<1> QED
  BY <1>1, <1>2

LEMMA MovesAreSteps ==
  ASSUME MigrationTypeOK, stage \notin {"returned", "raised"}, NEW n \in Moves, HandsOn(n)
  PROVE  MigrationNext
<1> USE DEF At
<1>0. position \in Nat /\ Len(phase_mapping) \in Nat
  BY DEF MigrationTypeOK
<1>1. ASSUME NEW stops \in BOOLEAN, NEW kind, NEW why, NEW next, NEW s, stage = s,
             n \in Unless(stops, Ended(kind, why), next)
      PROVE  Check(s, stops, Return(kind, why), next)
  <2>1. CASE stops
    BY <1>1, <2>1, HandedEnd DEF Unless, Check
  <2>2. CASE ~stops
    BY <1>1, <2>2, HandedOnto DEF Unless, Check
  <2> QED
    BY <2>1, <2>2
<1>2. CASE stage = "mapping_check"
  <2>1. n \in Unless(~CompleteMapping, Ended("pause_migration", "incomplete_mapping"), "freeze")
    BY <1>2 DEF Moves
  <2> QED
    BY <1>1, <1>2, <2>1 DEF CheckMapping, Pause, MigrationNext
<1>3. CASE stage = "freeze"
  BY <1>3 DEF Moves, HandsOn, Onto, Held, Freeze, MigrationNext, Goto, answer, phases, migrated,
              resumed, created
<1>4. CASE stage = "attempt_conflict"
  <2>1. /\ n \in Unless(ActiveAttemptConflict,
                        Ended("escalate_migration", "active_attempt_conflict"), "structure")
        /\ ActiveAttemptConflict \in BOOLEAN
    BY <1>4 DEF Moves, ActiveAttemptConflict
  <2> QED
    BY <1>1, <1>4, <2>1 DEF CheckAttempts, EscalateFor, MigrationNext
<1>5. CASE stage = "structure"
  <2>1. n \in Unless(~(dependencies \subseteq NewModules),
                     Ended("escalate_migration", "undeclared_dependency_still_present"),
                     "split_ambiguity")
    BY <1>5 DEF Moves
  <2> QED
    BY <1>1, <1>5, <2>1 DEF CheckStructure, EscalateFor, MigrationNext
<1>6. CASE stage = "split_ambiguity"
  <2>1. /\ n \in Unless(SplitAmbiguity, Ended("pause_migration", "split_coverage_ambiguous"),
                        "phase_mapping")
        /\ SplitAmbiguity \in BOOLEAN
    BY <1>6 DEF Moves, SplitAmbiguity
  <2> QED
    BY <1>1, <1>6, <2>1 DEF CheckSplits, Pause, MigrationNext
<1>7. CASE stage = "phase_mapping"
  <2>1. CASE position <= Len(phase_mapping)
    BY <1>7, <2>1, OldPhaseMoves DEF Moves, MigrationNext
  <2>2. CASE position > Len(phase_mapping)
    <3>1. n = [Onto("merge") EXCEPT !.position = 1]
      BY <1>0, <1>7, <2>2 DEF Moves
    <3> QED
      BY <1>7, <2>2, <3>1 DEF HandsOn, Onto, Held, EndOldPhases, MigrationNext, Goto, answer,
                              frozen, phases, migrated, resumed, created
  <2> QED
    BY <1>0, <2>1, <2>2
<1>8. CASE stage = "merge"
  <2>1. CASE position <= Len(phase_mapping)
    BY <1>8, <2>1, NewPhaseMoves DEF Moves, MigrationNext
  <2>2. CASE position > Len(phase_mapping)
    <3>1. n = Onto("recompute")
      BY <1>0, <1>8, <2>2 DEF Moves
    <3> QED
      BY <1>8, <2>2, <3>1, HandedOnto DEF EndNewPhases, MigrationNext
  <2> QED
    BY <1>0, <2>1, <2>2
<1>9. CASE stage = "recompute"
  BY <1>9 DEF Moves, HandsOn, Onto, Held, Recompute, MigrationNext, Goto, answer, frozen, phases,
              resumed, created
<1>10. CASE stage = "guide_mapping"
  <2>1. /\ n \in Unless(UnmappableGuide, Ended("pause_migration", "guide_mapping_not_unique"),
                        "resume_module")
        /\ UnmappableGuide \in BOOLEAN
    BY <1>10 DEF Moves, UnmappableGuide
  <2> QED
    BY <1>1, <1>10, <2>1 DEF CheckGuides, Pause, MigrationNext
<1>11. CASE stage = "resume_module"
  <2>1. CASE ResumeGroup = {}
    <3>1. n = Ended("escalate_migration", "no_legal_continuation_point")
      BY <1>11, <2>1 DEF Moves
    <3> QED
      BY <1>11, <2>1, <3>1, HandedEnd DEF ResolveResumeModule, EscalateFor, MigrationNext, resumed
  <2>2. CASE ResumeGroup # {}
    <3>1. PICK m \in FirstModules : n = [Onto("resume_phase") EXCEPT !.module = m]
      BY <1>11, <2>2 DEF Moves
    <3>2. /\ resume_module_id' = m
          /\ Goto("resume_phase")
          /\ UNCHANGED <<arguments, position, frozen, phases, migrated, resume_phase_id, created>>
      BY <3>1 DEF HandsOn, Onto, Held, Goto, answer, frozen, phases, migrated, created
    <3> QED
      BY <1>11, <3>2 DEF FirstModules, ResolveResumeModule, MigrationNext
  <2> QED
    BY <2>1, <2>2
<1>12. CASE stage = "resume_phase"
  <2> DEFINE before == Predecessors(resume_module_id)
             Onward(q) == IF OneOfSeveral(q, before)
                          THEN Ended("pause_migration", "ambiguous_resume_phase")
                          ELSE [Onto("finish") EXCEPT !.phase = q]
  <2>1. PICK q \in FirstPhases : n = Onward(q)
    BY <1>12 DEF Moves
  <2>2. /\ q \in NewPhases
        /\ Leads(q, IF before # {} THEN before ELSE PhaseGroup(resume_module_id))
    BY DEF FirstPhases
  <2>3. before = {} => ~OneOfSeveral(q, before)
    BY DEF OneOfSeveral
  <2>4. CASE OneOfSeveral(q, before)
    <3>1. n = Ended("pause_migration", "ambiguous_resume_phase")
      BY <2>1, <2>4
    <3>2. Pause("ambiguous_resume_phase") /\ UNCHANGED resume_phase_id
      BY <3>1, HandedEnd DEF Pause, resumed
    <3>3. UNCHANGED <<arguments, position, frozen, phases, migrated, resume_module_id, created>>
      BY <3>1, HandedEnd DEF resumed
    <3> QED
      BY <1>12, <2>2, <2>3, <2>4, <3>2, <3>3 DEF ResolveResumePhase, MigrationNext
  <2>5. CASE ~OneOfSeveral(q, before)
    <3>1. n = [Onto("finish") EXCEPT !.phase = q]
      BY <2>1, <2>5
    <3>2. /\ ResumeAt(q)
          /\ UNCHANGED <<arguments, position, frozen, phases, migrated, resume_module_id, created>>
      BY <3>1 DEF HandsOn, Onto, Held, Goto, ResumeAt, answer, frozen, phases, migrated, created
    <3> QED
      BY <1>12, <2>2, <2>5, <3>2 DEF ResolveResumePhase, MigrationNext
  <2> QED
    BY <2>4, <2>5
<1>13. CASE stage = "finish"
  BY <1>13 DEF Moves, HandsOn, Ended, Held, Finish, MigrationNext, Return, phases, migrated, resumed
<1> QED
  BY <1>2, <1>3, <1>4, <1>5, <1>6, <1>7, <1>8, <1>9, <1>10, <1>11, <1>12, <1>13
  DEF MigrationTypeOK, Stages

(* A set of numbers has a least one. *)
LEMMA LeastPlace ==
  ASSUME NEW places \in SUBSET Nat, places # {}
  PROVE  \E n \in places : \A k \in places : n <= k
<1>1. PICK n \in places : \A k \in places : ~(<<k, n>> \in OpToRel(<, Nat))
  BY WFMin, NatLessThanWellFounded
<1>2. \A k \in places : ~(k < n)
  BY <1>1 DEF OpToRel
<1> QED
  BY <1>2

(* A group of modules that is not empty has exactly one that is first. *)
LEMMA OneModuleIsFirst ==
  ASSUME ResumeGroup # {}
  PROVE  \E m : FirstModules = {m}
<1> DEFINE places == {n \in DOMAIN ModuleOrder : ModuleOrder[n] \in ResumeGroup}
<1>1. ModuleOrder \in Seq(NewModules) /\ DOMAIN ModuleOrder = 1..Len(ModuleOrder)
      /\ Len(ModuleOrder) \in Nat
  BY MigrationAssumption
<1>2. ResumeGroup \subseteq NewModules
  <2>1. \A m \in ResumeGroup : \E q \in NewPhases : m = NewModuleOf[q]
    BY DEF ResumeGroup
  <2> QED
    BY <2>1, MigrationAssumption
<1>3. places \in SUBSET Nat /\ places # {}
  BY <1>1, <1>2, MigrationAssumption
<1>4. PICK n \in places : \A k \in places : n <= k
  BY <1>3, LeastPlace
<1>5. \A k \in places : (\A l \in 1..(k - 1) : ModuleOrder[l] \notin ResumeGroup) <=> k = n
  <2>1. SUFFICES ASSUME NEW k \in places
                 PROVE  (\A l \in 1..(k - 1) : ModuleOrder[l] \notin ResumeGroup) <=> k = n
    OBVIOUS
  <2>2. k \in 1..Len(ModuleOrder) /\ n \in 1..Len(ModuleOrder) /\ n <= k
        /\ ModuleOrder[n] \in ResumeGroup
    BY <1>1, <1>4, <2>1
  <2>3. \A l \in 1..(n - 1) : ModuleOrder[l] \notin ResumeGroup
    <3>1. SUFFICES ASSUME NEW l \in 1..(n - 1), ModuleOrder[l] \in ResumeGroup PROVE FALSE
      OBVIOUS
    <3>2. l \in places /\ l < n
      BY <1>1, <2>2, <3>1
    <3> QED
      BY <1>4, <2>2, <3>2
  <2>4. k # n => n \in 1..(k - 1)
    BY <2>2
  <2> QED
    BY <2>2, <2>3, <2>4
<1>6. FirstModules = {ModuleOrder[n]}
  BY <1>4, <1>5 DEF FirstModules
<1> QED
  BY <1>6

(* Phases of one module are never tied: at most one of them leads. *)
LEMMA OnePhaseLeads ==
  ASSUME NEW m \in NewModules, NEW set \in SUBSET PhasesOf(m), NEW q, NEW r,
         Leads(q, set), Leads(r, set)
  PROVE  q = r
<1>1. q \in NewPhases /\ r \in NewPhases /\ NewModuleOf[q] = m /\ NewModuleOf[r] = m
      /\ q \in set /\ r \in set
  BY DEF Leads, PhasesOf
<1>2. PICK i \in DOMAIN PhaseOrder[m] : PhaseOrder[m][i] = q
  BY <1>1, MigrationAssumption
<1>3. PICK k \in DOMAIN PhaseOrder[m] : PhaseOrder[m][k] = r
  BY <1>1, MigrationAssumption
<1>4. PhaseOrder[m] \in Seq(NewPhases)
  BY MigrationAssumption
<1>5. i \in Nat /\ k \in Nat
  BY <1>2, <1>3, <1>4
<1>6. ~(i < k)
  BY <1>1, <1>2, <1>3 DEF Leads, Precedes
<1>7. ~(k < i)
  BY <1>1, <1>2, <1>3 DEF Leads, Precedes
<1> QED
  BY <1>2, <1>3, <1>5, <1>6, <1>7

(* Until the call has ended there is one move: no stage is without a choice or has two. *)
LEMMA OneMove ==
  ASSUME MigrationTypeOK, ModuleChosen, stage \notin {"returned", "raised"}
  PROVE  \E n : Moves = {n}
<1>0. position \in Nat /\ Len(phase_mapping) \in Nat
  BY DEF MigrationTypeOK
<1>1. CASE stage \in {"mapping_check", "attempt_conflict", "structure", "split_ambiguity",
                      "guide_mapping", "freeze", "recompute", "finish"}
  BY <1>1 DEF Moves, Unless
<1>2. CASE stage = "phase_mapping" /\ position <= Len(phase_mapping)
  <2>1. Moves = OldPhaseGives
    BY <1>2 DEF Moves
  <2>2. \E n : SplitGives(Item.old) = {n}
    <3> DEFINE chosen == Candidates(phase_mapping, ItemsOf(phase_mapping, Item.old))
               continues == Begun(old_status[Item.old]) /\ Cardinality(chosen) = 1
    <3>1. CASE continues
      <4>2. IsFiniteSet(chosen)
        BY CandidatesFinite
      <4> HIDE DEF chosen
      <4>3. PICK k : chosen = {k}
        BY <3>1, <4>2, FS_Singleton
      <4> QED
        BY <3>1, <4>3 DEF SplitGives, chosen
    <3>2. CASE ~continues
      BY <3>2 DEF SplitGives
    <3> QED
      BY <3>1, <3>2
  <2> QED
    BY <2>1, <2>2 DEF OldPhaseGives
<1>3. CASE stage = "phase_mapping" /\ ~(position <= Len(phase_mapping))
  BY <1>3 DEF Moves
<1>4. CASE stage = "merge"
  BY <1>4 DEF Moves
<1>5. CASE stage = "resume_module"
  <2>1. CASE ResumeGroup = {}
    BY <1>5, <2>1 DEF Moves
  <2>2. CASE ResumeGroup # {}
    <3> DEFINE Chosen(m) == [Onto("resume_phase") EXCEPT !.module = m]
    <3>1. Moves = {Chosen(m) : m \in FirstModules}
      BY <1>5, <2>2 DEF Moves
    <3> HIDE DEF Chosen
    <3>2. PICK m : FirstModules = {m}
      BY <2>2, OneModuleIsFirst
    <3>3. Moves = {Chosen(m)}
      BY <3>1, <3>2
    <3> QED
      BY <3>3
  <2> QED
    BY <2>1, <2>2
<1>6. CASE stage = "resume_phase"
  <2> DEFINE m == resume_module_id
             set == IF Predecessors(m) # {} THEN Predecessors(m) ELSE PhaseGroup(m)
  <2>1. m \in NewModules /\ m \in ResumeGroup
    BY <1>6 DEF ModuleChosen
  <2>2. /\ Predecessors(m) \subseteq PhasesOf(m)
        /\ PhaseGroup(m) # {} /\ PhaseGroup(m) \subseteq PhasesOf(m)
        /\ PhasesOf(m) \subseteq NewPhases
    BY <2>1, PredecessorsInModule, ChosenModuleHasPhase DEF PhasesOf
  <2>3. set \in SUBSET PhasesOf(m) /\ set # {}
    BY <2>2
  <2>4. FirstPhases = {q \in NewPhases : Leads(q, set)}
    BY DEF FirstPhases
  <2> HIDE DEF m, set
  <2>5. PICK q \in set : Leads(q, set)
    BY <2>1, <2>3, SomePhaseLeads
  <2>6. \A r \in NewPhases : Leads(r, set) => r = q
    BY <2>1, <2>3, <2>5, OnePhaseLeads
  <2>7. FirstPhases = {q}
    BY <2>2, <2>3, <2>4, <2>5, <2>6
  <2> DEFINE Onward(r) == IF OneOfSeveral(r, Predecessors(resume_module_id))
                          THEN Ended("pause_migration", "ambiguous_resume_phase")
                          ELSE [Onto("finish") EXCEPT !.phase = r]
  <2>8. Moves = {Onward(r) : r \in FirstPhases}
    BY <1>6 DEF Moves
  <2> HIDE DEF Onward
  <2>9. Moves = {Onward(q)}
    BY <2>7, <2>8
  <2> QED
    BY <2>9
<1> QED
  BY <1>1, <1>2, <1>3, <1>4, <1>5, <1>6 DEF MigrationTypeOK, Stages

(* The way back: what the actions assign is what is handed on. *)
LEMMA OntoHanded ==
  ASSUME NEW s, Goto(s),
         UNCHANGED <<arguments, position, frozen, phases, migrated, resumed, created>>
  PROVE  HandsOn(Onto(s))
BY DEF HandsOn, Onto, Held, Goto, answer, frozen, phases, migrated, resumed, created

LEMMA EndHanded ==
  ASSUME NEW kind, NEW why, Return(kind, why),
         UNCHANGED <<arguments, position, frozen, phases, migrated, resumed, created>>
  PROVE  HandsOn(Ended(kind, why))
BY DEF HandsOn, Ended, Held, Return, frozen, phases, migrated, resumed, created

LEMMA KeptHanded ==
  ASSUME KeepNew, UNCHANGED <<arguments, frozen, migrated, resumed, created>>
  PROVE  HandsOn(Kept)
BY DEF HandsOn, Kept, Held, KeepNew, Advance, answer, frozen, phases, migrated, resumed, created

LEMMA GivenHanded ==
  ASSUME NEW q, NEW status, NEW reasons, Give(q, status, reasons),
         UNCHANGED <<arguments, frozen, migrated, resumed, created>>
  PROVE  HandsOn(Given(q, status, reasons))
BY DEF HandsOn, Given, Kept, Held, Give, Advance, answer, frozen, migrated, resumed, created

LEMMA StopHanded ==
  ASSUME NEW kind, NEW why, StopMapping(Return(kind, why)),
         UNCHANGED <<arguments, frozen, migrated, resumed, created>>
  PROVE  HandsOn(Stopped(kind, why))
BY DEF HandsOn, Stopped, Ended, Held, StopMapping, Return, frozen, migrated, resumed, created

LEMMA MovesOldPhase ==
  ASSUME MigrationTypeOK, MapOldPhase
  PROVE  \E n \in OldPhaseGives : HandsOn(n)
<1> DEFINE heads == Item.old # None /\ FirstOf(phase_mapping, position)
<1>1. /\ position \in DOMAIN phase_mapping
      /\ phase_mapping \in Seq(ItemsOver(OldPhases, NewPhases, NewModules))
      /\ UNCHANGED <<arguments, frozen, migrated, resumed, created>>
  BY DEF MigrationTypeOK, MapOldPhase
<1>2. CASE ~(heads /\ Item.type \in Identity \cup {"split"}) /\ KeepNew
  <2>1. OldPhaseGives = {Kept}
    BY <1>2 DEF OldPhaseGives
  <2> QED
    BY <1>1, <1>2, <2>1, KeptHanded
<1>3. CASE heads /\ Item.type \in Identity /\ InheritIdentity(Item.old, Item.new)
  <2> DEFINE p == Item.old
             q == Item.new
  <2>1. OldPhaseGives = {IdentityGives(p, q)}
    BY <1>3 DEF OldPhaseGives, Identity
  <2>2. InheritIdentity(p, q)
    BY <1>3
  <2> SUFFICES HandsOn(IdentityGives(p, q))
    BY <2>1
  <2> HIDE DEF p, q
  <2>3. CASE <<p, q>> \notin Preserving /\ KeepNew
    BY <1>1, <2>3, KeptHanded DEF IdentityGives
  <2>4. CASE <<p, q>> \in Preserving /\ old_status[p] = "failed" /\ RouteFailed(p, q)
    <3>1. HandsOn(FailedGives(p, q))
      BY <1>1, <2>4, GivenHanded, StopHanded DEF FailedGives, RouteFailed, Pause, EscalateFor
    <3>2. IdentityGives(p, q) = FailedGives(p, q)
      BY <2>4 DEF IdentityGives, Begun
    <3> QED
      BY <3>1, <3>2
  <2>5. CASE /\ <<p, q>> \in Preserving
             /\ Begun(old_status[p])
             /\ Give(q, old_status[p], new_reasons[q])
    <3>1. IdentityGives(p, q) = Given(q, old_status[p], new_reasons[q])
      BY <2>5 DEF IdentityGives, Begun
    <3> QED
      BY <1>1, <2>5, <3>1, GivenHanded
  <2>6. CASE /\ <<p, q>> \in Preserving
             /\ old_status[p] = "blocked" /\ WaitsOnly(old_reasons[p])
             /\ Give(q, "blocked", old_reasons[p])
    <3>1. IdentityGives(p, q) = Given(q, "blocked", old_reasons[p])
      BY <2>6 DEF IdentityGives, Begun
    <3> QED
      BY <1>1, <2>6, <3>1, GivenHanded
  <2>7. CASE /\ <<p, q>> \in Preserving
             /\ old_status[p] = "not_started"
                \/ (old_status[p] = "blocked" /\ ~WaitsOnly(old_reasons[p]))
             /\ KeepNew
    <3>1. IdentityGives(p, q) = Kept
      BY <2>7 DEF IdentityGives, Begun
    <3> QED
      BY <1>1, <2>7, <3>1, KeptHanded
  <2> QED
    BY <2>2, <2>3, <2>4, <2>5, <2>6, <2>7 DEF InheritIdentity
<1>4. CASE heads /\ Item.type = "split" /\ InheritSplit(Item.old)
  <2> DEFINE chosen == Candidates(phase_mapping, ItemsOf(phase_mapping, Item.old))
             continues == Begun(old_status[Item.old]) /\ Cardinality(chosen) = 1
  <2>1. OldPhaseGives = SplitGives(Item.old)
    BY <1>4 DEF OldPhaseGives
  <2>2. CASE continues
    <3>1. PICK k \in chosen :
            LET q == phase_mapping[k].new
            IN \/ q # None /\ Give(q, old_status[Item.old], new_reasons[q])
               \/ q = None /\ Raise
      BY <1>4, <2>2 DEF InheritSplit
    <3> DEFINE q == phase_mapping[k].new
    <3>2. ContinuedIn(Item.old, q) \in SplitGives(Item.old)
      BY <2>2 DEF SplitGives
    <3>3. CASE q # None
      <4>1. HandsOn(Given(q, old_status[Item.old], new_reasons[q]))
        BY <1>1, <3>1, <3>3, GivenHanded
      <4> QED
        BY <2>1, <3>2, <3>3, <4>1 DEF ContinuedIn
    <3>4. CASE q = None
      <4>1. HandsOn(Onto("raised"))
        BY <1>1, <3>1, <3>4, OntoHanded DEF Raise, Goto
      <4> QED
        BY <2>1, <3>2, <3>4, <4>1 DEF ContinuedIn
    <3> QED
      BY <3>3, <3>4
  <2>3. CASE ~continues
    <3>1. SplitGives(Item.old) = {Kept} /\ KeepNew
      BY <1>4, <2>3 DEF SplitGives, InheritSplit
    <3> QED
      BY <1>1, <2>1, <3>1, KeptHanded
  <2> QED
    BY <2>2, <2>3
<1> QED
  BY <1>2, <1>3, <1>4 DEF MapOldPhase

LEMMA MovesNewPhase ==
  ASSUME MigrationTypeOK, MergeNewPhase
  PROVE  HandsOn(NewPhaseGives)
<1> DEFINE heads == Item.new # None /\ FirstFor(position)
           q == Item.new
           conflict == \E p \in Sources(q) : /\ old_status[p] \in {"blocked", "failed"}
                                             /\ ~WaitsOnly(old_reasons[p])
           waits == \E p \in Sources(q) : old_status[p] = "blocked" /\ WaitsOnly(old_reasons[p])
           failed == \E p \in Sources(q) : old_status[p] = "failed"
           done == Sources(q) # {} /\ \A p \in Sources(q) : old_status[p] = "done"
           begun == \E p \in Sources(q) : old_status[p] \in {"done", "in_progress", "blocked"}
<1>1. UNCHANGED <<arguments, frozen, migrated, resumed, created>>
  BY DEF MergeNewPhase
<1>2. CASE ~(heads /\ Item.type = "merged") /\ KeepNew
  BY <1>1, <1>2, KeptHanded DEF NewPhaseGives
<1>3. CASE heads /\ Item.type = "merged" /\ Merge(q)
  <2>1. NewPhaseGives = MergeGives(q)
    BY <1>3 DEF NewPhaseGives
  <2>2. CASE conflict /\ StopMapping(EscalateFor("merged_phase_conflict"))
    BY <1>1, <2>1, <2>2, StopHanded DEF MergeGives, EscalateFor
  <2>3. CASE ~conflict /\ waits /\ failed /\ StopMapping(Pause("merged_phase_ambiguous"))
    BY <1>1, <2>1, <2>3, StopHanded DEF MergeGives, Pause
  <2>4. CASE ~conflict /\ ~(waits /\ failed) /\ MergeStatus(q)
    <3>1. CASE done /\ Give(q, "done", new_reasons[q])
      BY <1>1, <2>1, <2>4, <3>1, GivenHanded DEF MergeGives
    <3>2. CASE ~done /\ begun /\ Give(q, "in_progress", new_reasons[q])
      <4>1. MergeGives(q) = Given(q, "in_progress", new_reasons[q])
        BY <2>4, <3>2 DEF MergeGives
      <4> QED
        BY <1>1, <2>1, <3>2, <4>1, GivenHanded
    <3>3. CASE ~done /\ ~begun /\ KeepNew
      <4>1. MergeGives(q) = Kept
        BY <2>4, <3>3 DEF MergeGives
      <4> QED
        BY <1>1, <2>1, <3>3, <4>1, KeptHanded
    <3> QED
      BY <2>4, <3>1, <3>2, <3>3 DEF MergeStatus
  <2> QED
    BY <1>3, <2>2, <2>3, <2>4 DEF Merge
<1> QED
  BY <1>2, <1>3 DEF MergeNewPhase

LEMMA StepsAreMoves ==
  ASSUME MigrationTypeOK, MigrationNext
  PROVE  \E n \in Moves : HandsOn(n)
<1> USE DEF At
<1>0. position \in Nat /\ Len(phase_mapping) \in Nat
  BY DEF MigrationTypeOK
<1>1. ASSUME NEW stops, NEW kind, NEW why, NEW next, NEW s,
             Check(s, stops, Return(kind, why), next)
      PROVE  \E n \in Unless(stops, Ended(kind, why), next) : HandsOn(n)
  BY <1>1, EndHanded, OntoHanded DEF Check, Unless
<1>2. CASE CheckMapping
  <2>1. \E n \in Unless(~CompleteMapping, Ended("pause_migration", "incomplete_mapping"),
                        "freeze") : HandsOn(n)
    BY <1>1, <1>2 DEF CheckMapping, Pause
  <2> QED
    BY <1>2, <2>1 DEF CheckMapping, Check, Moves
<1>3. CASE Freeze
  BY <1>3 DEF Moves, HandsOn, Onto, Held, Freeze, Goto, answer, phases, migrated, resumed, created
<1>4. CASE CheckAttempts
  <2>1. \E n \in Unless(ActiveAttemptConflict,
                        Ended("escalate_migration", "active_attempt_conflict"),
                        "structure") : HandsOn(n)
    BY <1>1, <1>4 DEF CheckAttempts, EscalateFor
  <2> QED
    BY <1>4, <2>1 DEF CheckAttempts, Check, Moves
<1>5. CASE CheckStructure
  <2>1. \E n \in Unless(~(dependencies \subseteq NewModules),
                        Ended("escalate_migration", "undeclared_dependency_still_present"),
                        "split_ambiguity") : HandsOn(n)
    BY <1>1, <1>5 DEF CheckStructure, EscalateFor
  <2> QED
    BY <1>5, <2>1 DEF CheckStructure, Check, Moves
<1>6. CASE CheckSplits
  <2>1. \E n \in Unless(SplitAmbiguity, Ended("pause_migration", "split_coverage_ambiguous"),
                        "phase_mapping") : HandsOn(n)
    BY <1>1, <1>6 DEF CheckSplits, Pause
  <2> QED
    BY <1>6, <2>1 DEF CheckSplits, Check, Moves
<1>7. CASE MapOldPhase
  BY <1>7, MovesOldPhase DEF MapOldPhase, Moves
<1>8. CASE EndOldPhases
  <2>1. Moves = {[Onto("merge") EXCEPT !.position = 1]}
    BY <1>0, <1>8 DEF EndOldPhases, Moves
  <2> QED
    BY <1>8, <2>1 DEF EndOldPhases, HandsOn, Onto, Held, Goto, answer, frozen, phases, migrated,
                      resumed, created
<1>9. CASE MergeNewPhase
  BY <1>9, MovesNewPhase DEF MergeNewPhase, Moves
<1>10. CASE EndNewPhases
  <2>1. Moves = {Onto("recompute")}
    BY <1>0, <1>10 DEF EndNewPhases, Moves
  <2> QED
    BY <1>10, <2>1, OntoHanded DEF EndNewPhases
<1>11. CASE Recompute
  BY <1>11 DEF Moves, HandsOn, Onto, Held, Recompute, Goto, answer, frozen, phases, migrated,
               resumed, created
<1>12. CASE CheckGuides
  <2>1. \E n \in Unless(UnmappableGuide, Ended("pause_migration", "guide_mapping_not_unique"),
                        "resume_module") : HandsOn(n)
    BY <1>1, <1>12 DEF CheckGuides, Pause
  <2> QED
    BY <1>12, <2>1 DEF CheckGuides, Check, Moves
<1>13. CASE ResolveResumeModule
  <2>1. stage = "resume_module"
        /\ UNCHANGED <<arguments, position, frozen, phases, migrated, resume_phase_id, created>>
    BY <1>13 DEF ResolveResumeModule
  <2>2. CASE /\ ResumeGroup = {}
             /\ EscalateFor("no_legal_continuation_point")
             /\ UNCHANGED resume_module_id
    <3>1. HandsOn(Ended("escalate_migration", "no_legal_continuation_point"))
      BY <2>1, <2>2, EndHanded DEF EscalateFor, resumed
    <3> QED
      BY <2>1, <2>2, <3>1 DEF Moves
  <2>3. CASE \E n \in DOMAIN ModuleOrder :
               /\ ModuleOrder[n] \in ResumeGroup
               /\ \A k \in 1..(n - 1) : ModuleOrder[k] \notin ResumeGroup
               /\ resume_module_id' = ModuleOrder[n]
               /\ Goto("resume_phase")
    <3>1. PICK m \in FirstModules : resume_module_id' = m /\ Goto("resume_phase")
      BY <2>3 DEF FirstModules
    <3>2. HandsOn([Onto("resume_phase") EXCEPT !.module = m])
      BY <2>1, <3>1 DEF HandsOn, Onto, Held, Goto, answer, frozen, phases, migrated, created
    <3> QED
      BY <2>1, <2>3, <3>2 DEF Moves
  <2> QED
    BY <1>13, <2>2, <2>3 DEF ResolveResumeModule
<1>14. CASE ResolveResumePhase
  <2> DEFINE before == Predecessors(resume_module_id)
  <2>1. stage = "resume_phase"
        /\ UNCHANGED <<arguments, position, frozen, phases, migrated, resume_module_id, created>>
    BY <1>14 DEF ResolveResumePhase
  <2>2. PICK q \in NewPhases :
          \/ /\ Leads(q, before)
             /\ \/ /\ OneOfSeveral(q, before)
                   /\ Pause("ambiguous_resume_phase")
                   /\ UNCHANGED resume_phase_id
                \/ ~OneOfSeveral(q, before) /\ ResumeAt(q)
          \/ before = {} /\ Leads(q, PhaseGroup(resume_module_id)) /\ ResumeAt(q)
    BY <1>14 DEF ResolveResumePhase
  <2>3. q \in FirstPhases
    BY <2>2 DEF FirstPhases, Leads
  <2>4. CASE OneOfSeveral(q, before) /\ Pause("ambiguous_resume_phase") /\ UNCHANGED resume_phase_id
    <3>1. HandsOn(Ended("pause_migration", "ambiguous_resume_phase"))
      BY <2>1, <2>4, EndHanded DEF Pause, resumed
    <3> QED
      BY <2>1, <2>3, <2>4, <3>1 DEF Moves
  <2>5. CASE ~OneOfSeveral(q, before) /\ ResumeAt(q)
    <3>1. HandsOn([Onto("finish") EXCEPT !.phase = q])
      BY <2>1, <2>5 DEF HandsOn, Onto, Held, Goto, ResumeAt, answer, frozen, phases, migrated,
                        created
    <3> QED
      BY <2>1, <2>3, <2>5, <3>1 DEF Moves
  <2>6. before = {} => ~OneOfSeveral(q, before)
    BY DEF OneOfSeveral
  <2> QED
    BY <2>2, <2>4, <2>5, <2>6
<1>15. CASE Finish
  BY <1>15 DEF Moves, HandsOn, Ended, Held, Finish, Return, phases, migrated, resumed
<1> QED
  BY <1>2, <1>3, <1>4, <1>5, <1>6, <1>7, <1>8, <1>9, <1>10, <1>11, <1>12, <1>13, <1>14, <1>15
  DEF MigrationNext

(* For every overview and mapping: until migrate_overview has returned or raised, exactly one     *)
(* thing can happen next.  No stage and no item of the two loops is without a branch, none has    *)
(* two, and nothing is left to the order in which modules, phases or candidates are looked at;    *)
(* with MovesAreSteps, EveryStageRunsDown and OnlyStraysRaise, what is left of MigrationReturns   *)
(* is the step to ENABLED.                                                                        *)
THEOREM CallIsDecided ==
  MigrationSpec => /\ [](stage \notin {"returned", "raised"} => \E n : Moves = {n})
                   /\ [][\E n \in Moves : HandsOn(n)]_migration_vars
<1> DEFINE One == stage \notin {"returned", "raised"} => \E n : Moves = {n}
           Step == \E n \in Moves : HandsOn(n)
<1>1. MigrationInit => ModuleChosen
  BY DEF MigrationInit, ModuleChosen
<1>2. MigrationTypeOK /\ ModuleChosen => One
  BY OneMove
<1>3. MigrationTypeOK /\ [MigrationNext]_migration_vars => [Step]_migration_vars
  BY StepsAreMoves
<1> HIDE DEF One, Step
<1>4. MigrationSpec => []One /\ [][Step]_migration_vars
  BY <1>1, <1>2, <1>3, ModuleChosenPreserved, MigrationTypeCorrect, PTL DEF MigrationSpec
<1> QED
  BY <1>4 DEF One, Step

===============================================================================
