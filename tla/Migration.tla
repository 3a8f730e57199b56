------------------------------- MODULE Migration -------------------------------
(***************************************************************************)
(* migrate_overview (agent_runtime/migration/core.py): the passage from an *)
(* old overview to a new one, given the mapping of their modules and       *)
(* phases.  It is one sequential call; its stages are the actions here,    *)
(* in the code's order, and the two loops of handle_phase_mapping take a   *)
(* step per mapping item.  Each stage hands on to the next, ends the call  *)
(* with its outcome, or raises what the call does not catch.               *)
(*                                                                         *)
(* Abstracted: failure reasons are "waiting" (in WAITING_BLOCKERS) or      *)
(* "structural"; the reason codes of a mapping item are the classes core.py *)
(* tells apart; the active guides are the phases they are for, and a guide *)
(* names its phase's module; notes, histories and overview metadata are    *)
(* left out.  A phase item may name any new module or none, whatever new   *)
(* phase it names or leaves out (PhaseMigrationItem.validate_shape); an id *)
(* of no new module, which nothing checks, acts like that of another one.  *)
(*                                                                         *)
(* Taken for granted of a call: its arguments are there and the new version *)
(* is higher, the runtime objects are those of the old overview, and the   *)
(* ids of the new modules and phases are all different.  So the tie-breaks *)
(* that raise "ambiguous resume module" and "ambiguous resume phase" for   *)
(* equal keys never do, no module's id is a key of the new phases, and a   *)
(* split that is ambiguous never reaches the mapping.                      *)
(***************************************************************************)
EXTENDS Naturals, Sequences, FiniteSets, ModuleState

CONSTANTS
  OldModules, OldPhases,
  OldModuleOf,     \* phase.module_id
  NewModules, NewPhases,
  NewModuleOf,
  ModuleOrder,     \* the new modules by sort_index
  PhaseOrder,      \* of each new module, its phases by sort_index
  Preserving,      \* the pairs of an old and a new phase of equal role and state_after
  Attempts,        \* old_action_records
  ActionOf,        \* record.action_id
  None,
  Requests,        \* bound: the mappings, with attempts, dependencies and module statuses
  ActiveGuides,    \* bound: the sets of phases with an active guide
  Standings        \* bound: the status and failure reasons an old phase may have

Types == {"unchanged", "reordered", "split", "merged", "removed", "created"}
Identity == {"unchanged", "reordered"}
ReasonCodes == {"none", "unique_coverage", "repaired", "still_broken"}
\* new is the new id of the item's kind; a phase item has a new module's id besides.
ItemsOver(old, new, modules) ==
  {i \in [old : old \cup {None}, new : new \cup {None}, module : modules \cup {None},
          type : Types, reason : ReasonCodes, partial : BOOLEAN] :
     /\ i.type = "created" <=> i.old = None
     /\ i.type = "removed" <=> i.new = None}
PhaseStatuses == {"not_started", "in_progress", "blocked", "done", "failed"}
ActiveStatuses == {"selected", "running", "blocked"}
FailureReasons == {"waiting", "structural"}
Outcomes == {"auto_resumed", "pause_migration", "escalate_migration"}
MappingStops == {"failed_phase_still_broken", "failed_phase_repair_indeterminate",
                 "merged_phase_conflict", "merged_phase_ambiguous"}
OtherReasons == {"auto_resumed", "incomplete_mapping", "active_attempt_conflict",
                 "undeclared_dependency_still_present", "split_coverage_ambiguous",
                 "guide_mapping_not_unique", "no_legal_continuation_point",
                 "ambiguous_resume_phase"}

ASSUME MigrationAssumption ==
  /\ None \notin OldModules \cup OldPhases \cup NewModules \cup NewPhases
  /\ None \notin Outcomes \cup MappingStops \cup OtherReasons \cup {"earlier", "this"}
  /\ OldModuleOf \in [OldPhases -> OldModules]
  /\ NewModuleOf \in [NewPhases -> NewModules]
  /\ ModuleOrder \in Seq(NewModules)
  /\ PhaseOrder \in [NewModules -> Seq(NewPhases)]
  /\ \A m \in NewModules : \E n \in DOMAIN ModuleOrder : ModuleOrder[n] = m
  /\ \A q \in NewPhases :
       \E n \in DOMAIN PhaseOrder[NewModuleOf[q]] : PhaseOrder[NewModuleOf[q]][n] = q
  /\ \A m \in NewModules : \A i, j \in DOMAIN PhaseOrder[m] :
       /\ NewModuleOf[PhaseOrder[m][i]] = m
       /\ PhaseOrder[m][i] = PhaseOrder[m][j] => i = j
  /\ ActionOf \in [Attempts -> STRING]
  /\ \A r \in Requests :
       /\ r.phases \in Seq(ItemsOver(OldPhases, NewPhases, NewModules))
       /\ r.modules \in Seq(ItemsOver(OldModules, NewModules, {}))
       /\ r.attempts \in [Attempts -> ActiveStatuses \cup {"finished"}]
       /\ r.frozen \subseteq Attempts
       /\ r.module_status \in [OldModules -> ModuleStatuses]
       /\ r.dependencies \subseteq OldModules \cup NewModules
  /\ ActiveGuides \subseteq SUBSET OldPhases
  /\ \A s \in Standings : s.status \in PhaseStatuses /\ s.reasons \subseteq FailureReasons

VARIABLES
  phase_mapping, module_mapping,  \* the arguments of the call
  dependencies,                   \* what the new modules depend on
  attempt_status,
  old_module_status, old_status, old_reasons,
  active_guides,                  \* the phases whose guide is active in old_guides
  guide_items,                    \* some active guide has decision_items or done_criteria
  stage,                          \* where the call is
  position,                       \* the mapping item its loop is at
  outcome, reason,                \* of the result
  live_guides,                    \* the guides still active in the result
  frozen_by,                      \* record.frozen_by_migration_id
  new_status, new_reasons,        \* of new_phases
  module_status,                  \* of new_modules
  obsolete,                       \* the old modules and phases marked obsolete
  resume_module_id, resume_phase_id,
  new_guide,                      \* the phase of the guide that is created
  relinked_to                     \* migrated_resume_phase_id of every record

arguments == <<phase_mapping, module_mapping, dependencies, attempt_status, old_module_status,
               old_status, old_reasons, active_guides, guide_items>>
answer == <<outcome, reason>>
frozen == <<live_guides, frozen_by>>
phases == <<new_status, new_reasons>>
migrated == <<module_status, obsolete>>
resumed == <<resume_module_id, resume_phase_id>>
created == <<new_guide, relinked_to>>
migration_vars == <<arguments, stage, position, answer, frozen, phases, migrated, resumed, created>>

Stages == {"mapping_check", "freeze", "attempt_conflict", "structure", "split_ambiguity",
           "phase_mapping", "merge", "recompute", "guide_mapping", "resume_module",
           "resume_phase", "finish", "returned", "raised"}

MigrationTypeOK ==
  /\ phase_mapping \in Seq(ItemsOver(OldPhases, NewPhases, NewModules))
  /\ module_mapping \in Seq(ItemsOver(OldModules, NewModules, {}))
  /\ dependencies \subseteq OldModules \cup NewModules
  /\ attempt_status \in [Attempts -> ActiveStatuses \cup {"finished"}]
  /\ old_module_status \in [OldModules -> ModuleStatuses]
  /\ old_status \in [OldPhases -> PhaseStatuses]
  /\ old_reasons \in [OldPhases -> SUBSET FailureReasons]
  /\ active_guides \subseteq OldPhases
  /\ guide_items \in BOOLEAN
  /\ stage \in Stages
  /\ position \in 1..(Len(phase_mapping) + 1)
  /\ outcome \in Outcomes \cup {None}
  /\ reason \in MappingStops \cup OtherReasons \cup {None}
  /\ live_guides \subseteq OldPhases
  /\ frozen_by \in [Attempts -> {None, "earlier", "this"}]
  /\ new_status \in [NewPhases -> PhaseStatuses]
  /\ new_reasons \in [NewPhases -> SUBSET FailureReasons]
  /\ module_status \in [NewModules -> ModuleStatuses]
  /\ obsolete \subseteq OldModules \cup OldPhases
  /\ resume_module_id \in NewModules \cup {None}
  /\ resume_phase_id \in NewPhases \cup {None}
  /\ new_guide \in NewPhases \cup {None}
  /\ relinked_to \in NewPhases \cup {None}

-------------------------------------------------------------------------------
(* Stages *)

At(s) == stage = s
Goto(s) == stage' = s /\ UNCHANGED answer
Return(kind, why) == stage' = "returned" /\ outcome' = kind /\ reason' = why
Pause(why) == Return("pause_migration", why)
EscalateFor(why) == Return("escalate_migration", why)

\* A stage that only decides whether the call goes on.
Check(s, stops, ending, next) ==
  /\ At(s)
  /\ \/ stops /\ ending
     \/ ~stops /\ Goto(next)
  /\ UNCHANGED <<arguments, position, frozen, phases, migrated, resumed, created>>

MappedOld(mapping) == {mapping[n].old : n \in DOMAIN mapping} \ {None}
MappedNew(mapping) == {mapping[n].new : n \in DOMAIN mapping} \ {None}

\* has_complete_mapping, and the mappings are there
CompleteMapping ==
  /\ MappedOld(module_mapping) = OldModules
  /\ MappedNew(module_mapping) = NewModules
  /\ MappedOld(phase_mapping) = OldPhases
  /\ MappedNew(phase_mapping) = NewPhases

CheckMapping == Check("mapping_check", ~CompleteMapping, Pause("incomplete_mapping"), "freeze")

\* freeze_old_active_runtime
\* Mutant: an attempt that is blocked is not frozen.
FreezeRunning ==
  /\ At("freeze")
  /\ live_guides' = {}
  /\ frozen_by' = [a \in Attempts |-> IF attempt_status[a] \in {"selected", "running"}
                                      THEN "this" ELSE frozen_by[a]]
  /\ Goto("attempt_conflict")
  /\ UNCHANGED <<arguments, position, phases, migrated, resumed, created>>
Freeze ==
  /\ At("freeze")
  /\ live_guides' = {}
  /\ frozen_by' = [a \in Attempts |-> IF attempt_status[a] \in ActiveStatuses
                                      THEN "this" ELSE frozen_by[a]]
  /\ Goto("attempt_conflict")
  /\ UNCHANGED <<arguments, position, phases, migrated, resumed, created>>

\* has_active_attempt_conflict
ActiveAttemptConflict ==
  \E a, b \in Attempts : /\ a # b
                         /\ ActionOf[a] = ActionOf[b]
                         /\ attempt_status[a] \in ActiveStatuses
                         /\ attempt_status[b] \in ActiveStatuses
CheckAttempts == Check("attempt_conflict", ActiveAttemptConflict,
                       EscalateFor("active_attempt_conflict"), "structure")

\* has_unresolved_structural_violation
CheckStructure == Check("structure", ~(dependencies \subseteq NewModules),
                        EscalateFor("undeclared_dependency_still_present"), "split_ambiguity")

-------------------------------------------------------------------------------
(* Splits.  Items go by their position in the mapping. *)

ItemsOf(mapping, o) == {n \in DOMAIN mapping : mapping[n].old = o}
FirstOf(mapping, n) == \A k \in 1..(n - 1) : mapping[k].old # mapping[n].old
HasTarget(mapping, items) == {n \in items : mapping[n].new # None}

\* item.new_phase_id or item.new_module_id: the module's id stands in for a phase's that is missing.
HasName(mapping, items) == {n \in items : mapping[n].new # None \/ mapping[n].module # None}

\* _split_continuation_candidates
Candidates(mapping, items) ==
  LET unique == {n \in items : mapping[n].reason = "unique_coverage"}
      partial == HasName(mapping, {n \in items : mapping[n].partial})
  IN IF unique # {} THEN HasName(mapping, unique)
     ELSE IF Cardinality(partial) = 1 THEN partial
     ELSE {}

IsSplit(mapping, o) ==
  \E n \in ItemsOf(mapping, o) : FirstOf(mapping, n) /\ mapping[n].type = "split"
Begun(status) == status \in {"done", "in_progress"}

\* Mutant: no justification is asked for.
AmbiguousWithoutTargets(mapping, o, status) ==
  /\ IsSplit(mapping, o)
  /\ Begun(status)
  /\ HasTarget(mapping, ItemsOf(mapping, o)) = {}
Ambiguous(mapping, o, status) ==
  /\ IsSplit(mapping, o)
  /\ Begun(status)
  /\ Cardinality(HasTarget(mapping, ItemsOf(mapping, o))) > 1
  /\ Cardinality(Candidates(mapping, ItemsOf(mapping, o))) # 1

\* detect_split_resume_ambiguity
SplitAmbiguity ==
  \/ \E m \in OldModules : Ambiguous(module_mapping, m, old_module_status[m])
  \/ \E p \in OldPhases : Ambiguous(phase_mapping, p, old_status[p])
CheckSplits == Check("split_ambiguity", SplitAmbiguity,
                     Pause("split_coverage_ambiguous"), "phase_mapping")

-------------------------------------------------------------------------------
(* handle_phase_mapping *)

Item == phase_mapping[position]
WaitsOnly(reasons) == reasons \subseteq {"waiting"}
ReasonsFor(o) == {phase_mapping[n].reason : n \in ItemsOf(phase_mapping, o)}

Advance == position' = position + 1 /\ UNCHANGED <<stage, answer>>
KeepNew == Advance /\ UNCHANGED phases
Give(q, status, reasons) ==
  /\ new_status' = [new_status EXCEPT ![q] = status]
  /\ new_reasons' = [new_reasons EXCEPT ![q] = reasons]
  /\ Advance

\* The new phases are returned as they were built, not as far as they were mapped.
\* Mutant: the phases mapped so far are returned.
StopAsMapped(ending) == ending /\ UNCHANGED <<position, phases>>
StopMapping(ending) ==
  /\ ending
  /\ new_status' = [q \in NewPhases |-> "not_started"]
  /\ new_reasons' = [q \in NewPhases |-> {}]
  /\ UNCHANGED position

\* classify_failed_phase_migration
RouteFailed(p, q) ==
  LET repaired == "repaired" \in ReasonsFor(p)
      broken == "still_broken" \in ReasonsFor(p)
  IN
  \/ repaired /\ Give(q, "not_started", {})
  \/ ~repaired /\ broken /\ StopMapping(EscalateFor("failed_phase_still_broken"))
  \/ ~repaired /\ ~broken /\ StopMapping(Pause("failed_phase_repair_indeterminate"))

\* Mutant: a phase that means something else now inherits all the same.
InheritWhatever(p, q) ==
  \/ old_status[p] = "failed" /\ RouteFailed(p, q)
  \/ Begun(old_status[p]) /\ Give(q, old_status[p], new_reasons[q])
  \/ /\ old_status[p] = "blocked" /\ WaitsOnly(old_reasons[p])
     /\ Give(q, "blocked", old_reasons[p])
  \/ /\ old_status[p] = "not_started" \/ (old_status[p] = "blocked" /\ ~WaitsOnly(old_reasons[p]))
     /\ KeepNew
InheritIdentity(p, q) ==
  \/ <<p, q>> \notin Preserving /\ KeepNew
  \/ /\ <<p, q>> \in Preserving
     /\ \/ old_status[p] = "failed" /\ RouteFailed(p, q)
        \/ Begun(old_status[p]) /\ Give(q, old_status[p], new_reasons[q])
        \/ /\ old_status[p] = "blocked" /\ WaitsOnly(old_reasons[p])
           /\ Give(q, "blocked", old_reasons[p])
        \/ /\ old_status[p] = "not_started"
              \/ (old_status[p] = "blocked" /\ ~WaitsOnly(old_reasons[p]))
           /\ KeepNew

\* updated[selected] raises a KeyError for the id of a module; no stage catches it.
Raise == stage' = "raised" /\ UNCHANGED <<answer, position, phases>>
InheritSplit(p) ==
  LET chosen == Candidates(phase_mapping, ItemsOf(phase_mapping, p))
      continues == Begun(old_status[p]) /\ Cardinality(chosen) = 1
  IN
  \/ continues /\ \E n \in chosen :
       LET q == phase_mapping[n].new
       IN \/ q # None /\ Give(q, old_status[p], new_reasons[q])
          \/ q = None /\ Raise
  \/ ~continues /\ KeepNew

\* One round of the loop over items_by_old: the first item of an old phase decides.
MapOldPhase ==
  LET heads == Item.old # None /\ FirstOf(phase_mapping, position) IN
  /\ At("phase_mapping")
  /\ position <= Len(phase_mapping)
  /\ \/ ~(heads /\ Item.type \in Identity \cup {"split"}) /\ KeepNew
     \/ heads /\ Item.type \in Identity /\ InheritIdentity(Item.old, Item.new)
     \/ heads /\ Item.type = "split" /\ InheritSplit(Item.old)
  /\ UNCHANGED <<arguments, frozen, migrated, resumed, created>>

EndOldPhases ==
  /\ At("phase_mapping")
  /\ position > Len(phase_mapping)
  /\ position' = 1
  /\ Goto("merge")
  /\ UNCHANGED <<arguments, frozen, phases, migrated, resumed, created>>

Sources(q) == {phase_mapping[n].old : n \in {k \in DOMAIN phase_mapping : phase_mapping[k].new = q}}
              \ {None}
FirstFor(n) == \A k \in 1..(n - 1) : phase_mapping[k].new # phase_mapping[n].new

\* Mutant: any source that was touched at all counts as begun.
MergeTouched(q) ==
  LET done == Sources(q) # {} /\ \A p \in Sources(q) : old_status[p] = "done"
      begun == \E p \in Sources(q) : old_status[p] # "not_started"
  IN
  \/ done /\ Give(q, "done", new_reasons[q])
  \/ ~done /\ begun /\ Give(q, "in_progress", new_reasons[q])
  \/ ~done /\ ~begun /\ KeepNew
MergeStatus(q) ==
  LET done == Sources(q) # {} /\ \A p \in Sources(q) : old_status[p] = "done"
      begun == \E p \in Sources(q) : old_status[p] \in {"done", "in_progress", "blocked"}
  IN
  \/ done /\ Give(q, "done", new_reasons[q])
  \/ ~done /\ begun /\ Give(q, "in_progress", new_reasons[q])
  \/ ~done /\ ~begun /\ KeepNew

Merge(q) ==
  LET conflict == \E p \in Sources(q) : /\ old_status[p] \in {"blocked", "failed"}
                                        /\ ~WaitsOnly(old_reasons[p])
      waits == \E p \in Sources(q) : old_status[p] = "blocked" /\ WaitsOnly(old_reasons[p])
      failed == \E p \in Sources(q) : old_status[p] = "failed"
  IN
  \/ conflict /\ StopMapping(EscalateFor("merged_phase_conflict"))
  \/ ~conflict /\ waits /\ failed /\ StopMapping(Pause("merged_phase_ambiguous"))
  \/ ~conflict /\ ~(waits /\ failed) /\ MergeStatus(q)

\* One round of the loop over items_by_new.
MergeNewPhase ==
  LET heads == Item.new # None /\ FirstFor(position) IN
  /\ At("merge")
  /\ position <= Len(phase_mapping)
  /\ \/ ~(heads /\ Item.type = "merged") /\ KeepNew
     \/ heads /\ Item.type = "merged" /\ Merge(Item.new)
  /\ UNCHANGED <<arguments, frozen, migrated, resumed, created>>

EndNewPhases ==
  /\ At("merge")
  /\ position > Len(phase_mapping)
  /\ Goto("recompute")
  /\ UNCHANGED <<arguments, position, frozen, phases, migrated, resumed, created>>

-------------------------------------------------------------------------------
(* mark_old_objects_superseded_or_obsolete, recompute_module_state, the guide mapping *)

PhasesOf(m) == {q \in NewPhases : NewModuleOf[q] = m}
\* Mutant: the new object is marked in place of the old one.
RemovedTargets(mapping) ==
  {mapping[n].new : n \in {k \in DOMAIN mapping : mapping[k].type = "removed"}}
Removed(mapping) ==
  {mapping[n].old : n \in {k \in DOMAIN mapping : mapping[k].type = "removed"}}

Recompute ==
  /\ At("recompute")
  /\ obsolete' = Removed(module_mapping) \cup Removed(phase_mapping)
  /\ module_status' = [m \in NewModules |-> RecomputedStatus(PhasesOf(m), new_status)]
  /\ Goto("guide_mapping")
  /\ UNCHANGED <<arguments, position, frozen, phases, resumed, created>>

\* Mutant: the guides are looked at after the freeze.
UnmappableLiveGuide ==
  /\ guide_items
  /\ \E n \in DOMAIN phase_mapping : /\ phase_mapping[n].old \in live_guides
                                     /\ phase_mapping[n].type \in {"split", "merged", "removed"}
UnmappableGuide ==
  /\ guide_items
  /\ \E n \in DOMAIN phase_mapping : /\ phase_mapping[n].old \in active_guides
                                     /\ phase_mapping[n].type \in {"split", "merged", "removed"}
CheckGuides == Check("guide_mapping", UnmappableGuide, Pause("guide_mapping_not_unique"),
                     "resume_module")

-------------------------------------------------------------------------------
(* The point to resume at *)

Open(q) == new_status[q] # "done"
InProgress(q) == new_status[q] = "in_progress"
Waiting(q) == new_status[q] = "blocked" /\ WaitsOnly(new_reasons[q])

\* The group of highest priority that is not empty.
ResumeGroup ==
  LET ModulesOf(set) == {NewModuleOf[q] : q \in set}
      in_progress == {q \in NewPhases : InProgress(q)}
      waiting == {q \in NewPhases : Waiting(q)}
  IN IF in_progress # {} THEN ModulesOf(in_progress)
     ELSE IF waiting # {} THEN ModulesOf(waiting)
     ELSE ModulesOf({q \in NewPhases : Open(q)})

\* Mutant: that no module is left to resume is not caught.
ResolveSomeModule ==
  /\ At("resume_module")
  /\ \E n \in DOMAIN ModuleOrder :
       /\ ModuleOrder[n] \in ResumeGroup
       /\ \A k \in 1..(n - 1) : ModuleOrder[k] \notin ResumeGroup
       /\ resume_module_id' = ModuleOrder[n]
       /\ Goto("resume_phase")
  /\ UNCHANGED <<arguments, position, frozen, phases, migrated, resume_phase_id, created>>
ResolveResumeModule ==
  /\ At("resume_module")
  /\ \/ /\ ResumeGroup = {}
        /\ EscalateFor("no_legal_continuation_point")
        /\ UNCHANGED resume_module_id
     \/ \E n \in DOMAIN ModuleOrder :
          /\ ModuleOrder[n] \in ResumeGroup
          /\ \A k \in 1..(n - 1) : ModuleOrder[k] \notin ResumeGroup
          /\ resume_module_id' = ModuleOrder[n]
          /\ Goto("resume_phase")
  /\ UNCHANGED <<arguments, position, frozen, phases, migrated, resume_phase_id, created>>

Precedes(q, r) == \E i, j \in DOMAIN PhaseOrder[NewModuleOf[r]] :
                    /\ i < j
                    /\ PhaseOrder[NewModuleOf[r]][i] = q
                    /\ PhaseOrder[NewModuleOf[r]][j] = r
Leads(q, set) == q \in set /\ \A r \in set : ~Precedes(r, q)

\* Where the active guides of a module of the same name have gone, by the items that name that
\* module; of two such items of an old phase the later one counts.
CurrentTargets(m) ==
  LET kept == {n \in DOMAIN phase_mapping : /\ phase_mapping[n].type \in Identity
                                            /\ phase_mapping[n].module = m}
      last == {n \in kept : \A k \in kept : phase_mapping[k].old = phase_mapping[n].old => k <= n}
  IN {phase_mapping[n].new : n \in {k \in last : /\ phase_mapping[k].old \in active_guides
                                                 /\ OldModuleOf[phase_mapping[k].old] = m}}

\* The open phases the module's order puts before the current one; none if that one is not there.
Predecessors(m) ==
  IF Cardinality(CurrentTargets(m)) = 1
  THEN {q \in PhasesOf(m) : Open(q) /\ \E t \in CurrentTargets(m) : Precedes(q, t)}
  ELSE {}

\* One of them only stands in for an old phase that another does too.
OneOfSeveral(q, set) ==
  Sources(q) # {} /\ \E r \in set \ {q} : Sources(r) = Sources(q)

\* resolve_resume_phase.  An open phase before the first one in progress comes first, so only a
\* waiting phase of a module without progress is preferred to the first open phase.
\* Mutant: the predecessors of a phase in progress are not looked at.
ProgressFirst(m) ==
  LET in_progress == {q \in PhasesOf(m) : InProgress(q)}
      waiting == {q \in PhasesOf(m) : Waiting(q)}
  IN IF in_progress # {} THEN in_progress
     ELSE IF waiting # {} THEN waiting
     ELSE {q \in PhasesOf(m) : Open(q)}
\* Mutant: once there are none in progress or waiting, no phase is looked for.
PhaseGroupBegun(m) ==
  LET in_progress == {q \in PhasesOf(m) : InProgress(q)}
      waiting == {q \in PhasesOf(m) : Waiting(q)}
  IN IF in_progress = {} THEN waiting ELSE {q \in PhasesOf(m) : Open(q)}
PhaseGroup(m) ==
  LET in_progress == {q \in PhasesOf(m) : InProgress(q)}
      waiting == {q \in PhasesOf(m) : Waiting(q)}
  IN IF in_progress = {} /\ waiting # {} THEN waiting
     ELSE {q \in PhasesOf(m) : Open(q)}

ResumeAt(q) == resume_phase_id' = q /\ Goto("finish")

ResolveResumePhase ==
  LET before == Predecessors(resume_module_id) IN
  /\ At("resume_phase")
  /\ \/ \E q \in NewPhases :
          /\ Leads(q, before)
          /\ \/ /\ OneOfSeveral(q, before)
                /\ Pause("ambiguous_resume_phase")
                /\ UNCHANGED resume_phase_id
             \/ ~OneOfSeveral(q, before) /\ ResumeAt(q)
     \/ /\ before = {}
        /\ \E q \in NewPhases : Leads(q, PhaseGroup(resume_module_id)) /\ ResumeAt(q)
  /\ UNCHANGED <<arguments, position, frozen, phases, migrated, resume_module_id, created>>

\* create_new_execution_guide, relink_historical_action_records
\* Mutant: the records are handed back as the freeze left them.
FinishUnlinked ==
  /\ At("finish")
  /\ new_guide' = resume_phase_id
  /\ relinked_to' = resume_phase_id
  /\ Return("auto_resumed", "auto_resumed")
  /\ UNCHANGED <<arguments, position, frozen, phases, migrated, resumed>>
Finish ==
  /\ At("finish")
  /\ new_guide' = resume_phase_id
  /\ relinked_to' = resume_phase_id
  /\ frozen_by' = [a \in Attempts |-> IF frozen_by[a] = None THEN "this" ELSE frozen_by[a]]
  /\ Return("auto_resumed", "auto_resumed")
  /\ UNCHANGED <<arguments, position, live_guides, phases, migrated, resumed>>

-------------------------------------------------------------------------------
MigrationInit ==
  /\ \E r \in Requests :
       /\ phase_mapping = r.phases
       /\ module_mapping = r.modules
       /\ dependencies = r.dependencies
       /\ attempt_status = r.attempts
       /\ old_module_status = r.module_status
       /\ frozen_by = [a \in Attempts |-> IF a \in r.frozen THEN "earlier" ELSE None]
  /\ \E standing \in [OldPhases -> Standings] :
       /\ old_status = [p \in OldPhases |-> standing[p].status]
       /\ old_reasons = [p \in OldPhases |-> standing[p].reasons]
  /\ active_guides \in ActiveGuides
  /\ guide_items \in BOOLEAN
  /\ guide_items => active_guides # {}
  /\ stage = "mapping_check"
  /\ position = 1
  /\ outcome = None
  /\ reason = None
  /\ live_guides = active_guides
  /\ new_status = [q \in NewPhases |-> "not_started"]
  /\ new_reasons = [q \in NewPhases |-> {}]
  /\ module_status = [m \in NewModules |-> "not_started"]
  /\ obsolete = {}
  /\ resume_module_id = None
  /\ resume_phase_id = None
  /\ new_guide = None
  /\ relinked_to = None

MigrationNext ==
  \/ CheckMapping
  \/ Freeze
  \/ CheckAttempts
  \/ CheckStructure
  \/ CheckSplits
  \/ MapOldPhase
  \/ EndOldPhases
  \/ MergeNewPhase
  \/ EndNewPhases
  \/ Recompute
  \/ CheckGuides
  \/ ResolveResumeModule
  \/ ResolveResumePhase
  \/ Finish

MigrationSpec ==
  MigrationInit /\ [][MigrationNext]_migration_vars /\ WF_migration_vars(MigrationNext)

-------------------------------------------------------------------------------
(* Properties *)

Resumes == outcome = "auto_resumed"

\* Every call returns an outcome, whatever the mapping, unless it raises; and it raises, with what
\* migrate_overview does not catch, only over a begun phase whose split would go on in an item
\* without a new phase: a removed one that names a new module (handle_phase_mapping looks up
\* _split_continuation_candidates' id among the new phases).
Strays(p) ==
  /\ IsSplit(phase_mapping, p)
  /\ Begun(old_status[p])
  /\ \E n \in ItemsOf(phase_mapping, p) :
       /\ Candidates(phase_mapping, ItemsOf(phase_mapping, p)) = {n}
       /\ phase_mapping[n].new = None
MigrationReturns ==
  <>(\/ stage = "returned" /\ outcome # None
     \/ stage = "raised" /\ \E p \in OldPhases : Strays(p))

\* A resumed run starts at a phase that is still open, and either waits or has every phase before
\* it in its module done: what PhaseProgress takes a migration for (resolve_resume_phase,
\* resolve_reordered_predecessor_fallback).
ResumePointOpen ==
  Resumes =>
    /\ new_guide \in PhasesOf(resume_module_id)
    /\ Open(new_guide)
    /\ \/ Waiting(new_guide)
       \/ \A q \in NewPhases : Precedes(q, new_guide) => new_status[q] = "done"

\* A new phase is done only because old ones were: for a merged phase all of them, else one that
\* means the same, or the one it continues after a split (handle_phase_mapping).
MergedInto(q) ==
  \E n \in DOMAIN phase_mapping :
    phase_mapping[n].new = q /\ FirstFor(n) /\ phase_mapping[n].type = "merged"
DoneIsInherited ==
  stage = "recompute" => \A q \in NewPhases : new_status[q] = "done" =>
    \/ MergedInto(q) /\ \A p \in Sources(q) : old_status[p] = "done"
    \/ /\ ~MergedInto(q)
       /\ \E p \in Sources(q) : /\ old_status[p] = "done"
                                /\ <<p, q>> \in Preserving \/ IsSplit(phase_mapping, p)

\* Work that was begun on a phase that is split goes on in exactly one of the new phases it alone
\* became: it is neither lost nor counted twice ("does not silently guess a resume path").  Of a
\* phase that is split and merged at once the merge may give its status to a second one.
PartsOf(p) == {q \in NewPhases : Sources(q) = {p}}
SplitUp(p) ==
  /\ IsSplit(phase_mapping, p)
  /\ \A n \in ItemsOf(phase_mapping, p) : /\ phase_mapping[n].type = "split"
                                          /\ phase_mapping[n].new \in PartsOf(p)
  /\ Cardinality(PartsOf(p)) > 1
ContinuesOnce(p) ==
  \E q \in PartsOf(p) : /\ new_status[q] = old_status[p]
                        /\ \A r \in PartsOf(p) \ {q} : new_status[r] = "not_started"
SplitContinuesOnce ==
  Resumes => \A p \in OldPhases : SplitUp(p) /\ Begun(old_status[p]) => ContinuesOnce(p)

\* What only a failed phase became starts over, whatever kind of mapping it went through.
FailedStartsOver ==
  Resumes => \A q \in NewPhases :
    Sources(q) # {} /\ (\A p \in Sources(q) : old_status[p] = "failed")
    => new_status[q] = "not_started" /\ new_reasons[q] = {}

\* Nothing old is active once the mapping is interpreted: every active attempt is frozen by this
\* migration and no guide is active (freeze_old_active_runtime).
NothingOldIsActive ==
  stage \notin {"mapping_check", "freeze"} /\ reason # "incomplete_mapping" =>
    /\ live_guides = {}
    /\ \A a \in Attempts : attempt_status[a] \in ActiveStatuses => frozen_by[a] = "this"

\* A mapping that stops half-way hands back no half-mapped phase (return new_phases, not updated).
HalfMappedIsDiscarded ==
  reason \in MappingStops => \A q \in NewPhases : new_status[q] = "not_started" /\ new_reasons[q] = {}

\* No guide with items is given up for a phase that is not its own any more.
NoGuideGuessed ==
  Resumes /\ guide_items => \A n \in DOMAIN phase_mapping :
    phase_mapping[n].old \in active_guides => phase_mapping[n].type \in Identity

\* A module that is chosen to resume has a phase to resume at: resolve_resume_phase raises no "no
\* legal continuation point" that resolve_resume_module has not raised before.
ResumePhaseExists ==
  stage = "resume_phase" =>
    LET before == Predecessors(resume_module_id)
        group == PhaseGroup(resume_module_id)
    IN \E q \in NewPhases : Leads(q, before) \/ (before = {} /\ Leads(q, group))

\* The history goes back as the outcome says: stamped throughout if the run resumes, so that no
\* old attempt can be worked on under the new overview; its active attempts alone if the migration
\* pauses or escalates; untouched if the mapping was refused.  ExecutionProtocol takes them so.
HistorySealed ==
  stage = "returned" => \A x \in Attempts :
    /\ Resumes => frozen_by[x] # None
    /\ ~Resumes => (frozen_by[x] = "this" <=> /\ attempt_status[x] \in ActiveStatuses
                                              /\ reason # "incomplete_mapping")
===============================================================================
