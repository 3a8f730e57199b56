-------------------------- MODULE ExecutionProtocol ---------------------------
(***************************************************************************)
(* The execution protocol of agent_runtime/execution: the list of         *)
(* ActionRecords, each the single attempt of one action, and the list of  *)
(* LateArrivalRecords.  One action of the specification per helper of     *)
(* protocol.py and late_arrival.py, and the two ways a migration          *)
(* (migration/core.py) copies the list back: frozen only, when it pauses  *)
(* or escalates, frozen and relinked when it resumes.  A helper that      *)
(* raises leaves the record as it was, so its raises are the guards here. *)
(*                                                                         *)
(* Abstracted: timestamps but finalized_at, payloads, snapshots, the      *)
(* write-back hint, and the revision and reason that every change stamps. *)
(* None stands for Python's None and waiting_target for "is present".     *)
(***************************************************************************)
EXTENDS Naturals, Sequences, FiniteSetsExt

CONSTANTS
  Actions,             \* action ids
  FailureReasons,      \* the FailureReasons an executor reports ...
  CountedFailures,     \* ... and those of them with counts_as_retry
  BlockedReasonTypes,  \* the blocked_reason_types an executor reports
  Times,               \* values of finalized_at
  None,
  Verdicts,            \* the values an audit gives record_integrity
  MaxRecords,          \* bound: length of the record list
  MaxLateArrivals,     \* bound: length of the late-arrival list
  MaxMigrations        \* bound: migrations of the list

AllBlockedReasonTypes ==
  {"external_tool_not_ready", "human_input_missing", "external_resource_not_ready",
   "guide_missing_info", "undeclared_dependency", "fallback_boundary_violation"}

ResumableTypes ==
  {"external_tool_not_ready", "human_input_missing", "external_resource_not_ready"}

ASSUME ConstantsAssumption ==
  /\ CountedFailures \subseteq FailureReasons
  /\ BlockedReasonTypes \subseteq AllBlockedReasonTypes
  /\ None \notin FailureReasons \cup AllBlockedReasonTypes \cup Times
  /\ Verdicts \subseteq {"valid", "invalid", "repaired"}
  /\ MaxRecords \in Nat
  /\ MaxLateArrivals \in Nat
  /\ MaxMigrations \in Nat

VARIABLES
  records,       \* list[ActionRecord], in the order of creation
  lateArrivals,  \* list[LateArrivalRecord]
  migrations     \* how many migrations have copied the list back

vars == <<records, lateArrivals, migrations>>

ActiveStatuses == {"selected", "running", "blocked"}
TerminalStatuses == {"failed", "done", "abandoned"}
TrustedIntegrity == {"valid", "repaired"}

ActionRecord ==
  [action_id : Actions,
   attempt_index : Nat \ {0},
   attempt_status : ActiveStatuses \cup TerminalStatuses,
   record_integrity : TrustedIntegrity \cup {"invalid"},
   failure_reason : FailureReasons \cup {None},
   blocked_reason : BlockedReasonTypes \cup {None},
   waiting_target : BOOLEAN,
   counts_as_retry : BOOLEAN,
   finalized : BOOLEAN,
   finalized_at : Times \cup {None},
   frozen_by_migration_id : 0..MaxMigrations]   \* 0: not frozen

LateArrivalRecord == [action_id : Actions, attempt_index : Nat \ {0}]

TypeOK == /\ records \in Seq(ActionRecord)
          /\ lateArrivals \in Seq(LateArrivalRecord)
          /\ migrations \in 0..MaxMigrations

-------------------------------------------------------------------------------
(* Reading the record list: execution/validators.py *)

Ids == DOMAIN records
AttemptsOf(a) == {i \in Ids : records[i].action_id = a}
Indices(a) == {records[i].attempt_index : i \in AttemptsOf(a)}
IsActive(r) == r.attempt_status \in ActiveStatuses
IsFrozen(r) == r.frozen_by_migration_id # 0
Trusted(a) == {i \in AttemptsOf(a) : records[i].record_integrity \in TrustedIntegrity}

\* ensure_single_active_attempt raises unless this holds.
SingleActiveAttempt ==
  \A i, j \in Ids : /\ IsActive(records[i])
                    /\ IsActive(records[j])
                    /\ records[i].action_id = records[j].action_id
                    => i = j

\* The records latest_valid_record_for_action may return: max() by attempt_index.
LatestValidRecords(a) ==
  {i \in Trusted(a) : \A j \in Trusted(a) : records[j].attempt_index <= records[i].attempt_index}

CountedRetries(a) == {i \in Trusted(a) : records[i].finalized /\ records[i].counts_as_retry}

-------------------------------------------------------------------------------
(* Changing one record: _mutate_record, _transition_record *)

\* ActionRecord.validate_single_attempt_state, re-run on every mutation.
Validated(r) ==
  /\ r.finalized => r.finalized_at # None
  /\ r.attempt_status = "blocked" => /\ r.blocked_reason # None
                                     /\ r.blocked_reason \in ResumableTypes => r.waiting_target
  /\ r.attempt_status = "failed" => r.failure_reason # None

FinalizedImmutabilityDropped(old, new) == TRUE   \* mutant: the check is not made
FinalizedImmutability(old, new) == old.finalized => new = old

FreezeChecksStatusOnly(old, new) ==              \* mutant: compares the status alone
  IsFrozen(old) => new.attempt_status = old.attempt_status
MigrationFrozenImmutability(old, new) == IsFrozen(old) => new = old

MutateRecord(i, new) ==
  /\ FinalizedImmutability(records[i], new)
  /\ MigrationFrozenImmutability(records[i], new)
  /\ Validated(new)
  /\ records' = [records EXCEPT ![i] = new]
  /\ UNCHANGED <<lateArrivals, migrations>>

VALID_TRANSITIONS ==
  {<<"selected", "running">>, <<"selected", "abandoned">>,
   <<"running", "blocked">>, <<"running", "failed">>, <<"running", "done">>,
   <<"blocked", "running">>, <<"blocked", "abandoned">>}

TransitionRecord(i, status, updated) ==
  /\ <<records[i].attempt_status, status>> \in VALID_TRANSITIONS
  /\ MutateRecord(i, [updated EXCEPT !.attempt_status = status])

Unblocked(r) == [r EXCEPT !.blocked_reason = None, !.waiting_target = FALSE]

-------------------------------------------------------------------------------
(* The operations *)

NextAttemptIndexOffByOne(a) == Max({0} \cup Indices(a))   \* mutant: the first index is 0
NextAttemptIndexOfTrusted(a) ==       \* mutant: invalid records are not looked at
  1 + Max({0} \cup {records[i].attempt_index : i \in Trusted(a)})
NextAttemptIndex(a) == 1 + Max({0} \cup Indices(a))

NewRecord(a, counts) ==
  [action_id |-> a, attempt_index |-> NextAttemptIndex(a), attempt_status |-> "selected",
   record_integrity |-> "valid", failure_reason |-> None, blocked_reason |-> None,
   waiting_target |-> FALSE, counts_as_retry |-> counts, finalized |-> FALSE,
   finalized_at |-> None, frozen_by_migration_id |-> 0]

\* Mutant: only attempts of good integrity stop a new one (get_active_attempt_for_action).
CreateAttemptIfNoneTrusted(a, counts) ==
  /\ Len(records) < MaxRecords
  /\ \A i \in Trusted(a) : ~IsActive(records[i])
  /\ records' = Append(records, NewRecord(a, counts))
  /\ UNCHANGED <<lateArrivals, migrations>>

CreateAttempt(a, counts) ==
  /\ Len(records) < MaxRecords
  /\ SingleActiveAttempt
  /\ \A i \in AttemptsOf(a) : ~IsActive(records[i])
  /\ records' = Append(records, NewRecord(a, counts))
  /\ UNCHANGED <<lateArrivals, migrations>>

StartRunning(i) == TransitionRecord(i, "running", records[i])

BlockAttempt(i, reason, waiting) ==
  /\ reason \in ResumableTypes => waiting
  /\ TransitionRecord(i, "blocked",
       [records[i] EXCEPT !.blocked_reason = reason, !.waiting_target = waiting])

ResumeAttempt(i) ==
  /\ records[i].blocked_reason \in ResumableTypes
  /\ records[i].waiting_target
  /\ TransitionRecord(i, "running", Unblocked(records[i]))

FailAttempt(i, reason) ==
  TransitionRecord(i, "failed",
    [Unblocked(records[i]) EXCEPT !.failure_reason = reason,
                                  !.counts_as_retry = reason \in CountedFailures])

CompleteKeepsWait(i) == TransitionRecord(i, "done", records[i])   \* mutant: no reset
CompleteAttempt(i) == TransitionRecord(i, "done", Unblocked(records[i]))

AbandonAttempt(i) == TransitionRecord(i, "abandoned", Unblocked(records[i]))

\* Mutant: a blocked attempt may be finalized as well.
FinalizeUnlessRunning(i, time) ==
  /\ records[i].attempt_status \in TerminalStatuses \cup {"blocked"}
  /\ MutateRecord(i, [records[i] EXCEPT !.finalized = TRUE, !.finalized_at = time])
FinalizeAttempt(i, time) ==
  /\ records[i].attempt_status \in TerminalStatuses
  /\ MutateRecord(i, [records[i] EXCEPT !.finalized = TRUE, !.finalized_at = time])

RouteLateOfTerminal(i) ==             \* mutant: routed as soon as the attempt has ended
  /\ records[i].attempt_status \in TerminalStatuses
  /\ Len(lateArrivals) < MaxLateArrivals
  /\ lateArrivals' = Append(lateArrivals, [action_id |-> records[i].action_id,
                                           attempt_index |-> records[i].attempt_index])
  /\ UNCHANGED <<records, migrations>>
RouteLateAsyncResult(i) ==
  /\ records[i].finalized
  /\ Len(lateArrivals) < MaxLateArrivals
  /\ lateArrivals' = Append(lateArrivals, [action_id |-> records[i].action_id,
                                           attempt_index |-> records[i].attempt_index])
  /\ UNCHANGED <<records, migrations>>

\* External: nothing in the package assigns record_integrity after creation; the readers above
\* and the tests treat it as set by whoever audits the list.
AuditRecord(i, verdict) ==
  /\ records' = [records EXCEPT ![i].record_integrity = verdict]
  /\ UNCHANGED <<lateArrivals, migrations>>

-------------------------------------------------------------------------------
(* Migration's two passes over the list: migration/core.py *)

FreezeByAbandoning(rs, migration) ==  \* mutant: the old active attempts are also abandoned
  [i \in DOMAIN rs |-> IF IsActive(rs[i])
                       THEN [rs[i] EXCEPT !.frozen_by_migration_id = migration,
                                          !.attempt_status = "abandoned"]
                       ELSE rs[i]]
FreezeOldActiveAttempts(rs, migration) ==
  [i \in DOMAIN rs |-> IF IsActive(rs[i])
                       THEN [rs[i] EXCEPT !.frozen_by_migration_id = migration]
                       ELSE rs[i]]

RelinkHistoricalActionRecords(rs, migration) ==
  [i \in DOMAIN rs |-> IF IsFrozen(rs[i])
                       THEN rs[i]
                       ELSE [rs[i] EXCEPT !.frozen_by_migration_id = migration]]

Migrate == /\ migrations < MaxMigrations
           /\ migrations' = migrations + 1
           /\ UNCHANGED lateArrivals

\* The migration pauses or escalates after the freeze.  One that is refused for an incomplete
\* mapping copies the list as it is.
MigrationStops == /\ Migrate
                  /\ records' = FreezeOldActiveAttempts(records, migrations + 1)

\* has_active_attempt_conflict escalates instead.
MigrationResumes ==
  /\ Migrate
  /\ SingleActiveAttempt
  /\ records' = RelinkHistoricalActionRecords(
                  FreezeOldActiveAttempts(records, migrations + 1), migrations + 1)

-------------------------------------------------------------------------------
Init == /\ records = <<>>
        /\ lateArrivals = <<>>
        /\ migrations = 0

RecordStep(i) ==
  \/ StartRunning(i)
  \/ \E reason \in BlockedReasonTypes, waiting \in BOOLEAN : BlockAttempt(i, reason, waiting)
  \/ ResumeAttempt(i)
  \/ \E reason \in FailureReasons : FailAttempt(i, reason)
  \/ CompleteAttempt(i)
  \/ AbandonAttempt(i)
  \/ \E time \in Times : FinalizeAttempt(i, time)
  \/ RouteLateAsyncResult(i)
  \/ \E verdict \in Verdicts : AuditRecord(i, verdict)

Next == \/ \E a \in Actions, counts \in BOOLEAN : CreateAttempt(a, counts)
        \/ \E i \in Ids : RecordStep(i)
        \/ MigrationStops
        \/ MigrationResumes

Spec == Init /\ [][Next]_vars

-------------------------------------------------------------------------------
(* Properties *)

\* The attempts of an action are numbered 1, 2, ... without gap or repetition, in the order in
\* which they were created (create_attempt's next_attempt_index).
AttemptsNumbered ==
  /\ \A a \in Actions : Indices(a) = 1..Cardinality(AttemptsOf(a))
  /\ \A i, j \in Ids : /\ records[i].action_id = records[j].action_id
                       /\ i < j
                       => records[i].attempt_index < records[j].attempt_index

\* An active attempt whose record is trusted is the execution truth of its action: what
\* latest_valid_record_for_action returns to the scheduler and to the mirrors.
ActiveAttemptIsTruth ==
  \A i \in Ids : /\ IsActive(records[i])
                 /\ records[i].record_integrity \in TrustedIntegrity
                 => LatestValidRecords(records[i].action_id) = {i}

\* An attempt that has ended waits for nothing, whatever path led there (fail_attempt,
\* complete_attempt and abandon_attempt clear blocked_reason and waiting_target).
EndedAttemptsDoNotWait ==
  \A i \in Ids : records[i].attempt_status \in TerminalStatuses
                 => records[i].blocked_reason = None /\ ~records[i].waiting_target

\* A late answer was only ever routed away from an attempt that is finalized, so no attempt that
\* may still change has an answer lying in the late list (route_late_async_result).
LateArrivalsOfFinalized ==
  \A n \in DOMAIN lateArrivals :
    \E i \in Ids : /\ records[i].finalized
                   /\ records[i].action_id = lateArrivals[n].action_id
                   /\ records[i].attempt_index = lateArrivals[n].attempt_index

\* What "business state" is for the two immutability validators: all but the audit's verdict and
\* the migration's stamp.
BusinessState(r) == [r EXCEPT !.record_integrity = "valid", !.frozen_by_migration_id = 0]

\* No call of the protocol, no migration and no sequence of them changes the business state of a
\* finalized record (validate_finalized_immutability, relink_historical_action_records).
FinalizedStaysPut ==
  [][\A i \in Ids : records[i].finalized => BusinessState(records'[i]) = BusinessState(records[i])]_vars

\* Migration never rewrites business state, and no later call does so behind its back: whatever
\* is frozen, or becomes frozen in this step, keeps its business state.
FrozenStaysPut ==
  [][\A i \in Ids : IsFrozen(records'[i]) => BusinessState(records'[i]) = BusinessState(records[i])]_vars

\* The record list implements the lifecycle of attempts.
Attempt(i) == <<records[i].action_id, records[i].attempt_index>>
Opened == {Attempt(i) : i \in Ids}
Closed == {Attempt(i) : i \in {j \in Ids : records[j].attempt_status \in TerminalStatuses}}
Sealed == {Attempt(i) : i \in {j \in Ids : records[j].finalized}}
Charged == {Attempt(i) : i \in {j \in Ids : records[j].finalized /\ records[j].counts_as_retry}}
Barred == {Attempt(i) : i \in {j \in Ids : IsFrozen(records[j])}}

Lifecycle == INSTANCE AttemptLifecycle
               WITH MaxAttempts <- MaxRecords, opened <- Opened, closed <- Closed,
                    sealed <- Sealed, charged <- Charged, barred <- Barred

\* The record protocol refines AttemptLifecycle: attempts of one action never overlap, close
\* once, are sealed only when closed and keep the verdict they were sealed with.
LifecycleSpec == Lifecycle!Spec

\* Only an attempt that failed is charged against the retry limit ("`selected -> abandoned` is a
\* real attempt but does not increment retry count", phase-2-execution-protocol.md:67).
OnlyFailuresAreRetries ==
  \A a \in Actions : \A i \in CountedRetries(a) : records[i].attempt_status = "failed"

\* An attempt blocked for a reason that cannot be waited out is never run again in place
\* ("blocked attempt is not resumable in-place", protocol.py:212).
UnresumableStaysBlocked ==
  [][\A i \in Ids : /\ records[i].attempt_status = "blocked"
                    /\ records[i].blocked_reason \notin ResumableTypes
                    => records'[i].attempt_status # "running"]_vars
===============================================================================
