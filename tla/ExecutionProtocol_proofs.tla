----------------------- MODULE ExecutionProtocol_proofs -----------------------
(***************************************************************************)
(* Proofs about ExecutionProtocol, for every value of its constants.      *)
(*                                                                         *)
(* A step either appends a fresh record (CreateStep) or lets every record *)
(* evolve in place (Evolves, EvolveStep).  The invariants are proved from *)
(* these two shapes, so that no argument but the two lemmas looks at the  *)
(* individual helpers of protocol.py and migration/core.py.               *)
(***************************************************************************)
EXTENDS ExecutionProtocol, FiniteSetTheorems, TLAPS

IsTerminal(r) == r.attempt_status \in TerminalStatuses
NotWaiting(r) == r.blocked_reason = None /\ ~r.waiting_target

(* What a step may do to a record that is already in the list. *)
Evolves(old, new) ==
  /\ new \in ActionRecord
  /\ new.action_id = old.action_id
  /\ new.attempt_index = old.attempt_index
  /\ IsTerminal(old) => IsTerminal(new)
  /\ IsFrozen(old) => IsFrozen(new)
  /\ old.finalized \/ IsFrozen(new) => BusinessState(new) = BusinessState(old)
  /\ ~old.finalized /\ new.finalized
     => IsTerminal(old) /\ new.counts_as_retry = old.counts_as_retry
  /\ IsTerminal(new) => NotWaiting(new) \/ IsTerminal(old)
  /\ IsTerminal(new) /\ NotWaiting(old) => NotWaiting(new)

(* A record that is left alone evolves. *)
LEMMA EvolvesReflexive == \A r \in ActionRecord : Evolves(r, r)
  BY DEF Evolves

(* What equal business state says about single fields. *)
LEMMA BusinessStateFields ==
  ASSUME NEW r \in ActionRecord, NEW s \in ActionRecord, BusinessState(r) = BusinessState(s)
  PROVE  /\ r.attempt_status = s.attempt_status
         /\ r.finalized = s.finalized
         /\ r.counts_as_retry = s.counts_as_retry
<1>1. \A q \in ActionRecord : /\ BusinessState(q).attempt_status = q.attempt_status
                             /\ BusinessState(q).finalized = q.finalized
                             /\ BusinessState(q).counts_as_retry = q.counts_as_retry
  BY DEF BusinessState, ActionRecord
<1> QED
  BY <1>1

(* What _transition_record lets an operation do to the record. *)
LEMMA TransitionEvolves ==
  ASSUME TypeOK, NEW i \in Ids, NEW status, NEW updated \in ActionRecord,
         TransitionRecord(i, status, updated),
         updated.action_id = records[i].action_id,
         updated.attempt_index = records[i].attempt_index,
         updated.finalized = records[i].finalized,
         updated.frozen_by_migration_id = records[i].frozen_by_migration_id,
         status \in TerminalStatuses => NotWaiting(updated)
  PROVE  LET new == [updated EXCEPT !.attempt_status = status]
         IN  /\ records' = [records EXCEPT ![i] = new]
             /\ Evolves(records[i], new)
             /\ new.frozen_by_migration_id = records[i].frozen_by_migration_id
<1> DEFINE new == [updated EXCEPT !.attempt_status = status]
<1>1. records[i] \in ActionRecord
  BY DEF TypeOK, Ids
<1>2. /\ <<records[i].attempt_status, status>> \in VALID_TRANSITIONS
      /\ records' = [records EXCEPT ![i] = new]
      /\ records[i].finalized => new = records[i]
      /\ IsFrozen(records[i]) => new = records[i]
  BY DEF TransitionRecord, MutateRecord, FinalizedImmutability, MigrationFrozenImmutability
<1>3. /\ status \in ActiveStatuses \cup TerminalStatuses
      /\ records[i].attempt_status # status
      /\ ~IsTerminal(records[i])
  BY <1>2 DEF VALID_TRANSITIONS, ActiveStatuses, TerminalStatuses, IsTerminal
<1>4. new \in ActionRecord /\ new.attempt_status = status
  BY <1>1, <1>3 DEF ActionRecord
<1>5. ~records[i].finalized /\ ~IsFrozen(records[i])
  BY <1>2, <1>3, <1>4
<1>6. /\ new.action_id = records[i].action_id
      /\ new.attempt_index = records[i].attempt_index
      /\ new.finalized = records[i].finalized
      /\ new.frozen_by_migration_id = records[i].frozen_by_migration_id
      /\ new.blocked_reason = updated.blocked_reason
      /\ new.waiting_target = updated.waiting_target
  BY DEF ActionRecord
<1>7. Evolves(records[i], new)
  BY <1>3, <1>4, <1>5, <1>6 DEF Evolves, IsFrozen, IsTerminal, NotWaiting
<1> QED
  BY <1>2, <1>6, <1>7

(* One record of the list evolves and the rest of the state stays. *)
OneEvolves(i, new) ==
  /\ records' = [records EXCEPT ![i] = new]
  /\ UNCHANGED <<lateArrivals, migrations>>
  /\ new.frozen_by_migration_id = records[i].frozen_by_migration_id
  /\ Evolves(records[i], new)

(* Every operation on one record but the routing of a late result lets it evolve. *)
LEMMA RecordStepEvolves ==
  ASSUME TypeOK, NEW i \in Ids, RecordStep(i), ~RouteLateAsyncResult(i)
  PROVE  \E new \in ActionRecord : OneEvolves(i, new)
<1>1. records[i] \in ActionRecord
  BY DEF TypeOK, Ids
<1>2. Unblocked(records[i]) \in ActionRecord /\ NotWaiting(Unblocked(records[i]))
  BY <1>1 DEF Unblocked, ActionRecord, NotWaiting
<1>3. ASSUME NEW status, NEW updated \in ActionRecord,
             TransitionRecord(i, status, updated),
             updated.action_id = records[i].action_id,
             updated.attempt_index = records[i].attempt_index,
             updated.finalized = records[i].finalized,
             updated.frozen_by_migration_id = records[i].frozen_by_migration_id,
             status \in TerminalStatuses => NotWaiting(updated)
      PROVE  \E new \in ActionRecord : OneEvolves(i, new)
  <2> DEFINE new == [updated EXCEPT !.attempt_status = status]
  <2>1. /\ records' = [records EXCEPT ![i] = new]
        /\ Evolves(records[i], new)
        /\ new.frozen_by_migration_id = records[i].frozen_by_migration_id
    BY <1>3, TransitionEvolves
  <2>2. UNCHANGED <<lateArrivals, migrations>>
    BY <1>3 DEF TransitionRecord, MutateRecord
  <2> QED
    BY <2>1, <2>2 DEF OneEvolves, Evolves
<1>4. CASE StartRunning(i)
  BY <1>1, <1>3, <1>4 DEF StartRunning, TerminalStatuses
<1>5. ASSUME NEW reason \in BlockedReasonTypes, NEW waiting \in BOOLEAN,
             BlockAttempt(i, reason, waiting)
      PROVE  \E new \in ActionRecord : OneEvolves(i, new)
  <2> DEFINE updated == [records[i] EXCEPT !.blocked_reason = reason, !.waiting_target = waiting]
  <2>1. /\ updated \in ActionRecord
        /\ updated.action_id = records[i].action_id
        /\ updated.attempt_index = records[i].attempt_index
        /\ updated.finalized = records[i].finalized
        /\ updated.frozen_by_migration_id = records[i].frozen_by_migration_id
    BY <1>1 DEF ActionRecord
  <2>2. TransitionRecord(i, "blocked", updated)
    BY <1>5 DEF BlockAttempt
  <2> HIDE DEF updated
  <2> QED
    BY <1>3, <2>1, <2>2 DEF TerminalStatuses
<1>6. CASE \/ ResumeAttempt(i)
           \/ CompleteAttempt(i)
           \/ AbandonAttempt(i)
  <2> DEFINE updated == Unblocked(records[i])
  <2>1. /\ updated.action_id = records[i].action_id
        /\ updated.attempt_index = records[i].attempt_index
        /\ updated.finalized = records[i].finalized
        /\ updated.frozen_by_migration_id = records[i].frozen_by_migration_id
    BY <1>1 DEF ActionRecord, Unblocked
  <2>2. PICK status : TransitionRecord(i, status, updated)
    BY <1>6 DEF ResumeAttempt, CompleteAttempt, AbandonAttempt
  <2>3. updated \in ActionRecord /\ NotWaiting(updated)
    BY <1>2
  <2> HIDE DEF updated
  <2> QED
    BY <1>3, <2>1, <2>2, <2>3
<1>7. ASSUME NEW reason \in FailureReasons, FailAttempt(i, reason)
      PROVE  \E new \in ActionRecord : OneEvolves(i, new)
  <2> DEFINE counted == reason \in CountedFailures
             updated == [Unblocked(records[i]) EXCEPT !.failure_reason = reason,
                                                      !.counts_as_retry = counted]
  <2>0. counted \in BOOLEAN
    OBVIOUS
  <2> HIDE DEF counted
  <2>1. /\ updated \in ActionRecord
        /\ updated.action_id = records[i].action_id
        /\ updated.attempt_index = records[i].attempt_index
        /\ updated.finalized = records[i].finalized
        /\ updated.frozen_by_migration_id = records[i].frozen_by_migration_id
        /\ NotWaiting(updated)
    BY <1>1, <2>0 DEF ActionRecord, Unblocked, NotWaiting
  <2>2. TransitionRecord(i, "failed", updated)
    BY <1>7 DEF FailAttempt, counted
  <2> HIDE DEF updated
  <2> QED
    BY <1>3, <2>1, <2>2
<1>8. ASSUME NEW time \in Times, FinalizeAttempt(i, time)
      PROVE  \E new \in ActionRecord : OneEvolves(i, new)
  <2> DEFINE new == [records[i] EXCEPT !.finalized = TRUE, !.finalized_at = time]
  <2>1. /\ IsTerminal(records[i])
        /\ records[i].finalized => new = records[i]
        /\ IsFrozen(records[i]) => new = records[i]
        /\ records' = [records EXCEPT ![i] = new]
        /\ UNCHANGED <<lateArrivals, migrations>>
    BY <1>8 DEF FinalizeAttempt, MutateRecord, FinalizedImmutability,
                MigrationFrozenImmutability, IsTerminal
  <2>2. /\ new \in ActionRecord
        /\ new.action_id = records[i].action_id
        /\ new.attempt_index = records[i].attempt_index
        /\ new.attempt_status = records[i].attempt_status
        /\ new.counts_as_retry = records[i].counts_as_retry
        /\ new.blocked_reason = records[i].blocked_reason
        /\ new.waiting_target = records[i].waiting_target
        /\ new.frozen_by_migration_id = records[i].frozen_by_migration_id
    BY <1>1 DEF ActionRecord
  <2>3. Evolves(records[i], new)
    BY <2>1, <2>2 DEF Evolves, IsTerminal, IsFrozen, NotWaiting
  <2> QED
    BY <2>1, <2>2, <2>3 DEF OneEvolves
<1>9. ASSUME NEW verdict \in Verdicts, AuditRecord(i, verdict)
      PROVE  \E new \in ActionRecord : OneEvolves(i, new)
  <2> DEFINE new == [records[i] EXCEPT !.record_integrity = verdict]
  <2>1. /\ records' = [records EXCEPT ![i] = new]
        /\ UNCHANGED <<lateArrivals, migrations>>
    BY <1>9 DEF AuditRecord
  <2>2. /\ new \in ActionRecord
        /\ BusinessState(new) = BusinessState(records[i])
        /\ new.frozen_by_migration_id = records[i].frozen_by_migration_id
    BY <1>1, ConstantsAssumption DEF ActionRecord, BusinessState, TrustedIntegrity
  <2>3. Evolves(records[i], new)
    BY <1>1, <2>2 DEF Evolves, IsTerminal, IsFrozen, NotWaiting, ActionRecord
  <2> QED
    BY <2>1, <2>2, <2>3 DEF OneEvolves
<1> QED
  BY <1>4, <1>5, <1>6, <1>7, <1>8, <1>9 DEF RecordStep

(* The whole list evolves in place. *)
AllEvolve ==
  /\ records' \in Seq(ActionRecord)
  /\ Ids' = Ids
  /\ \A i \in Ids : Evolves(records[i], records'[i])

(* When one record evolves, the list does. *)
LEMMA OneOfAllEvolves ==
  ASSUME TypeOK, NEW i \in Ids, NEW new \in ActionRecord, OneEvolves(i, new)
  PROVE  AllEvolve
<1>1. records \in Seq(ActionRecord) /\ \A j \in Ids : Evolves(records[j], records[j])
  BY EvolvesReflexive DEF TypeOK, Ids
<1> QED
  BY <1>1 DEF AllEvolve, OneEvolves, Ids

(* A migration freezes and relinks, and touches nothing else of a record. *)
LEMMA MigrationEvolves ==
  ASSUME TypeOK, MigrationStops \/ MigrationResumes
  PROVE  /\ AllEvolve
         /\ \A i \in Ids : BusinessState(records'[i]) = BusinessState(records[i])
         /\ migrations' \in 0..MaxMigrations
         /\ lateArrivals' = lateArrivals
<1> DEFINE m == migrations + 1
           frozen == FreezeOldActiveAttempts(records, m)
<1>1. /\ m \in 1..MaxMigrations
      /\ migrations' = m
      /\ lateArrivals' = lateArrivals
  BY ConstantsAssumption DEF TypeOK, MigrationStops, MigrationResumes, Migrate
<1>2. records \in [1..Len(records) -> ActionRecord] /\ Len(records) \in Nat
  BY DEF TypeOK
<1>3. ASSUME NEW i \in Ids, NEW r \in ActionRecord,
             r = records[i] \/ r = [records[i] EXCEPT !.frozen_by_migration_id = m]
      PROVE  Evolves(records[i], r) /\ BusinessState(r) = BusinessState(records[i])
  <2>1. records[i] \in ActionRecord
    BY <1>2 DEF Ids
  <2>2. BusinessState(r) = BusinessState(records[i])
    BY <1>3, <2>1 DEF BusinessState, ActionRecord
  <2>3. /\ r.action_id = records[i].action_id
        /\ r.attempt_index = records[i].attempt_index
        /\ r.attempt_status = records[i].attempt_status
        /\ r.blocked_reason = records[i].blocked_reason
        /\ r.waiting_target = records[i].waiting_target
        /\ r.finalized = records[i].finalized
        /\ IsFrozen(records[i]) => IsFrozen(r)
    BY <1>1, <1>3, <2>1 DEF ActionRecord, IsFrozen
  <2> QED
    BY <1>3, <2>2, <2>3 DEF Evolves, IsTerminal, NotWaiting
<1>4. ASSUME NEW i \in Ids
      PROVE  [records[i] EXCEPT !.frozen_by_migration_id = m] \in ActionRecord
  BY <1>1, <1>2 DEF Ids, ActionRecord
<1>5. /\ DOMAIN records' = 1..Len(records)
      /\ \A i \in Ids : records'[i] \in {records[i], [records[i] EXCEPT !.frozen_by_migration_id = m]}
  <2>1. /\ frozen = [i \in Ids |-> frozen[i]]
        /\ \A i \in Ids : frozen[i] \in {records[i], [records[i] EXCEPT !.frozen_by_migration_id = m]}
    BY DEF FreezeOldActiveAttempts, Ids
  <2>2. CASE MigrationStops
    BY <1>2, <2>1, <2>2 DEF MigrationStops, Ids
  <2>3. CASE MigrationResumes
    <3>1. records' = RelinkHistoricalActionRecords(frozen, m)
      BY <2>3 DEF MigrationResumes
    <3> HIDE DEF frozen
    <3>2. \A i \in Ids : IsFrozen([records[i] EXCEPT !.frozen_by_migration_id = m])
      BY <1>1, <1>2 DEF IsFrozen, Ids, ActionRecord
    <3> QED
      BY <1>2, <2>1, <3>1, <3>2 DEF RelinkHistoricalActionRecords, Ids
  <2> QED
    BY <2>2, <2>3
<1>6. \A i \in Ids : records'[i] \in ActionRecord
  BY <1>2, <1>4, <1>5 DEF Ids
<1>7. /\ records' \in Seq(ActionRecord)
      /\ Ids' = Ids
  <2>1. records' \in [1..Len(records) -> ActionRecord]
    <3>1. records' = [i \in 1..Len(records) |-> records'[i]]
      BY <1>5 DEF MigrationStops, MigrationResumes, FreezeOldActiveAttempts,
                  RelinkHistoricalActionRecords
    <3> QED
      BY <1>2, <1>6, <3>1 DEF Ids
  <2> QED
    BY <1>2, <1>5, <2>1 DEF Ids
<1> QED
  BY <1>1, <1>3, <1>5, <1>6, <1>7 DEF AllEvolve

-------------------------------------------------------------------------------
(* The inductive invariant *)

(* An active attempt is the last one created for its action.  This is what *)
(* makes the single active attempt and the numbering inductive: only the   *)
(* last attempt can still change, and a new one is only appended once it   *)
(* has ended.                                                              *)
ActiveIsLast ==
  \A i, j \in Ids : /\ IsActive(records[i])
                    /\ records[j].action_id = records[i].action_id
                    => j <= i

FinalizedHasEnded == \A i \in Ids : records[i].finalized => IsTerminal(records[i])

IInv == /\ TypeOK
        /\ Len(records) <= MaxRecords
        /\ ActiveIsLast
        /\ AttemptsNumbered
        /\ FinalizedHasEnded
        /\ EndedAttemptsDoNotWait
        /\ LateArrivalsOfFinalized

(* An attempt is either active or has ended. *)
LEMMA StatusesPartition == \A r \in ActionRecord : IsTerminal(r) <=> ~IsActive(r)
  BY DEF ActionRecord, IsTerminal, IsActive, ActiveStatuses, TerminalStatuses

(* The attempts of an action can be counted. *)
LEMMA AttemptsFinite ==
  ASSUME TypeOK, NEW a
  PROVE  /\ IsFiniteSet(AttemptsOf(a))
         /\ Cardinality(AttemptsOf(a)) \in Nat
         /\ Cardinality(AttemptsOf(a)) <= Len(records)
<1>1. /\ Len(records) \in Nat
      /\ AttemptsOf(a) \subseteq 1..Len(records)
  BY DEF TypeOK, AttemptsOf, Ids
<1>2. /\ IsFiniteSet(1..Len(records))
      /\ Cardinality(1..Len(records)) = Len(records)
  <2>1. /\ IsFiniteSet(1..Len(records))
        /\ Cardinality(1..Len(records)) = IF 1 > Len(records) THEN 0 ELSE Len(records) - 1 + 1
    BY <1>1, FS_Interval
  <2> QED
    BY <1>1, <2>1
<1> QED
  BY <1>1, <1>2, FS_Subset, FS_CardinalityType

(* create_attempt numbers the new attempt one past those there are. *)
LEMMA NextAttemptIndexIsNext ==
  ASSUME TypeOK, AttemptsNumbered, NEW a \in Actions
  PROVE  NextAttemptIndex(a) = Cardinality(AttemptsOf(a)) + 1
<1> DEFINE n == Cardinality(AttemptsOf(a))
<1>1. n \in Nat
  BY AttemptsFinite
<1>2. Indices(a) = 1..n
  BY DEF AttemptsNumbered
<1> HIDE DEF n
<1>3. {0} \cup 1..n = 0..n
  BY <1>1
<1>4. Max(0..n) = n
  <2>1. n \in 0..n /\ \A y \in 0..n : n >= y
    BY <1>1
  <2>2. \A x \in 0..n : (\A y \in 0..n : x >= y) => x = n
    BY <1>1
  <2> QED
    BY <2>1, <2>2 DEF Max
<1>5. {0} \cup Indices(a) = 0..n
  BY <1>2, <1>3 DEF n
<1>6. NextAttemptIndex(a) = 1 + n
  BY <1>4, <1>5, Zenon DEF NextAttemptIndex
<1> QED
  BY <1>1, <1>6 DEF n

(* A created attempt goes to the end of the list, fresh and selected. *)
LEMMA CreateAppends ==
  ASSUME IInv, NEW a \in Actions, NEW counts \in BOOLEAN, CreateAttempt(a, counts)
  PROVE  /\ NewRecord(a, counts) \in ActionRecord
         /\ records' = Append(records, NewRecord(a, counts))
         /\ records' \in Seq(ActionRecord)
         /\ Len(records') = Len(records) + 1
         /\ Len(records') <= MaxRecords
         /\ Ids' = Ids \cup {Len(records) + 1}
         /\ Len(records) + 1 \notin Ids
         /\ \A i \in Ids : records'[i] = records[i]
         /\ records'[Len(records) + 1] = NewRecord(a, counts)
         /\ UNCHANGED <<lateArrivals, migrations>>
<1>1. NextAttemptIndex(a) \in Nat \ {0}
  BY NextAttemptIndexIsNext, AttemptsFinite DEF IInv
<1>2. NewRecord(a, counts) \in ActionRecord
  BY <1>1, ConstantsAssumption
     DEF NewRecord, ActionRecord, ActiveStatuses, TrustedIntegrity
<1>3. /\ records' = Append(records, NewRecord(a, counts))
      /\ Len(records) < MaxRecords
      /\ UNCHANGED <<lateArrivals, migrations>>
  BY DEF CreateAttempt
<1>4. records \in Seq(ActionRecord) /\ Len(records) \in Nat
  BY DEF IInv, TypeOK
<1> QED
  BY <1>2, <1>3, <1>4, ConstantsAssumption DEF Ids

(* The empty lists satisfy the invariant. *)
LEMMA InitEstablishesIInv == Init => IInv
<1> SUFFICES ASSUME Init PROVE IInv
  OBVIOUS
<1>1. records = <<>> /\ lateArrivals = <<>> /\ migrations = 0 /\ Ids = {}
  BY DEF Init, Ids
<1>2. TypeOK /\ Len(records) <= MaxRecords
  BY <1>1, ConstantsAssumption DEF TypeOK
<1>3. AttemptsNumbered
  <2> SUFFICES ASSUME NEW a \in Actions
               PROVE  Indices(a) = 1..Cardinality(AttemptsOf(a))
    BY <1>1 DEF AttemptsNumbered
  <2>1. AttemptsOf(a) = {} /\ Indices(a) = {}
    BY <1>1 DEF AttemptsOf, Indices
  <2> QED
    BY <2>1, FS_EmptySet
<1> QED
  BY <1>1, <1>2, <1>3
     DEF IInv, ActiveIsLast, FinalizedHasEnded, EndedAttemptsDoNotWait, LateArrivalsOfFinalized

(* create_attempt preserves the invariant. *)
LEMMA CreatePreservesIInv ==
  ASSUME IInv, NEW a \in Actions, NEW counts \in BOOLEAN, CreateAttempt(a, counts)
  PROVE  IInv'
<1> DEFINE k == Len(records) + 1
           new == NewRecord(a, counts)
<1>1. /\ new \in ActionRecord
      /\ records' \in Seq(ActionRecord)
      /\ Len(records') <= MaxRecords
      /\ Ids' = Ids \cup {k}
      /\ k \notin Ids
      /\ \A i \in Ids : records'[i] = records[i]
      /\ records'[k] = new
      /\ UNCHANGED <<lateArrivals, migrations>>
  BY CreateAppends
<1>2. /\ new.action_id = a
      /\ new.attempt_index = Cardinality(AttemptsOf(a)) + 1
      /\ new.attempt_status = "selected"
      /\ new.finalized = FALSE
  BY NextAttemptIndexIsNext DEF NewRecord, IInv
<1>3. /\ \A i \in Ids : i \in Nat /\ i < k
      /\ k \in Nat
  BY DEF IInv, TypeOK, Ids
<1>4. \A i \in AttemptsOf(a) : ~IsActive(records[i])
  BY DEF CreateAttempt
<1> HIDE DEF new, k
<1>5. TypeOK'
  BY <1>1 DEF TypeOK, IInv
<1>6. ActiveIsLast'
  <2> SUFFICES ASSUME NEW i \in Ids', NEW j \in Ids',
                      IsActive(records'[i]), records'[j].action_id = records'[i].action_id
               PROVE  j <= i
    BY DEF ActiveIsLast, IsActive
  <2>1. CASE i = k
    BY <1>1, <1>3, <2>1
  <2>2. CASE i \in Ids /\ j = k
    BY <1>1, <1>2, <1>4, <2>2 DEF AttemptsOf
  <2>3. CASE i \in Ids /\ j \in Ids
    BY <1>1, <2>3 DEF IInv, ActiveIsLast
  <2> QED
    BY <1>1, <2>1, <2>2, <2>3
<1>7. AttemptsNumbered'
  <2>1. ASSUME NEW b \in Actions
        PROVE  Indices(b)' = 1..Cardinality(AttemptsOf(b)')
    <3>1. Indices(b) = 1..Cardinality(AttemptsOf(b))
      BY DEF IInv, AttemptsNumbered
    <3>2. CASE b # a
      <4>1. AttemptsOf(b)' = AttemptsOf(b)
        BY <1>1, <1>2, <3>2 DEF AttemptsOf
      <4>2. Indices(b)' = Indices(b)
        BY <1>1, <4>1 DEF Indices, AttemptsOf
      <4> QED
        BY <3>1, <4>1, <4>2
    <3>3. CASE b = a
      <4>1. AttemptsOf(a)' = AttemptsOf(a) \cup {k} /\ k \notin AttemptsOf(a)
        BY <1>1, <1>2 DEF AttemptsOf
      <4>2. /\ Cardinality(AttemptsOf(a)') = Cardinality(AttemptsOf(a)) + 1
            /\ Cardinality(AttemptsOf(a)) \in Nat
        BY <4>1, AttemptsFinite, FS_AddElement DEF IInv
      <4>3. Indices(a)' = Indices(a) \cup {new.attempt_index}
        BY <1>1, <4>1 DEF Indices, AttemptsOf
      <4>4. \A n \in Nat : 1..n \cup {n + 1} = 1..(n + 1)
        OBVIOUS
      <4> QED
        BY <1>2, <3>1, <3>3, <4>2, <4>3, <4>4
    <3> QED
      BY <3>2, <3>3
  <2>2. ASSUME NEW i \in Ids', NEW j \in Ids',
               records'[i].action_id = records'[j].action_id, i < j
        PROVE  records'[i].attempt_index < records'[j].attempt_index
    <3>1. CASE i = k
      BY <1>1, <1>3, <2>2, <3>1
    <3>2. CASE i \in Ids /\ j \in Ids
      BY <1>1, <2>2, <3>2 DEF IInv, AttemptsNumbered
    <3>3. CASE i \in Ids /\ j = k
      <4>1. records[i].attempt_index \in Indices(a)
        BY <1>1, <1>2, <2>2, <3>3 DEF Indices, AttemptsOf
      <4>2. records[i].attempt_index \in 1..Cardinality(AttemptsOf(a))
        BY <4>1 DEF IInv, AttemptsNumbered
      <4>3. Cardinality(AttemptsOf(a)) \in Nat
        BY AttemptsFinite DEF IInv
      <4> QED
        BY <1>1, <1>2, <3>3, <4>2, <4>3
    <3> QED
      BY <1>1, <3>1, <3>2, <3>3
  <2> QED
    BY <2>1, <2>2 DEF AttemptsNumbered
<1>8. FinalizedHasEnded'
  BY <1>1, <1>2 DEF IInv, FinalizedHasEnded, IsTerminal
<1>9. EndedAttemptsDoNotWait'
  BY <1>1, <1>2 DEF IInv, EndedAttemptsDoNotWait, TerminalStatuses
<1>10. LateArrivalsOfFinalized'
  BY <1>1 DEF IInv, LateArrivalsOfFinalized
<1> QED
  BY <1>1, <1>5, <1>6, <1>7, <1>8, <1>9, <1>10 DEF IInv

(* Whatever a step does to the records in place, the invariant survives.   *)
LEMMA EvolvingPreservesIInv ==
  ASSUME IInv, AllEvolve, migrations' \in 0..MaxMigrations, lateArrivals' = lateArrivals
  PROVE  IInv'
<1>1. /\ Ids' = Ids
      /\ records' \in Seq(ActionRecord)
      /\ \A i \in Ids : /\ records[i] \in ActionRecord
                        /\ records'[i] \in ActionRecord
                        /\ Evolves(records[i], records'[i])
  BY DEF AllEvolve, IInv, TypeOK, Ids
<1>2. \A i \in Ids : /\ records'[i].action_id = records[i].action_id
                     /\ records'[i].attempt_index = records[i].attempt_index
                     /\ IsActive(records'[i]) => IsActive(records[i])
  BY <1>1, StatusesPartition DEF Evolves
<1>3. TypeOK' /\ Len(records') <= MaxRecords
  BY <1>1 DEF IInv, TypeOK, Ids
<1>4. ActiveIsLast'
  BY <1>1, <1>2 DEF IInv, ActiveIsLast, IsActive
<1>5. AttemptsNumbered'
  <2>1. \A a : AttemptsOf(a)' = AttemptsOf(a)
    BY <1>1, <1>2 DEF AttemptsOf
  <2>2. \A a : Indices(a)' = Indices(a)
    BY <1>2, <2>1 DEF Indices, AttemptsOf
  <2> QED
    BY <1>1, <1>2, <2>1, <2>2 DEF IInv, AttemptsNumbered
<1>6. FinalizedHasEnded'
  BY <1>1 DEF IInv, FinalizedHasEnded, Evolves, IsTerminal
<1>7. EndedAttemptsDoNotWait'
  BY <1>1 DEF IInv, EndedAttemptsDoNotWait, Evolves, IsTerminal, NotWaiting
<1>8. \A i \in Ids : records[i].finalized => records'[i].finalized
  BY <1>1, BusinessStateFields DEF Evolves
<1>9. LateArrivalsOfFinalized'
  BY <1>1, <1>2, <1>8 DEF IInv, LateArrivalsOfFinalized
<1> QED
  BY <1>3, <1>4, <1>5, <1>6, <1>7, <1>9 DEF IInv

(* A routed answer is one of a finalized attempt. *)
LEMMA RoutingPreservesIInv ==
  ASSUME IInv, NEW i \in Ids, RouteLateAsyncResult(i)
  PROVE  IInv'
<1> DEFINE late == [action_id |-> records[i].action_id,
                    attempt_index |-> records[i].attempt_index]
<1>1. /\ records' = records
      /\ migrations' = migrations
      /\ lateArrivals' = Append(lateArrivals, late)
      /\ records[i].finalized
  BY DEF RouteLateAsyncResult
<1>2. lateArrivals \in Seq(LateArrivalRecord) /\ records[i] \in ActionRecord
  BY DEF IInv, TypeOK, Ids
<1>3. late \in LateArrivalRecord
  BY <1>2 DEF LateArrivalRecord, ActionRecord
<1>4. /\ lateArrivals' \in Seq(LateArrivalRecord)
      /\ \A n \in DOMAIN lateArrivals' :
           \/ n \in DOMAIN lateArrivals /\ lateArrivals'[n] = lateArrivals[n]
           \/ lateArrivals'[n] = late
  BY <1>1, <1>2, <1>3
<1>5. TypeOK'
  BY <1>1, <1>4 DEF IInv, TypeOK
<1>6. LateArrivalsOfFinalized'
  <2> SUFFICES ASSUME NEW n \in DOMAIN lateArrivals'
               PROVE  \E j \in Ids : /\ records[j].finalized
                                     /\ records[j].action_id = lateArrivals'[n].action_id
                                     /\ records[j].attempt_index = lateArrivals'[n].attempt_index
    BY <1>1 DEF LateArrivalsOfFinalized, Ids
  <2>1. CASE n \in DOMAIN lateArrivals /\ lateArrivals'[n] = lateArrivals[n]
    BY <2>1 DEF IInv, LateArrivalsOfFinalized
  <2>2. CASE lateArrivals'[n] = late
    BY <1>1, <2>2
  <2> QED
    BY <1>4, <2>1, <2>2
<1>7. Ids' = Ids /\ \A a : AttemptsOf(a)' = AttemptsOf(a) /\ Indices(a)' = Indices(a)
  BY <1>1 DEF Ids, AttemptsOf, Indices
<1> QED
  BY <1>1, <1>5, <1>6, <1>7
     DEF IInv, ActiveIsLast, AttemptsNumbered, FinalizedHasEnded, EndedAttemptsDoNotWait

(* Every step has one of four shapes. *)
LEMMA StepShapes ==
  ASSUME TypeOK, [Next]_vars
  PROVE  \/ \E a \in Actions, counts \in BOOLEAN : CreateAttempt(a, counts)
         \/ \E i \in Ids : RouteLateAsyncResult(i)
         \/ \E i \in Ids, new \in ActionRecord : OneEvolves(i, new)
         \/ MigrationStops \/ MigrationResumes
         \/ UNCHANGED vars
<1>1. CASE \E i \in Ids : RecordStep(i)
  BY <1>1, RecordStepEvolves
<1> QED
  BY <1>1 DEF Next

(* The invariant is inductive. *)
LEMMA NextPreservesIInv == IInv /\ [Next]_vars => IInv'
<1> SUFFICES ASSUME IInv, [Next]_vars PROVE IInv'
  OBVIOUS
<1>0. TypeOK
  BY DEF IInv
<1>1. CASE \E a \in Actions, counts \in BOOLEAN : CreateAttempt(a, counts)
  BY <1>1, CreatePreservesIInv
<1>2. CASE \E i \in Ids : RouteLateAsyncResult(i)
  BY <1>2, RoutingPreservesIInv
<1>3. ASSUME NEW i \in Ids, NEW new \in ActionRecord, OneEvolves(i, new)
      PROVE  IInv'
  <2>1. AllEvolve
    BY <1>0, <1>3, OneOfAllEvolves
  <2>2. migrations' \in 0..MaxMigrations /\ lateArrivals' = lateArrivals
    BY <1>0, <1>3 DEF OneEvolves, TypeOK
  <2> QED
    BY <2>1, <2>2, EvolvingPreservesIInv
<1>4. CASE MigrationStops \/ MigrationResumes
  BY <1>0, <1>4, MigrationEvolves, EvolvingPreservesIInv
<1>5. CASE UNCHANGED vars
  BY <1>5 DEF vars, IInv, TypeOK, Ids, ActiveIsLast, AttemptsNumbered, Indices, AttemptsOf,
              FinalizedHasEnded, EndedAttemptsDoNotWait, LateArrivalsOfFinalized
<1> QED
  BY <1>0, <1>1, <1>2, <1>3, <1>4, <1>5, StepShapes

-------------------------------------------------------------------------------
(* The invariants *)

(* The inductive invariant holds throughout. *)
THEOREM Inductive == Spec => []IInv
<1> QED
  BY InitEstablishesIInv, NextPreservesIInv, PTL DEF Spec

(* Every record and late arrival is a value of its model class. *)
THEOREM TypeCorrect == Spec => []TypeOK
<1>1. IInv => TypeOK
  BY DEF IInv
<1> QED
  BY <1>1, Inductive, PTL

(* ensure_single_active_attempt never raises: an action has at most one active attempt. *)
THEOREM OneActiveAttempt == Spec => []SingleActiveAttempt
<1>1. IInv => SingleActiveAttempt
  <2> SUFFICES ASSUME IInv, NEW i \in Ids, NEW j \in Ids,
                      IsActive(records[i]), IsActive(records[j]),
                      records[i].action_id = records[j].action_id
               PROVE  i = j
    BY DEF SingleActiveAttempt
  <2>1. i \in Nat /\ j \in Nat
    BY DEF IInv, TypeOK, Ids
  <2>2. i <= j /\ j <= i
    BY DEF IInv, ActiveIsLast
  <2> QED
    BY <2>1, <2>2
<1> QED
  BY <1>1, Inductive, PTL

(* create_attempt numbers the attempts of an action without gap or repetition. *)
THEOREM AttemptsAreNumbered == Spec => []AttemptsNumbered
<1>1. IInv => AttemptsNumbered
  BY DEF IInv
<1> QED
  BY <1>1, Inductive, PTL

(* A trusted active attempt is what latest_valid_record_for_action returns. *)
LEMMA TrustedActiveIsTruth == IInv => ActiveAttemptIsTruth
<1> SUFFICES ASSUME IInv, NEW i \in Ids, IsActive(records[i]),
                    records[i].record_integrity \in TrustedIntegrity
             PROVE  LatestValidRecords(records[i].action_id) = {i}
  BY DEF ActiveAttemptIsTruth
<1> DEFINE a == records[i].action_id
<1>1. \A j \in Ids : j \in Nat /\ records[j].attempt_index \in Nat
  <2>1. \A j \in Ids : j \in Nat /\ records[j] \in ActionRecord
    BY DEF IInv, TypeOK, Ids
  <2> QED
    BY <2>1 DEF ActionRecord
<1>2. i \in Trusted(a)
  BY DEF Trusted, AttemptsOf
<1>3. ASSUME NEW j \in Trusted(a), j # i
      PROVE  records[j].attempt_index < records[i].attempt_index
  <2>1. j \in Ids /\ records[j].action_id = records[i].action_id
    BY DEF Trusted, AttemptsOf
  <2>2. j <= i
    BY <2>1 DEF IInv, ActiveIsLast
  <2>3. j < i
    BY <1>1, <1>3, <2>1, <2>2
  <2> QED
    BY <2>1, <2>3 DEF IInv, AttemptsNumbered
<1>4. \A j \in Trusted(a) : j \in Ids
  BY DEF Trusted, AttemptsOf
<1> HIDE DEF a
<1>5. \A j \in Trusted(a) : records[j].attempt_index <= records[i].attempt_index
  BY <1>1, <1>3, <1>4
<1>6. \A j \in Trusted(a) : records[i].attempt_index <= records[j].attempt_index => j = i
  BY <1>1, <1>3, <1>4
<1> QED
  BY <1>2, <1>5, <1>6 DEF LatestValidRecords, a

(* So it is throughout. *)
THEOREM ActiveIsTruth == Spec => []ActiveAttemptIsTruth
<1> QED
  BY TrustedActiveIsTruth, Inductive, PTL

(* fail_attempt, complete_attempt and abandon_attempt leave no wait behind. *)
THEOREM EndedDoNotWait == Spec => []EndedAttemptsDoNotWait
<1>1. IInv => EndedAttemptsDoNotWait
  BY DEF IInv
<1> QED
  BY <1>1, Inductive, PTL

(* route_late_async_result only takes answers away from finalized attempts. *)
THEOREM LateArrivalsAreLate == Spec => []LateArrivalsOfFinalized
<1>1. IInv => LateArrivalsOfFinalized
  BY DEF IInv
<1> QED
  BY <1>1, Inductive, PTL

-------------------------------------------------------------------------------
(* What no step does *)

(* A step leaves the business state of finalized and of frozen records alone. *)
LEMMA StepKeepsBusinessState ==
  ASSUME IInv, [Next]_vars, NEW i \in Ids, records[i].finalized \/ IsFrozen(records'[i])
  PROVE  BusinessState(records'[i]) = BusinessState(records[i])
<1>0. TypeOK
  BY DEF IInv
<1>1. CASE \E a \in Actions, counts \in BOOLEAN : CreateAttempt(a, counts)
  BY <1>1, CreateAppends
<1>2. CASE \E j \in Ids : RouteLateAsyncResult(j)
  BY <1>2 DEF RouteLateAsyncResult
<1>3. CASE \E j \in Ids, new \in ActionRecord : OneEvolves(j, new)
  BY <1>0, <1>3, OneOfAllEvolves DEF AllEvolve, Evolves
<1>4. CASE MigrationStops \/ MigrationResumes
  BY <1>0, <1>4, MigrationEvolves
<1>5. CASE UNCHANGED vars
  BY <1>5 DEF vars
<1> QED
  BY <1>0, <1>1, <1>2, <1>3, <1>4, <1>5, StepShapes

(* validate_finalized_immutability, and migration's way around it, hold what they promise. *)
THEOREM FinalizedIsImmutable == Spec => FinalizedStaysPut
<1>1. IInv /\ [Next]_vars
      => [\A i \in Ids : records[i].finalized
                        => BusinessState(records'[i]) = BusinessState(records[i])]_vars
  BY StepKeepsBusinessState
<1> QED
  BY <1>1, Inductive, PTL DEF Spec, FinalizedStaysPut

(* validate_migration_frozen_immutability, and the freeze itself, keep the business state. *)
THEOREM FrozenIsImmutable == Spec => FrozenStaysPut
<1>1. IInv /\ [Next]_vars
      => [\A i \in Ids : IsFrozen(records'[i])
                        => BusinessState(records'[i]) = BusinessState(records[i])]_vars
  BY StepKeepsBusinessState
<1> QED
  BY <1>1, Inductive, PTL DEF Spec, FrozenStaysPut

-------------------------------------------------------------------------------
(* What the refuted properties come down to: the creator's word for OnlyFailuresAreRetries, the *)
(* missing look of start_running for UnresumableStaysBlocked, and nothing else in the package.   *)

(* A charge is put on by failing, which is for good; an unresumable block is lifted by           *)
(* start_running.                                                                                 *)
Keeps(i) ==
  /\ records'[i].counts_as_retry
     => records[i].counts_as_retry \/ records'[i].attempt_status = "failed"
  /\ records[i].attempt_status = "failed" => records'[i].attempt_status = "failed"
  /\ /\ records[i].attempt_status = "blocked"
     /\ records[i].blocked_reason \notin ResumableTypes
     /\ records'[i].attempt_status = "running"
     => StartRunning(i)

(* What _transition_record does to the two. *)
LEMMA TransitionKeeps ==
  ASSUME TypeOK, NEW i \in Ids, NEW j \in Ids, NEW status, NEW updated \in ActionRecord,
         TransitionRecord(j, status, updated),
         updated.counts_as_retry => records[j].counts_as_retry \/ status = "failed",
         /\ records[j].blocked_reason \notin ResumableTypes
         /\ records[j].attempt_status = "blocked"
         /\ status = "running"
         => StartRunning(j)
  PROVE  Keeps(i)
<1> DEFINE new == [updated EXCEPT !.attempt_status = status]
<1>1. records[i] \in ActionRecord /\ records \in Seq(ActionRecord)
  BY DEF TypeOK, Ids
<1>2. /\ new.attempt_status = status
      /\ new.counts_as_retry = updated.counts_as_retry
  BY DEF ActionRecord
<1>3. /\ records' = [records EXCEPT ![j] = new]
      /\ <<records[j].attempt_status, status>> \in VALID_TRANSITIONS
  BY DEF TransitionRecord, MutateRecord
<1>4. records[j].attempt_status # "failed"
  BY <1>3 DEF VALID_TRANSITIONS
<1> HIDE DEF new
<1>5. CASE i = j
  <2>1. records'[i] = new
    BY <1>1, <1>3, <1>5 DEF Ids
  <2> QED
    BY <1>2, <1>4, <1>5, <2>1 DEF Keeps
<1>6. CASE i # j
  <2>1. records'[i] = records[i]
    BY <1>1, <1>3, <1>6 DEF Ids
  <2> QED
    BY <1>1, <2>1 DEF Keeps
<1> QED
  BY <1>5, <1>6

(* So does every call about one record. *)
LEMMA RecordStepKeeps ==
  ASSUME TypeOK, NEW i \in Ids, NEW j \in Ids, RecordStep(j)
  PROVE  Keeps(i)
<1>1. records[j] \in ActionRecord /\ records[i] \in ActionRecord
  BY DEF TypeOK, Ids
<1>2. /\ Unblocked(records[j]) \in ActionRecord
      /\ Unblocked(records[j]).counts_as_retry = records[j].counts_as_retry
  BY <1>1 DEF Unblocked, ActionRecord
<1>3. CASE StartRunning(j)
  <2>1. TransitionRecord(j, "running", records[j])
    BY <1>3 DEF StartRunning
  <2> QED
    BY <1>1, <1>3, <2>1, TransitionKeeps
<1>4. CASE ResumeAttempt(j)
  <2>1. /\ TransitionRecord(j, "running", Unblocked(records[j]))
        /\ records[j].blocked_reason \in ResumableTypes
    BY <1>4 DEF ResumeAttempt
  <2> QED
    BY <1>2, <2>1, TransitionKeeps
<1>5. CASE CompleteAttempt(j) \/ AbandonAttempt(j)
  <2>1. \/ TransitionRecord(j, "done", Unblocked(records[j]))
        \/ TransitionRecord(j, "abandoned", Unblocked(records[j]))
    BY <1>5 DEF CompleteAttempt, AbandonAttempt
  <2>2. CASE TransitionRecord(j, "done", Unblocked(records[j]))
    BY <1>2, <2>2, TransitionKeeps
  <2>3. CASE TransitionRecord(j, "abandoned", Unblocked(records[j]))
    BY <1>2, <2>3, TransitionKeeps
  <2> QED
    BY <2>1, <2>2, <2>3
<1>6. ASSUME NEW reason \in BlockedReasonTypes, NEW waiting \in BOOLEAN,
             BlockAttempt(j, reason, waiting)
      PROVE  Keeps(i)
  <2> DEFINE updated == [records[j] EXCEPT !.blocked_reason = reason, !.waiting_target = waiting]
  <2>1. updated \in ActionRecord /\ updated.counts_as_retry = records[j].counts_as_retry
    BY <1>1 DEF ActionRecord
  <2>2. TransitionRecord(j, "blocked", updated)
    BY <1>6 DEF BlockAttempt
  <2> HIDE DEF updated
  <2> QED
    BY <2>1, <2>2, TransitionKeeps
<1>7. ASSUME NEW reason \in FailureReasons, FailAttempt(j, reason)
      PROVE  Keeps(i)
  <2> DEFINE counted == reason \in CountedFailures
             updated == [Unblocked(records[j]) EXCEPT !.failure_reason = reason,
                                                      !.counts_as_retry = counted]
  <2>1. counted \in BOOLEAN
    OBVIOUS
  <2> HIDE DEF counted
  <2>2. updated \in ActionRecord
    BY <1>2, <2>1 DEF ActionRecord
  <2>3. TransitionRecord(j, "failed", updated)
    BY <1>7 DEF FailAttempt, counted
  <2> HIDE DEF updated
  <2> QED
    BY <2>2, <2>3, TransitionKeeps
<1>8. CASE \/ \E time \in Times : FinalizeAttempt(j, time)
           \/ \E verdict \in Verdicts : AuditRecord(j, verdict)
           \/ RouteLateAsyncResult(j)
  <2>1. ASSUME NEW r, records' = [records EXCEPT ![j] = r],
               r.attempt_status = records[j].attempt_status,
               r.counts_as_retry = records[j].counts_as_retry
        PROVE  /\ records'[i].attempt_status = records[i].attempt_status
               /\ records'[i].counts_as_retry = records[i].counts_as_retry
    BY <2>1 DEF TypeOK, Ids
  <2>2. ASSUME NEW time \in Times, FinalizeAttempt(j, time)
        PROVE  Keeps(i)
    <3> DEFINE r == [records[j] EXCEPT !.finalized = TRUE, !.finalized_at = time]
    <3>1. records' = [records EXCEPT ![j] = r]
      BY <2>2 DEF FinalizeAttempt, MutateRecord
    <3>2. r.attempt_status = records[j].attempt_status /\ r.counts_as_retry = records[j].counts_as_retry
      BY <1>1 DEF ActionRecord
    <3> HIDE DEF r
    <3> QED
      BY <2>1, <3>1, <3>2 DEF Keeps
  <2>3. ASSUME NEW verdict \in Verdicts, AuditRecord(j, verdict)
        PROVE  Keeps(i)
    <3> DEFINE r == [records[j] EXCEPT !.record_integrity = verdict]
    <3>1. records' = [records EXCEPT ![j] = r]
      BY <2>3 DEF AuditRecord
    <3>2. r.attempt_status = records[j].attempt_status /\ r.counts_as_retry = records[j].counts_as_retry
      BY <1>1 DEF ActionRecord
    <3> HIDE DEF r
    <3> QED
      BY <2>1, <3>1, <3>2 DEF Keeps
  <2>4. CASE RouteLateAsyncResult(j)
    BY <2>4 DEF RouteLateAsyncResult, Keeps
  <2> QED
    BY <1>8, <2>2, <2>3, <2>4
<1> QED
  BY <1>3, <1>4, <1>5, <1>6, <1>7, <1>8 DEF RecordStep

(* And every step of the protocol, a migration's included. *)
LEMMA NextKeeps ==
  ASSUME IInv, [Next]_vars, NEW i \in Ids
  PROVE  i \in Ids' /\ Keeps(i)
<1>0. TypeOK /\ records[i] \in ActionRecord
  BY DEF IInv, TypeOK, Ids
<1>1. ASSUME records'[i] \in ActionRecord, BusinessState(records'[i]) = BusinessState(records[i])
      PROVE  Keeps(i)
  BY <1>0, <1>1, BusinessStateFields DEF Keeps
<1>2. CASE \E a \in Actions, counts \in BOOLEAN : CreateAttempt(a, counts)
  BY <1>0, <1>1, <1>2, CreateAppends
<1>3. CASE \E j \in Ids : RecordStep(j)
  <2>1. Ids' = Ids
    <3>1. CASE \E j \in Ids : RouteLateAsyncResult(j)
      BY <3>1 DEF RouteLateAsyncResult, Ids
    <3>2. ASSUME NEW j \in Ids, RecordStep(j), ~RouteLateAsyncResult(j)
          PROVE  Ids' = Ids
      BY <1>0, <3>2, RecordStepEvolves, OneOfAllEvolves DEF AllEvolve
    <3> QED
      BY <1>3, <3>1, <3>2
  <2> QED
    BY <1>0, <1>3, <2>1, RecordStepKeeps
<1>4. CASE MigrationStops \/ MigrationResumes
  <2>1. AllEvolve /\ BusinessState(records'[i]) = BusinessState(records[i])
    BY <1>0, <1>4, MigrationEvolves
  <2> QED
    BY <1>1, <2>1 DEF AllEvolve, Evolves
<1>5. CASE UNCHANGED vars
  BY <1>0, <1>1, <1>5 DEF vars, Ids
<1> QED
  BY <1>2, <1>3, <1>4, <1>5 DEF Next

(* No new attempt is charged by its creator. *)
CreatedUncharged == \A i \in Ids' \ Ids : ~records'[i].counts_as_retry

(* OnlyFailuresAreRetries fails through the counts_as_retry argument of create_attempt alone: as *)
(* long as no caller passes it, no transition, audit, late answer or migration charges an attempt *)
(* that did not fail.                                                                              *)
THEOREM ChargesAreFailures ==
  Spec /\ [][CreatedUncharged]_vars => []OnlyFailuresAreRetries
<1> DEFINE ChargedFailed == \A i \in Ids : records[i].counts_as_retry
                                           => records[i].attempt_status = "failed"
<1>1. Init => ChargedFailed
  BY DEF Init, Ids
<1>2. IInv /\ ChargedFailed /\ [Next]_vars /\ [CreatedUncharged]_vars => ChargedFailed'
  <2> SUFFICES ASSUME IInv, ChargedFailed, [Next]_vars, [CreatedUncharged]_vars,
                      NEW i \in Ids', records'[i].counts_as_retry
               PROVE  records'[i].attempt_status = "failed"
    OBVIOUS
  <2>1. i \in Ids
    BY DEF CreatedUncharged, vars, Ids
  <2> QED
    BY <2>1, NextKeeps DEF Keeps
<1>3. ChargedFailed => OnlyFailuresAreRetries
  BY DEF OnlyFailuresAreRetries, CountedRetries, Trusted, AttemptsOf
<1> QED
  BY <1>1, <1>2, <1>3, Inductive, PTL DEF Spec

(* UnresumableStaysBlocked fails through start_running alone: whatever else happens to an attempt *)
(* blocked for a reason that cannot be waited out, it is not run again in place.                   *)
THEOREM OnlyStartRunningBypasses ==
  Spec => [][\A i \in Ids : /\ records[i].attempt_status = "blocked"
                            /\ records[i].blocked_reason \notin ResumableTypes
                            /\ records'[i].attempt_status = "running"
                            => StartRunning(i)]_vars
<1> DEFINE Bypass == \A i \in Ids : /\ records[i].attempt_status = "blocked"
                                    /\ records[i].blocked_reason \notin ResumableTypes
                                    /\ records'[i].attempt_status = "running"
                                    => StartRunning(i)
<1>1. IInv /\ [Next]_vars => [Bypass]_vars
  BY NextKeeps DEF Keeps
<1> QED
  BY <1>1, Inductive, PTL DEF Spec

===============================================================================
