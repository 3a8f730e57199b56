------------------------ MODULE ActionScheduling_proofs ------------------------
(***************************************************************************)
(* Proofs about ActionScheduling, for every value of its constants.       *)
(*                                                                         *)
(* Scheduler, executor and caller only change the records by the          *)
(* operations of the protocol (ImplementsProtocol), so the protocol's     *)
(* inductive invariant holds.  On top of it SInv says what the scheduler  *)
(* relies on when it reads the truth of an action: active attempts are    *)
(* trusted, blocked ones have a reason, and what was just dispatched is   *)
(* active or may be attempted.                                             *)
(***************************************************************************)
EXTENDS ActionScheduling, ExecutionProtocolRefinement_proofs

allVars == <<vars, schedulingVars>>

(* The operations the executor and the caller use change one record, and check it. *)
Mutates(i) ==
  \E new \in ActionRecord : /\ MutateRecord(i, new)
                            /\ new.record_integrity = records[i].record_integrity

(* Each of them is an operation of the protocol and leaves the integrity to the audit. *)
LEMMA OperationsMutate ==
  ASSUME TypeOK, NEW i \in Ids, AdvanceAttempt(i) \/ SettleAttempt(i)
  PROVE  RecordStep(i) /\ Mutates(i)
<1>1. records[i] \in ActionRecord
  BY DEF TypeOK, Ids
<1>2. ASSUME NEW status, NEW updated \in ActionRecord, TransitionRecord(i, status, updated),
             updated.record_integrity = records[i].record_integrity
      PROVE  Mutates(i)
  <2> DEFINE new == [updated EXCEPT !.attempt_status = status]
  <2>1. status \in ActiveStatuses \cup TerminalStatuses /\ MutateRecord(i, new)
    BY <1>2 DEF TransitionRecord, VALID_TRANSITIONS, ActiveStatuses, TerminalStatuses
  <2>2. new \in ActionRecord /\ new.record_integrity = records[i].record_integrity
    BY <1>2, <2>1 DEF ActionRecord
  <2> QED
    BY <2>1, <2>2 DEF Mutates
<1>3. Unblocked(records[i]) \in ActionRecord
      /\ Unblocked(records[i]).record_integrity = records[i].record_integrity
  BY <1>1 DEF Unblocked, ActionRecord
<1>4. CASE StartRunning(i)
  BY <1>1, <1>2, <1>4 DEF StartRunning, RecordStep
<1>5. ASSUME NEW reason \in BlockedReasonTypes, BlockAttempt(i, reason, reason \in ResumableTypes)
      PROVE  RecordStep(i) /\ Mutates(i)
  <2> DEFINE waiting == reason \in ResumableTypes
             updated == [records[i] EXCEPT !.blocked_reason = reason, !.waiting_target = waiting]
  <2>1. waiting \in BOOLEAN
    OBVIOUS
  <2> HIDE DEF waiting
  <2>2. updated \in ActionRecord /\ updated.record_integrity = records[i].record_integrity
    BY <1>1, <2>1 DEF ActionRecord
  <2>3. TransitionRecord(i, "blocked", updated)
    BY <1>5 DEF BlockAttempt, waiting
  <2>4. BlockAttempt(i, reason, waiting)
    BY <1>5 DEF waiting
  <2> HIDE DEF updated
  <2>5. Mutates(i)
    BY <1>2, <2>2, <2>3
  <2> QED
    BY <2>1, <2>4, <2>5 DEF RecordStep
<1>6. CASE ResumeAttempt(i) \/ CompleteAttempt(i) \/ AbandonAttempt(i)
  BY <1>2, <1>3, <1>6 DEF ResumeAttempt, CompleteAttempt, AbandonAttempt, RecordStep
<1>7. ASSUME NEW reason \in FailureReasons, FailAttempt(i, reason)
      PROVE  RecordStep(i) /\ Mutates(i)
  <2> DEFINE counted == reason \in CountedFailures
             updated == [Unblocked(records[i]) EXCEPT !.failure_reason = reason,
                                                      !.counts_as_retry = counted]
  <2>1. counted \in BOOLEAN
    OBVIOUS
  <2> HIDE DEF counted
  <2>2. updated \in ActionRecord /\ updated.record_integrity = records[i].record_integrity
    BY <1>3, <2>1 DEF ActionRecord
  <2>3. TransitionRecord(i, "failed", updated)
    BY <1>7 DEF FailAttempt, counted
  <2> HIDE DEF updated
  <2> QED
    BY <1>2, <1>7, <2>2, <2>3 DEF RecordStep
<1>8. ASSUME NEW time \in Times, FinalizeAttempt(i, time)
      PROVE  RecordStep(i) /\ Mutates(i)
  <2> DEFINE new == [records[i] EXCEPT !.finalized = TRUE, !.finalized_at = time]
  <2>1. new \in ActionRecord /\ new.record_integrity = records[i].record_integrity
    BY <1>1 DEF ActionRecord
  <2> QED
    BY <1>8, <2>1 DEF FinalizeAttempt, Mutates, RecordStep
<1> QED
  BY <1>4, <1>5, <1>6, <1>7, <1>8 DEF AdvanceAttempt, SettleAttempt

(* What a step of the system may do to the records. *)
LEMMA SchedulingStepShapes ==
  ASSUME TypeOK, [SchedulingNext]_allVars, current_action_id \in Actions \cup {None},
         turn = "execute" => current_action_id # None
  PROVE  \/ /\ turn = "execute"
            /\ turn' = turn
            /\ OpenAttempt(current_action_id)
            /\ CreateAttempt(current_action_id, FALSE)
            /\ current_action_id \in Actions
            /\ worked'
         \/ \E i \in Ids : RecordStep(i) /\ Mutates(i) /\ turn' = turn /\ (turn = "execute" => worked')
         \/ \E i \in Ids, verdict \in Verdicts :
              /\ turn = "stopped"
              /\ turn' = turn
              /\ IsTerminal(records[i])
              /\ AuditRecord(i, verdict)
         \/ UNCHANGED vars
<1>1. CASE Execute
  <2>1. CASE OpenAttempt(current_action_id)
    BY <1>1, <2>1 DEF Execute, OpenAttempt
  <2>2. CASE \E i \in AttemptsOf(current_action_id) : AdvanceAttempt(i)
    BY <1>1, <2>2, OperationsMutate DEF Execute, AttemptsOf
  <2> QED
    BY <1>1, <2>1, <2>2 DEF Execute
<1>2. ASSUME NEW i \in Ids, Settle(i)
      PROVE  \E j \in Ids : RecordStep(j) /\ Mutates(j) /\ turn' = turn /\ (turn = "execute" => worked')
  BY <1>2, OperationsMutate DEF Settle, schedulingVars
<1>3. ASSUME NEW i \in Ids, AuditEnded(i)
      PROVE  \E j \in Ids, verdict \in Verdicts :
               /\ turn = "stopped"
               /\ turn' = turn
               /\ IsTerminal(records[j])
               /\ AuditRecord(j, verdict)
  BY <1>3 DEF AuditEnded, IsTerminal, schedulingVars
<1>4. CASE \/ ResolveAction \/ RunAgain \/ Return
           \/ \E a \in Actions : Answer(a)
           \/ UNCHANGED allVars
  BY <1>4 DEF ResolveAction, RunAgain, Return, Answer, allVars
<1> QED
  BY <1>1, <1>2, <1>3, <1>4 DEF SchedulingNext

(* Every one of them is a step of the protocol. *)
LEMMA SchedulingStepIsProtocolStep ==
  ASSUME TypeOK, [SchedulingNext]_allVars, current_action_id \in Actions \cup {None},
         turn = "execute" => current_action_id # None
  PROVE  [Next]_vars
  BY SchedulingStepShapes DEF Next, RecordStep

-------------------------------------------------------------------------------
(* Types *)

(* latest_truth names a trusted record of the action, or none. *)
LEMMA TruthIsTrusted ==
  ASSUME IInv, NEW a \in Actions
  PROVE  /\ Truth(a) \in 0..MaxRecords
         /\ Truth(a) # 0 => Truth(a) \in LatestValidRecords(a)
         /\ Truth(a) # 0 => /\ Truth(a) \in Trusted(a)
                            /\ Truth(a) \in Ids
                            /\ records[Truth(a)] \in ActionRecord
                            /\ records[Truth(a)].action_id = a
<1>1. LatestValidRecords(a) \subseteq Trusted(a) /\ Trusted(a) \subseteq Ids
  BY DEF LatestValidRecords, Trusted, AttemptsOf
<1>2. Ids \subseteq 1..MaxRecords /\ MaxRecords \in Nat
  BY ConstantsAssumption DEF IInv, TypeOK, Ids
<1>3. Truth(a) = 0 \/ Truth(a) \in LatestValidRecords(a)
  BY DEF Truth
<1>4. \A i \in Trusted(a) : records[i] \in ActionRecord /\ records[i].action_id = a
  BY DEF Trusted, AttemptsOf, IInv, TypeOK, Ids
<1>5. Truth(a) # 0 => Truth(a) \in Trusted(a) /\ Truth(a) \in Ids
  BY <1>1, <1>3
<1>6. Truth(a) \in 0..MaxRecords
  <2>1. 0 \in 0..MaxRecords /\ 1..MaxRecords \subseteq 0..MaxRecords
    BY <1>2
  <2> QED
    BY <1>2, <1>5, <2>1
<1> QED
  BY <1>3, <1>4, <1>5, <1>6

(* The status and the reason the scheduler reads. *)
LEMMA TruthTypes ==
  ASSUME IInv, NEW a \in Actions
  PROVE  /\ Status(a) \in {"pending"} \cup ActiveStatuses \cup TerminalStatuses
         /\ RecordedReason(a) \in BlockedReasonTypes \cup {None}
         /\ Status(a) # "pending" => Truth(a) # 0
<1>1. CASE Truth(a) = 0
  BY <1>1 DEF Status, RecordedReason
<1>2. CASE Truth(a) # 0
  <2>1. records[Truth(a)] \in ActionRecord
    BY <1>2, TruthIsTrusted
  <2> QED
    BY <1>2, <2>1 DEF Status, RecordedReason, ActionRecord
<1> QED
  BY <1>1, <1>2

(* compute_retry_count_from_records counts at most all records. *)
LEMMA RetryCountType ==
  ASSUME IInv, NEW a \in Actions
  PROVE  RetryCount(a) \in 0..MaxRecords
<1>1. CountedRetries(a) \subseteq AttemptsOf(a)
  BY DEF CountedRetries, Trusted
<1>2. /\ IsFiniteSet(AttemptsOf(a))
      /\ Cardinality(AttemptsOf(a)) \in Nat
      /\ Cardinality(AttemptsOf(a)) <= MaxRecords
  BY AttemptsFinite, ConstantsAssumption DEF IInv, TypeOK
<1>3. /\ IsFiniteSet(CountedRetries(a))
      /\ Cardinality(CountedRetries(a)) <= Cardinality(AttemptsOf(a))
  BY <1>1, <1>2, FS_Subset
<1>4. Cardinality(CountedRetries(a)) \in Nat
  BY <1>3, FS_CardinalityType
<1> QED
  BY <1>2, <1>3, <1>4, ConstantsAssumption DEF RetryCount

(* sync_action_mirror_from_record and repair_action_mirror_if_needed write mirrors. *)
LEMMA RepairedType ==
  ASSUME IInv, mirror \in [Actions -> Mirrors], NEW a \in Actions
  PROVE  Repaired(a) \in Mirrors
<1>1. Synced(a) \in Mirrors
  BY TruthIsTrusted, TruthTypes, RetryCountType DEF Synced, Mirrors
<1> QED
  BY <1>1 DEF Repaired

(* What resolve_current_action may answer. *)
LEMMA ResolutionTypes ==
  ASSUME NEW result \in Resolutions, current_action_id \in Actions \cup {None}
  PROVE  result \in Decisions
<1> USE DEF ExecuteKinds, WaitKinds, ReviseKinds, EscalateKinds, Decisions, Resolution
<1>1. \A candidates : Best(candidates) \subseteq candidates
  BY DEF Best
<1>2. Executable \subseteq Actions /\ FirstWaiting \subseteq Actions
  BY DEF Executable, FirstWaiting, Waiting
<1>3. OfNoAction \subseteq Decisions
  BY <1>2 DEF OfNoAction, Each
<1>4. OfGuide \subseteq Decisions
  BY <1>1, <1>2, <1>3 DEF OfGuide, Each
<1>5. ASSUME NEW a \in Actions PROVE OfCandidate(a) \subseteq Decisions
  <2>1. OfBlocked(a) \in Decisions
    BY DEF OfBlocked
  <2>2. Each("abandon_current_action_and_switch", Best(Executable \ {a})) \subseteq Decisions
    BY <1>1, <1>2 DEF Each
  <2> QED
    BY <1>4, <2>1, <2>2 DEF OfCandidate
<1>6. Candidates \subseteq Actions
  BY DEF Candidates, Active
<1> QED
  BY <1>4, <1>5, <1>6 DEF Resolutions

-------------------------------------------------------------------------------
(* The inductive invariant *)

ActiveIsTrusted ==
  \A i \in Ids : IsActive(records[i]) => records[i].record_integrity \in TrustedIntegrity
BlockedHasReason ==
  \A i \in Ids : records[i].attempt_status = "blocked" => records[i].blocked_reason # None

(* What the scheduler has just sent out may still be worked on, or attempted anew. *)
DispatchedIsLegal ==
  turn = "execute" /\ ~worked
  => \/ Status(current_action_id) \in ActiveStatuses
     \/ MayBeAttempted(current_action_id)

SInv == /\ IInv
        /\ SchedulingTypeOK
        /\ ActiveIsTrusted
        /\ BlockedHasReason
        /\ DispatchedIsLegal

(* An active attempt of the action is its truth. *)
LEMMA ActiveTruth ==
  ASSUME SInv, NEW a \in Actions, NEW i \in AttemptsOf(a), IsActive(records[i])
  PROVE  Truth(a) = i
<1>1. i \in Ids /\ records[i].action_id = a /\ records[i].record_integrity \in TrustedIntegrity
  BY DEF AttemptsOf, SInv, ActiveIsTrusted
<1>2. LatestValidRecords(a) = {i}
  BY <1>1, TrustedActiveIsTruth DEF SInv, ActiveAttemptIsTruth
<1> QED
  BY <1>2 DEF Truth

(* What may be dispatched is active, or may be attempted. *)
LEMMA DispatchIsLegal ==
  ASSUME SInv, NEW result \in Resolutions, result.kind \in ExecuteKinds
  PROVE  LET a == result.action_id
         IN  /\ a \in Actions
             /\ Status(a) \in ActiveStatuses \/ MayBeAttempted(a)
             /\ Status(a) = "blocked" => BlockedReason(a) = None
             /\ Status(a) = "failed" => RetryAllowed(a)
<1> DEFINE Legal(a) == /\ a \in Actions
                       /\ Status(a) \in ActiveStatuses \/ MayBeAttempted(a)
                       /\ Status(a) = "blocked" => BlockedReason(a) = None
                       /\ Status(a) = "failed" => RetryAllowed(a)
           LegalResult(r) == r.kind \in ExecuteKinds => Legal(r.action_id)
<1>0. IInv /\ current_action_id \in Actions \cup {None}
  BY DEF SInv, SchedulingTypeOK
<1>1. ASSUME NEW a \in Executable PROVE Legal(a)
  <2>1. /\ a \in Actions
        /\ BlockedReason(a) = None
        /\ Status(a) # "done"
        /\ Status(a) = "failed" => RetryAllowed(a)
    BY DEF Executable
  <2>2. Status(a) \in {"pending"} \cup ActiveStatuses \cup TerminalStatuses
    BY <1>0, <2>1, TruthTypes
  <2> QED
    BY <2>1, <2>2 DEF TerminalStatuses, MayBeAttempted, RetryAllowed
<1>2. \A candidates : Best(candidates) \subseteq candidates
  BY DEF Best
<1>3. \A r \in OfNoAction : LegalResult(r)
  BY DEF OfNoAction, Each, Resolution, ExecuteKinds
<1>4. ASSUME NEW kind, NEW as, as \subseteq Executable, NEW r \in Each(kind, as)
      PROVE  LegalResult(r)
  <2>1. PICK a \in as : r = Resolution(kind, a)
    BY DEF Each
  <2>2. r.action_id = a
    BY <2>1 DEF Resolution
  <2>3. Legal(a)
    BY <1>1, <1>4, <2>1
  <2> HIDE DEF Legal
  <2> QED
    BY <2>2, <2>3
<1>5. \A r \in OfGuide : LegalResult(r)
  <2>1. \A r \in Each("continue_current_action", Best(Executable)) : LegalResult(r)
    BY <1>2, <1>4
  <2> HIDE DEF LegalResult
  <2> QED
    BY <1>3, <2>1 DEF OfGuide
<1>6. ASSUME NEW a \in Actions, NEW r \in OfCandidate(a) PROVE LegalResult(r)
  <2>1. LegalResult(OfBlocked(a))
    BY DEF OfBlocked, Resolution, ExecuteKinds
  <2>2. CASE BlockedReason(a) # None
    BY <1>6, <2>1, <2>2 DEF OfCandidate
  <2>3. CASE BlockedReason(a) = None /\ Status(a) \in {"selected", "running"}
    BY <1>6, <2>3 DEF OfCandidate, Resolution, ActiveStatuses
  <2>4. CASE BlockedReason(a) = None /\ Status(a) = "failed" /\ RetryAllowed(a)
    BY <1>6, <2>4 DEF OfCandidate, Resolution, MayBeAttempted, RetryAllowed
  <2>5. CASE r \in Each("abandon_current_action_and_switch", Best(Executable \ {a}))
    BY <1>2, <1>4, <2>5
  <2>6. CASE r \in OfGuide
    BY <1>5, <2>6
  <2> HIDE DEF LegalResult
  <2> QED
    BY <1>6, <2>2, <2>3, <2>4, <2>5, <2>6 DEF OfCandidate
<1>7. Candidates \subseteq Actions
  BY <1>0 DEF Candidates, Active
<1>8. LegalResult(result)
  <2> HIDE DEF LegalResult
  <2> QED
    BY <1>5, <1>6, <1>7 DEF Resolutions
<1> QED
  BY <1>8

(* Initially there are no records. *)
LEMMA InitEstablishesSInv == SchedulingInit => SInv
<1> SUFFICES ASSUME SchedulingInit PROVE SInv
  OBVIOUS
<1>1. IInv /\ Ids = {}
  BY InitEstablishesIInv DEF SchedulingInit, Init, Ids
<1>2. SchedulingTypeOK
  <2>1. MaxRecords \in Nat /\ 0 \in 0..MaxRecords
    BY ConstantsAssumption
  <2>2. mirror \in [Actions -> Mirrors]
    BY <2>1 DEF SchedulingInit, Mirrors
  <2> QED
    BY <1>1, <2>2 DEF SchedulingInit, SchedulingTypeOK, Turns, IInv
<1> QED
  BY <1>1, <1>2 DEF SInv, ActiveIsTrusted, BlockedHasReason, DispatchedIsLegal, SchedulingInit

(* The types of the scheduler's state survive every step. *)
LEMMA NextPreservesTypes ==
  ASSUME SInv, [SchedulingNext]_allVars, IInv'
  PROVE  SchedulingTypeOK'
<1> USE DEF Turns
<1>0. IInv /\ SchedulingTypeOK /\ TypeOK'
  BY DEF SInv, IInv
<1>1. CASE ResolveAction
  <2>1. PICK result \in Resolutions :
          \/ /\ result.kind \in ExecuteKinds
             /\ turn' = "execute"
             /\ current_action_id' = result.action_id
          \/ /\ result.kind \in WaitKinds
             /\ turn' = "stopped"
             /\ current_action_id' = result.action_id
          \/ turn' = "resolve" /\ current_action_id' = None
          \/ turn' = "given_up" /\ current_action_id' = current_action_id
    BY <1>1 DEF ResolveAction
  <2>2. result \in Decisions
    BY <1>0, ResolutionTypes DEF SchedulingTypeOK
  <2>3. result.kind \in ExecuteKinds \cup WaitKinds => result.action_id \in Actions
    BY <2>2 DEF Decisions, ExecuteKinds, WaitKinds, ReviseKinds, EscalateKinds
  <2>4. None \notin Actions
    BY SchedulingAssumption
  <2>5. /\ turn' \in Turns
        /\ current_action_id' \in Actions \cup {None}
        /\ turn' \in {"execute", "stopped"} => current_action_id' # None
    BY <1>0, <2>1, <2>3, <2>4 DEF SchedulingTypeOK
  <2> QED
    BY <1>0, <1>1, <2>1, <2>2, <2>5 DEF ResolveAction, SchedulingTypeOK
<1>2. ASSUME NEW a \in Actions, Answer(a) PROVE SchedulingTypeOK'
  BY <1>0, <1>2 DEF Answer, SchedulingTypeOK
<1>3. CASE RunAgain
  <2>1. \A a \in Actions : Repaired(a) \in Mirrors
    BY <1>0, RepairedType DEF SchedulingTypeOK
  <2>2. mirror' \in [Actions -> Mirrors]
    BY <1>0, <1>3, <2>1 DEF RunAgain, SchedulingTypeOK
  <2> QED
    BY <1>0, <1>3, <2>2 DEF RunAgain, SchedulingTypeOK
<1>4. CASE Execute
  BY <1>0, <1>4 DEF Execute, SchedulingTypeOK
<1>5. CASE Return
  <2>1. current_action_id \in Actions
    BY <1>0, <1>5 DEF Return, SchedulingTypeOK
  <2>2. Repaired(current_action_id) \in Mirrors
    BY <1>0, <2>1, RepairedType DEF SchedulingTypeOK
  <2>3. mirror' \in [Actions -> Mirrors]
    BY <1>0, <1>5, <2>1, <2>2 DEF Return, SchedulingTypeOK
  <2> QED
    BY <1>0, <1>5, <2>1, <2>3 DEF Return, SchedulingTypeOK
<1>6. CASE \E i \in Ids : Settle(i) \/ AuditEnded(i)
  BY <1>0, <1>6 DEF Settle, AuditEnded, schedulingVars, SchedulingTypeOK
<1>7. CASE UNCHANGED allVars
  BY <1>0, <1>7 DEF allVars, schedulingVars, SchedulingTypeOK
<1> QED
  BY <1>1, <1>2, <1>3, <1>4, <1>5, <1>6, <1>7 DEF SchedulingNext

(* Only the audit changes the integrity of a record, and only that of ended attempts. *)
LEMMA NextPreservesRecordFacts ==
  ASSUME SInv, [SchedulingNext]_allVars
  PROVE  ActiveIsTrusted' /\ BlockedHasReason'
<1>0. /\ IInv /\ TypeOK
      /\ records \in Seq(ActionRecord)
      /\ current_action_id \in Actions \cup {None}
      /\ turn = "execute" => current_action_id # None
      /\ \A i \in Ids : records[i] \in ActionRecord
  BY DEF SInv, IInv, SchedulingTypeOK, TypeOK, Ids
<1>1. ASSUME NEW a \in Actions, CreateAttempt(a, FALSE)
      PROVE  ActiveIsTrusted' /\ BlockedHasReason'
  <2>1. /\ Ids' = Ids \cup {Len(records) + 1}
        /\ \A i \in Ids : records'[i] = records[i]
        /\ records'[Len(records) + 1] = NewRecord(a, FALSE)
    BY <1>0, <1>1, CreateAppends
  <2>2. /\ NewRecord(a, FALSE).attempt_status = "selected"
        /\ NewRecord(a, FALSE).record_integrity \in TrustedIntegrity
    BY DEF NewRecord, TrustedIntegrity
  <2> QED
    BY <2>1, <2>2 DEF SInv, ActiveIsTrusted, BlockedHasReason, IsActive
<1>2. ASSUME NEW i \in Ids, RecordStep(i), Mutates(i)
      PROVE  ActiveIsTrusted' /\ BlockedHasReason'
  <2>1. PICK new \in ActionRecord : /\ MutateRecord(i, new)
                                    /\ new.record_integrity = records[i].record_integrity
    BY <1>2 DEF Mutates
  <2>2. /\ records' = [records EXCEPT ![i] = new]
        /\ new.attempt_status = "blocked" => new.blocked_reason # None
    BY <2>1 DEF MutateRecord, Validated
  <2>3. Ids' = Ids /\ \A j \in Ids : records'[j] = IF j = i THEN new ELSE records[j]
    BY <1>0, <2>2 DEF Ids
  <2>4. IsActive(new) => IsActive(records[i])
    <3>1. CASE RouteLateAsyncResult(i)
      BY <1>0, <2>3, <3>1 DEF RouteLateAsyncResult
    <3>2. CASE ~RouteLateAsyncResult(i)
      <4>1. AllEvolve
        BY <1>0, <1>2, <3>2, RecordStepEvolves, OneOfAllEvolves
      <4>2. Evolves(records[i], new)
        BY <2>3, <4>1 DEF AllEvolve
      <4> QED
        BY <1>0, <4>2, StatusesPartition DEF Evolves
    <3> QED
      BY <3>1, <3>2
  <2>5. ActiveIsTrusted'
    BY <2>1, <2>3, <2>4 DEF SInv, ActiveIsTrusted
  <2>6. BlockedHasReason'
    BY <2>2, <2>3 DEF SInv, BlockedHasReason
  <2> QED
    BY <2>5, <2>6
<1>3. ASSUME NEW i \in Ids, NEW verdict \in Verdicts, IsTerminal(records[i]),
             AuditRecord(i, verdict)
      PROVE  ActiveIsTrusted' /\ BlockedHasReason'
  <2>1. /\ Ids' = Ids
        /\ \A j \in Ids : j # i => records'[j] = records[j]
        /\ records'[i].attempt_status = records[i].attempt_status
    BY <1>0, <1>3 DEF AuditRecord, Ids, ActionRecord
  <2>2. ~IsActive(records'[i]) /\ records'[i].attempt_status # "blocked"
    BY <1>3, <2>1 DEF IsTerminal, IsActive, TerminalStatuses, ActiveStatuses
  <2> QED
    BY <2>1, <2>2 DEF SInv, ActiveIsTrusted, BlockedHasReason
<1>4. CASE UNCHANGED vars
  BY <1>4 DEF vars, SInv, ActiveIsTrusted, BlockedHasReason, Ids
<1> QED
  BY <1>0, <1>1, <1>2, <1>3, <1>4, SchedulingStepShapes

(* What the scheduler reads is a function of the records. *)
LEMMA TruthUnchanged ==
  ASSUME UNCHANGED records, NEW a
  PROVE  Truth(a)' = Truth(a) /\ Status(a)' = Status(a) /\ MayBeAttempted(a)' = MayBeAttempted(a)
<1>1. LatestValidRecords(a)' = LatestValidRecords(a)
  BY DEF LatestValidRecords, Trusted, AttemptsOf, Ids
<1>2. Truth(a)' = Truth(a)
  BY <1>1 DEF Truth
<1>3. Status(a)' = Status(a)
  BY <1>2 DEF Status
<1> QED
  BY <1>2, <1>3 DEF MayBeAttempted

(* A dispatch is legal when it is made, and until the executor's first call. *)
LEMMA NextPreservesDispatch ==
  ASSUME SInv, [SchedulingNext]_allVars
  PROVE  DispatchedIsLegal'
<1>1. CASE ResolveAction
  <2>1. PICK result \in Resolutions :
          turn' = "execute" => result.kind \in ExecuteKinds /\ current_action_id' = result.action_id
    BY <1>1 DEF ResolveAction
  <2>2. SUFFICES ASSUME turn' = "execute" PROVE DispatchedIsLegal'
    BY DEF DispatchedIsLegal
  <2> DEFINE a == result.action_id
  <2>3. Status(a) \in ActiveStatuses \/ MayBeAttempted(a)
    BY <2>1, <2>2, DispatchIsLegal
  <2>4. UNCHANGED records
    BY <1>1 DEF ResolveAction, vars
  <2> HIDE DEF a
  <2>5. Status(a)' = Status(a) /\ MayBeAttempted(a)' = MayBeAttempted(a)
    BY <2>4, TruthUnchanged
  <2>6. current_action_id' = a
    BY <2>1, <2>2 DEF a
  <2> QED
    BY <2>3, <2>4, <2>5, <2>6 DEF DispatchedIsLegal
<1>2. CASE Execute
  BY <1>2 DEF Execute, DispatchedIsLegal
<1>3. CASE \/ RunAgain \/ Return
           \/ \E a \in Actions : Answer(a)
           \/ \E i \in Ids : Settle(i) \/ AuditEnded(i)
  BY <1>3 DEF RunAgain, Return, Answer, Settle, AuditEnded, schedulingVars, DispatchedIsLegal
<1>4. CASE UNCHANGED allVars
  <2>1. UNCHANGED <<records, turn, worked, current_action_id>>
    BY <1>4 DEF allVars, vars, schedulingVars
  <2> QED
    BY <2>1, TruthUnchanged DEF SInv, DispatchedIsLegal
<1> QED
  BY <1>1, <1>2, <1>3, <1>4 DEF SchedulingNext

(* The invariant is inductive. *)
LEMMA NextPreservesSInv == SInv /\ [SchedulingNext]_allVars => SInv'
<1> SUFFICES ASSUME SInv, [SchedulingNext]_allVars PROVE SInv'
  OBVIOUS
<1>1. [Next]_vars
  BY SchedulingStepIsProtocolStep DEF SInv, IInv, SchedulingTypeOK
<1>2. IInv'
  BY <1>1, NextPreservesIInv DEF SInv
<1> QED
  BY <1>2, NextPreservesTypes, NextPreservesRecordFacts, NextPreservesDispatch DEF SInv

-------------------------------------------------------------------------------
(* What a step does to one record *)

(* old becomes new by an operation of the executor or the caller. *)
Operated(old, new) ==
  /\ new.action_id = old.action_id
  /\ new.record_integrity = old.record_integrity
  /\ new.attempt_status \in ActiveStatuses => old.attempt_status \in ActiveStatuses
  /\ old.attempt_status \notin ActiveStatuses
     => /\ new.attempt_status = old.attempt_status
        /\ new.counts_as_retry = old.counts_as_retry
  /\ old.finalized => new = old
  /\ (old.counts_as_retry => old.attempt_status = "failed")
     => (new.counts_as_retry => new.attempt_status = "failed")
  /\ (old.blocked_reason # None => old.attempt_status = "blocked")
     => (new.blocked_reason # None => new.attempt_status = "blocked")

(* A caller that settles an attempt does not leave it failed and open. *)
NotFailed(old, new) ==
  new.attempt_status = "failed" /\ ~new.finalized
  => old.attempt_status = "failed" /\ ~old.finalized

(* Each operation of the executor and the caller is of that kind. *)
LEMMA OperationsOperate ==
  ASSUME TypeOK, NEW i \in Ids, AdvanceAttempt(i) \/ SettleAttempt(i)
  PROVE  /\ Ids' = Ids
         /\ \A j \in Ids : j # i => records'[j] = records[j]
         /\ Operated(records[i], records'[i])
         /\ SettleAttempt(i) => NotFailed(records[i], records'[i])
<1>1. records[i] \in ActionRecord /\ records \in Seq(ActionRecord)
  BY DEF TypeOK, Ids
<1>2. ASSUME NEW status, NEW updated \in ActionRecord, TransitionRecord(i, status, updated),
             updated.action_id = records[i].action_id,
             updated.record_integrity = records[i].record_integrity,
             updated.counts_as_retry = records[i].counts_as_retry \/ status = "failed",
             \/ updated.blocked_reason = None
             \/ status = "blocked"
             \/ updated = records[i] /\ records[i].attempt_status # "blocked"
      PROVE  /\ Ids' = Ids
             /\ \A j \in Ids : j # i => records'[j] = records[j]
             /\ Operated(records[i], records'[i])
             /\ status # "failed" => NotFailed(records[i], records'[i])
  <2> DEFINE new == [updated EXCEPT !.attempt_status = status]
  <2>1. /\ records' = [records EXCEPT ![i] = new]
        /\ records[i].finalized => new = records[i]
        /\ <<records[i].attempt_status, status>> \in VALID_TRANSITIONS
    BY <1>2 DEF TransitionRecord, MutateRecord, FinalizedImmutability
  <2>2. /\ Ids' = Ids
        /\ \A j \in Ids : j # i => records'[j] = records[j]
        /\ records'[i] = new
    BY <1>1, <2>1 DEF Ids
  <2>3. /\ new.attempt_status = status
        /\ new.action_id = records[i].action_id
        /\ new.record_integrity = records[i].record_integrity
        /\ new.counts_as_retry = updated.counts_as_retry
        /\ new.blocked_reason = updated.blocked_reason
    BY <1>2 DEF ActionRecord
  <2>4. records[i].attempt_status \in ActiveStatuses /\ records[i].attempt_status # "failed"
    BY <2>1 DEF VALID_TRANSITIONS, ActiveStatuses
  <2> HIDE DEF new
  <2> QED
    BY <1>2, <2>1, <2>2, <2>3, <2>4 DEF Operated, NotFailed
<1>3. /\ Unblocked(records[i]) \in ActionRecord
      /\ Unblocked(records[i]).action_id = records[i].action_id
      /\ Unblocked(records[i]).record_integrity = records[i].record_integrity
      /\ Unblocked(records[i]).counts_as_retry = records[i].counts_as_retry
      /\ Unblocked(records[i]).blocked_reason = None
  BY <1>1 DEF Unblocked, ActionRecord
<1>4. CASE records[i].attempt_status = "selected" /\ StartRunning(i)
  <2>1. TransitionRecord(i, "running", records[i])
    BY <1>4 DEF StartRunning
  <2> QED
    BY <1>1, <1>2, <1>4, <2>1
<1>5. ASSUME NEW reason \in BlockedReasonTypes, BlockAttempt(i, reason, reason \in ResumableTypes)
      PROVE  /\ Ids' = Ids
             /\ \A j \in Ids : j # i => records'[j] = records[j]
             /\ Operated(records[i], records'[i])
             /\ NotFailed(records[i], records'[i])
  <2> DEFINE waiting == reason \in ResumableTypes
             updated == [records[i] EXCEPT !.blocked_reason = reason, !.waiting_target = waiting]
  <2>1. waiting \in BOOLEAN
    OBVIOUS
  <2> HIDE DEF waiting
  <2>2. /\ updated \in ActionRecord
        /\ updated.action_id = records[i].action_id
        /\ updated.record_integrity = records[i].record_integrity
        /\ updated.counts_as_retry = records[i].counts_as_retry
    BY <1>1, <2>1 DEF ActionRecord
  <2>3. TransitionRecord(i, "blocked", updated)
    BY <1>5 DEF BlockAttempt, waiting
  <2> HIDE DEF updated
  <2> QED
    BY <1>2, <2>2, <2>3
<1>6. CASE ResumeAttempt(i) \/ CompleteAttempt(i) \/ AbandonAttempt(i)
  <2>1. PICK status \in {"running", "done", "abandoned"} :
          TransitionRecord(i, status, Unblocked(records[i]))
    BY <1>6 DEF ResumeAttempt, CompleteAttempt, AbandonAttempt
  <2> QED
    BY <1>2, <1>3, <2>1
<1>7. ASSUME NEW reason \in FailureReasons, FailAttempt(i, reason)
      PROVE  /\ Ids' = Ids
             /\ \A j \in Ids : j # i => records'[j] = records[j]
             /\ Operated(records[i], records'[i])
  <2> DEFINE counted == reason \in CountedFailures
             updated == [Unblocked(records[i]) EXCEPT !.failure_reason = reason,
                                                      !.counts_as_retry = counted]
  <2>1. counted \in BOOLEAN
    OBVIOUS
  <2> HIDE DEF counted
  <2>2. /\ updated \in ActionRecord
        /\ updated.action_id = records[i].action_id
        /\ updated.record_integrity = records[i].record_integrity
        /\ updated.blocked_reason = None
    BY <1>3, <2>1 DEF ActionRecord
  <2>3. TransitionRecord(i, "failed", updated)
    BY <1>7 DEF FailAttempt, counted
  <2> HIDE DEF updated
  <2> QED
    BY <1>2, <2>2, <2>3
<1>8. ASSUME NEW time \in Times, FinalizeAttempt(i, time)
      PROVE  /\ Ids' = Ids
             /\ \A j \in Ids : j # i => records'[j] = records[j]
             /\ Operated(records[i], records'[i])
             /\ NotFailed(records[i], records'[i])
  <2> DEFINE new == [records[i] EXCEPT !.finalized = TRUE, !.finalized_at = time]
  <2>1. /\ records' = [records EXCEPT ![i] = new]
        /\ records[i].finalized => new = records[i]
    BY <1>8 DEF FinalizeAttempt, MutateRecord, FinalizedImmutability
  <2>2. /\ Ids' = Ids
        /\ \A j \in Ids : j # i => records'[j] = records[j]
        /\ records'[i] = new
    BY <1>1, <2>1 DEF Ids
  <2>3. /\ new.action_id = records[i].action_id
        /\ new.record_integrity = records[i].record_integrity
        /\ new.attempt_status = records[i].attempt_status
        /\ new.counts_as_retry = records[i].counts_as_retry
        /\ new.blocked_reason = records[i].blocked_reason
        /\ new.finalized
    BY <1>1 DEF ActionRecord
  <2> HIDE DEF new
  <2> QED
    BY <2>1, <2>2, <2>3 DEF Operated, NotFailed
<1>9. ASSUME SettleAttempt(i) PROVE NotFailed(records[i], records'[i])
  <2>1. CASE ResumeAttempt(i) \/ AbandonAttempt(i)
    <3>1. PICK status \in {"running", "abandoned"} :
            TransitionRecord(i, status, Unblocked(records[i]))
      BY <2>1 DEF ResumeAttempt, AbandonAttempt
    <3> QED
      BY <1>2, <1>3, <3>1
  <2> QED
    BY <1>8, <1>9, <2>1 DEF SettleAttempt
<1> QED
  BY <1>4, <1>5, <1>6, <1>7, <1>8, <1>9 DEF AdvanceAttempt, SettleAttempt

-------------------------------------------------------------------------------
(* The mirrors *)

(* Only a blocked attempt has a reason. *)
ReasonMeansBlocked ==
  \A i \in Ids : records[i].blocked_reason # None => records[i].attempt_status = "blocked"

(* Only the mirror of a blocked action has a reason. *)
MirrorShape ==
  \A a \in Actions : mirror[a].last_blocked_reason # None => mirror[a].status = "blocked"

(* Whose mirror has just been repaired, or not been written since, is blocked if the mirror has *)
(* a reason; the executor is at work on the others, and the caller on all while the run stops.  *)
Settled(a) == turn = "resolve" \/ (turn = "execute" /\ a # current_action_id)
MirrorCurrent ==
  \A a \in Actions : Settled(a) /\ mirror[a].last_blocked_reason # None => Status(a) = "blocked"

WInv == /\ SInv
        /\ ReasonMeansBlocked
        /\ MirrorShape
        /\ MirrorCurrent

(* The reason that is read off the records is that of a blocked attempt. *)
LEMMA RecordedReasonMeansBlocked ==
  ASSUME IInv, ReasonMeansBlocked, NEW a \in Actions, RecordedReason(a) # None
  PROVE  Status(a) = "blocked"
<1>1. Truth(a) # 0
  BY DEF RecordedReason
<1>2. Truth(a) \in Ids
  BY <1>1, TruthIsTrusted
<1> QED
  BY <1>1, <1>2 DEF RecordedReason, Status, ReasonMeansBlocked

(* A repaired mirror has a reason only while its action is blocked: the reason itself is not    *)
(* compared, but the status is, and it goes with the reason.                                    *)
LEMMA RepairedMeansBlocked ==
  ASSUME IInv, ReasonMeansBlocked, MirrorShape, NEW a \in Actions,
         Repaired(a).last_blocked_reason # None
  PROVE  Repaired(a).status = "blocked" /\ Status(a) = "blocked"
<1>1. CASE Repaired(a) = Synced(a)
  <2>1. Synced(a).status = Status(a) /\ Synced(a).last_blocked_reason = RecordedReason(a)
    BY DEF Synced
  <2> QED
    BY <1>1, <2>1, RecordedReasonMeansBlocked
<1>2. CASE Repaired(a) = mirror[a] /\ mirror[a].status = Status(a)
  BY <1>2 DEF MirrorShape
<1> QED
  BY <1>1, <1>2 DEF Repaired

(* The executor's calls are about the current action. *)
LEMMA ExecuteKeepsOthers ==
  ASSUME SInv, Execute, NEW a \in Actions, a # current_action_id
  PROVE  Status(a)' = Status(a)
<1>0. /\ IInv /\ TypeOK
      /\ records \in Seq(ActionRecord)
      /\ current_action_id \in Actions
      /\ \A i \in Ids : i # Len(records) + 1
  BY DEF SInv, IInv, SchedulingTypeOK, TypeOK, Execute, Ids
<1>1. /\ Ids \subseteq Ids'
      /\ \A i \in Ids : /\ records'[i].action_id = records[i].action_id
                        /\ records[i].action_id = a => records'[i] = records[i]
      /\ \A i \in Ids' \ Ids : records'[i].action_id = current_action_id
  <2>1. CASE OpenAttempt(current_action_id)
    <3>1. /\ Ids' = Ids \cup {Len(records) + 1}
          /\ \A i \in Ids : records'[i] = records[i]
          /\ records'[Len(records) + 1] = NewRecord(current_action_id, FALSE)
      <4>1. CreateAttempt(current_action_id, FALSE)
        BY <2>1 DEF OpenAttempt
      <4> QED
        BY <1>0, <4>1, CreateAppends
    <3>2. NewRecord(current_action_id, FALSE).action_id = current_action_id
      BY DEF NewRecord
    <3> QED
      BY <3>1, <3>2
  <2>2. ASSUME NEW i \in AttemptsOf(current_action_id), AdvanceAttempt(i)
        PROVE  /\ Ids \subseteq Ids'
               /\ \A j \in Ids : /\ records'[j].action_id = records[j].action_id
                                 /\ records[j].action_id = a => records'[j] = records[j]
               /\ \A j \in Ids' \ Ids : records'[j].action_id = current_action_id
    <3>1. i \in Ids /\ records[i].action_id = current_action_id
      BY DEF AttemptsOf
    <3>2. /\ Ids' = Ids
          /\ \A j \in Ids : j # i => records'[j] = records[j]
          /\ Operated(records[i], records'[i])
      BY <1>0, <2>2, <3>1, OperationsOperate
    <3> QED
      BY <3>1, <3>2 DEF Operated
  <2> QED
    BY <2>1, <2>2 DEF Execute
<1>2. /\ Trusted(a)' = Trusted(a)
      /\ \A i \in Trusted(a) : i \in Ids /\ records'[i] = records[i]
  BY <1>1 DEF Trusted, AttemptsOf
<1>3. LatestValidRecords(a)' = LatestValidRecords(a)
  BY <1>2 DEF LatestValidRecords
<1>4. Truth(a)' = Truth(a)
  BY <1>3 DEF Truth
<1>5. Truth(a) # 0 => records'[Truth(a)] = records[Truth(a)]
  BY <1>2, TruthIsTrusted DEF SInv
<1> QED
  BY <1>4, <1>5 DEF Status

(* No call leaves a reason behind on an attempt that is no longer blocked. *)
LEMMA NextPreservesReasons ==
  ASSUME SInv, ReasonMeansBlocked, [SchedulingNext]_allVars
  PROVE  ReasonMeansBlocked'
<1>0. /\ IInv /\ TypeOK /\ records \in Seq(ActionRecord)
      /\ current_action_id \in Actions \cup {None}
  BY DEF SInv, IInv, SchedulingTypeOK, TypeOK
<1>1. ASSUME NEW i \in Ids, AdvanceAttempt(i) \/ SettleAttempt(i)
      PROVE  ReasonMeansBlocked'
  BY <1>0, <1>1, OperationsOperate DEF ReasonMeansBlocked, Operated
<1>2. CASE turn = "execute" /\ OpenAttempt(current_action_id)
  <2>1. current_action_id \in Actions
    BY <1>0, <1>2 DEF SInv, SchedulingTypeOK
  <2>2. /\ Ids' = Ids \cup {Len(records) + 1}
        /\ \A i \in Ids : records'[i] = records[i]
        /\ records'[Len(records) + 1] = NewRecord(current_action_id, FALSE)
    <3>1. CreateAttempt(current_action_id, FALSE)
      BY <1>2 DEF OpenAttempt
    <3> QED
      BY <1>0, <2>1, <3>1, CreateAppends
  <2>3. NewRecord(current_action_id, FALSE).blocked_reason = None
    BY DEF NewRecord
  <2> QED
    BY <2>2, <2>3 DEF ReasonMeansBlocked
<1>3. ASSUME NEW i \in Ids, NEW verdict \in Verdicts, AuditRecord(i, verdict)
      PROVE  ReasonMeansBlocked'
  <2>1. /\ Ids' = Ids
        /\ \A j \in Ids : /\ records'[j].blocked_reason = records[j].blocked_reason
                          /\ records'[j].attempt_status = records[j].attempt_status
    BY <1>0, <1>3 DEF AuditRecord, Ids, ActionRecord
  <2> QED
    BY <2>1 DEF ReasonMeansBlocked
<1>4. CASE UNCHANGED records
  BY <1>4 DEF ReasonMeansBlocked, Ids
<1>5. CASE Execute
  BY <1>1, <1>2, <1>5 DEF Execute, AttemptsOf
<1>6. ASSUME NEW i \in Ids, Settle(i) \/ AuditEnded(i) PROVE ReasonMeansBlocked'
  BY <1>1, <1>3, <1>6 DEF Settle, AuditEnded
<1> QED
  BY <1>4, <1>5, <1>6
  DEF SchedulingNext, ResolveAction, Answer, RunAgain, Return, allVars, vars

(* The mirrors are only written by the repair, which runs before the scheduler reads them. *)
LEMMA NextPreservesMirrors ==
  ASSUME WInv, AlwaysRepairs, [SchedulingNext]_allVars
  PROVE  MirrorShape' /\ MirrorCurrent'
<1>0. /\ IInv /\ ReasonMeansBlocked /\ MirrorShape /\ MirrorCurrent
      /\ mirror \in [Actions -> Mirrors]
      /\ current_action_id \in Actions \cup {None}
  BY DEF WInv, SInv, SchedulingTypeOK
<1>1. CASE RunAgain
  <2>1. UNCHANGED records /\ mirror' = [a \in Actions |-> Repaired(a)]
    BY <1>1 DEF RunAgain, vars
  <2>2. ASSUME NEW a \in Actions, mirror'[a].last_blocked_reason # None
        PROVE  mirror'[a].status = "blocked" /\ Status(a)' = "blocked"
    <3>1. mirror'[a] = Repaired(a)
      BY <2>1
    <3>2. Repaired(a).status = "blocked" /\ Status(a) = "blocked"
      BY <1>0, <2>2, <3>1, RepairedMeansBlocked
    <3> QED
      BY <2>1, <3>1, <3>2, TruthUnchanged
  <2> QED
    BY <2>2 DEF MirrorShape, MirrorCurrent
<1>2. CASE Return
  <2>1. /\ UNCHANGED records
        /\ mirror' = [mirror EXCEPT ![current_action_id] = Repaired(current_action_id)]
        /\ turn = "execute"
    BY <1>2 DEF Return, vars
  <2>2. ASSUME NEW a \in Actions, mirror'[a].last_blocked_reason # None
        PROVE  mirror'[a].status = "blocked" /\ Status(a)' = "blocked"
    <3>1. CASE a = current_action_id
      <4>1. mirror'[a] = Repaired(a)
        BY <1>0, <2>1, <3>1
      <4>2. Repaired(a).status = "blocked" /\ Status(a) = "blocked"
        BY <1>0, <2>2, <4>1, RepairedMeansBlocked
      <4> QED
        BY <2>1, <4>1, <4>2, TruthUnchanged
    <3>2. CASE a # current_action_id
      <4>1. mirror'[a] = mirror[a]
        BY <1>0, <2>1, <3>2
      <4>2. Status(a) = "blocked" /\ mirror[a].status = "blocked"
        BY <1>0, <2>1, <2>2, <3>2, <4>1 DEF MirrorCurrent, MirrorShape, Settled
      <4> QED
        BY <2>1, <4>1, <4>2, TruthUnchanged
    <3> QED
      BY <3>1, <3>2
  <2> QED
    BY <2>2 DEF MirrorShape, MirrorCurrent
<1>3. CASE Execute
  <2>1. UNCHANGED <<turn, current_action_id, mirror>> /\ turn = "execute"
    BY <1>3 DEF Execute
  <2>2. ASSUME NEW a \in Actions, Settled(a), mirror[a].last_blocked_reason # None
        PROVE  Status(a)' = "blocked"
    <3>1. a # current_action_id /\ Status(a) = "blocked"
      BY <1>0, <2>1, <2>2 DEF Settled, MirrorCurrent
    <3> QED
      BY <1>3, <3>1, ExecuteKeepsOthers DEF WInv
  <2> QED
    BY <1>0, <2>1, <2>2 DEF MirrorShape, MirrorCurrent, Settled
<1>4. CASE ResolveAction
  <2>1. UNCHANGED <<records, mirror>> /\ turn = "resolve"
    BY <1>4 DEF ResolveAction, vars
  <2>2. \A a \in Actions : mirror[a].last_blocked_reason # None => Status(a)' = "blocked"
    BY <1>0, <2>1, TruthUnchanged DEF MirrorCurrent, Settled
  <2> QED
    BY <1>0, <2>1, <2>2 DEF MirrorShape, MirrorCurrent
<1>5. CASE \/ \E a \in Actions : Answer(a)
           \/ \E i \in Ids : Settle(i) \/ AuditEnded(i)
  <2>1. UNCHANGED <<mirror, turn>> /\ turn = "stopped"
    BY <1>5 DEF Answer, Settle, AuditEnded, schedulingVars
  <2> QED
    BY <1>0, <2>1 DEF MirrorShape, MirrorCurrent, Settled
<1>6. CASE UNCHANGED allVars
  <2>1. UNCHANGED <<records, turn, current_action_id, mirror>>
    BY <1>6 DEF allVars, vars, schedulingVars
  <2> QED
    BY <1>0, <2>1, TruthUnchanged DEF MirrorShape, MirrorCurrent, Settled
<1> QED
  BY <1>1, <1>2, <1>3, <1>4, <1>5, <1>6 DEF SchedulingNext

(* Initially no mirror has a reason. *)
LEMMA InitEstablishesWInv == SchedulingInit => WInv
<1> SUFFICES ASSUME SchedulingInit PROVE WInv
  OBVIOUS
<1>1. SInv /\ Ids = {}
  BY InitEstablishesSInv DEF SchedulingInit, Init, Ids
<1>2. \A a \in Actions : mirror[a].last_blocked_reason = None
  BY DEF SchedulingInit
<1> QED
  BY <1>1, <1>2 DEF WInv, ReasonMeansBlocked, MirrorShape, MirrorCurrent

(* What resolve_current_action may wait for, it read a reason for. *)
LEMMA WaitHasReason ==
  ASSUME NEW result \in Resolutions, result.kind \in WaitKinds,
         current_action_id \in Actions \cup {None}
  PROVE  /\ result.action_id \in Actions
         /\ BlockedReason(result.action_id) \in ResumableTypes
<1> USE DEF WaitKinds, Resolution
<1> DEFINE Waits(r) == /\ r.action_id \in Actions
                       /\ BlockedReason(r.action_id) \in ResumableTypes
           Fine(r) == r.kind \in WaitKinds => Waits(r)
<1>1. ASSUME NEW kind, kind \notin WaitKinds, NEW as, NEW r \in Each(kind, as)
      PROVE  Fine(r)
  <2>1. PICK a \in as : r = Resolution(kind, a)
    BY <1>1 DEF Each
  <2>2. r.kind = kind
    BY <2>1
  <2> QED
    BY <1>1, <2>2
<1>2. \A r \in OfNoAction : Fine(r)
  BY DEF OfNoAction, Each, FirstWaiting, Waiting
<1>3. \A r \in OfGuide : Fine(r)
  <2> HIDE DEF Fine
  <2> QED
    BY <1>1, <1>2 DEF OfGuide
<1>4. ASSUME NEW a \in Actions, NEW r \in OfCandidate(a) PROVE Fine(r)
  <2>1. Fine(OfBlocked(a))
    BY DEF OfBlocked
  <2>2. Fine(Resolution("continue_current_action", a)) /\ Fine(Resolution("retry_current_action", a))
    OBVIOUS
  <2> HIDE DEF Fine
  <2> QED
    BY <1>1, <1>3, <1>4, <2>1, <2>2 DEF OfCandidate
<1>5. Candidates \subseteq Actions
  BY SchedulingAssumption DEF Candidates, Active
<1>6. Fine(result)
  <2> HIDE DEF Fine
  <2> QED
    BY <1>3, <1>4, <1>5 DEF Resolutions
<1> QED
  BY <1>6

-------------------------------------------------------------------------------
(* The results *)

(* The inductive invariant holds throughout. *)
THEOREM SchedulingInductive == SchedulingSpec => []SInv
<1> QED
  BY InitEstablishesSInv, NextPreservesSInv, PTL DEF SchedulingSpec, allVars

(* The scheduler's state and the mirrors keep their types. *)
THEOREM SchedulingTypeCorrect == SchedulingSpec => []SchedulingTypeOK
<1>1. SInv => SchedulingTypeOK
  BY DEF SInv
<1> QED
  BY <1>1, SchedulingInductive, PTL

(* Scheduler, executor and caller together implement the protocol: whatever is proved of *)
(* ExecutionProtocol's specification holds of the composition.                             *)
THEOREM ImplementsProtocol == SchedulingSpec => Spec
<1>1. SchedulingInit => Init
  BY DEF SchedulingInit
<1>2. SInv /\ [SchedulingNext]_allVars => [Next]_vars
  BY SchedulingStepIsProtocolStep DEF SInv, IInv, SchedulingTypeOK
<1> QED
  BY <1>1, <1>2, SchedulingInductive, PTL DEF SchedulingSpec, Spec, allVars

(* So the attempts the scheduler sends out live as AttemptLifecycle says: one at a time, closed  *)
(* and sealed once, with a verdict that stays.                                                    *)
THEOREM SchedulingKeepsLifecycle == SchedulingSpec => LifecycleSpec
<1> QED
  BY ImplementsProtocol, ImplementsLifecycle, PTL

(* The scheduler's retry count is a count of failures: what refutes OnlyFailuresAreRetries of the *)
(* protocol on its own, an attempt that is charged from its creation, needs a caller that the      *)
(* scheduler's executor is not.                                                                    *)
THEOREM SchedulingChargesFailures == SchedulingSpec => []OnlyFailuresAreRetries
<1>1. ASSUME SInv, [SchedulingNext]_allVars
      PROVE  CreatedUncharged
  <2>0. /\ IInv /\ TypeOK
        /\ current_action_id \in Actions \cup {None}
        /\ turn = "execute" => current_action_id # None
    BY <1>1 DEF SInv, IInv, SchedulingTypeOK
  <2>1. CASE CreateAttempt(current_action_id, FALSE) /\ current_action_id \in Actions
    <3>1. /\ \A i \in Ids' \ Ids : records'[i] = NewRecord(current_action_id, FALSE)
          /\ NewRecord(current_action_id, FALSE).counts_as_retry = FALSE
      BY <2>0, <2>1, CreateAppends DEF NewRecord
    <3> QED
      BY <3>1 DEF CreatedUncharged
  <2>2. CASE \/ \E i \in Ids : Mutates(i)
             \/ \E i \in Ids, verdict \in Verdicts : AuditRecord(i, verdict)
             \/ UNCHANGED vars
    <3>1. Ids' = Ids
      BY <2>0, <2>2 DEF Mutates, MutateRecord, AuditRecord, vars, Ids, TypeOK
    <3> QED
      BY <3>1 DEF CreatedUncharged
  <2> QED
    BY <1>1, <2>0, <2>1, <2>2, SchedulingStepShapes
<1>2. SInv /\ [SchedulingNext]_allVars => [CreatedUncharged]_vars
  BY <1>1
<1> QED
  BY <1>2, ImplementsProtocol, ChargesAreFailures, SchedulingInductive, PTL
     DEF SchedulingSpec, allVars

(* The executor that was sent out never opens an attempt for an action that is done, that is *)
(* never retried or whose failure is final.                                                    *)
THEOREM AttemptsAreLegal == SchedulingSpec => OnlyLegalAttempts
<1>1. ASSUME SInv, [SchedulingNext]_allVars
      PROVE  \A i \in Ids' \ Ids : MayBeAttempted(records'[i].action_id)
  <2> DEFINE a == current_action_id
  <2>0. /\ IInv /\ TypeOK
        /\ a \in Actions \cup {None}
        /\ turn = "execute" => a # None
        /\ records \in Seq(ActionRecord)
    BY <1>1 DEF SInv, IInv, SchedulingTypeOK, TypeOK
  <2>1. CASE /\ turn = "execute"
             /\ OpenAttempt(a)
             /\ CreateAttempt(a, FALSE)
             /\ a \in Actions
    <3>1. /\ ~worked
          /\ ~\E i \in Trusted(a) : IsActive(records[i])
      BY <2>1 DEF OpenAttempt
    <3>2. Status(a) \notin ActiveStatuses
      <4>1. CASE Truth(a) = 0
        BY <4>1 DEF Status, ActiveStatuses
      <4>2. CASE Truth(a) # 0
        BY <2>0, <2>1, <3>1, <4>2, TruthIsTrusted DEF Status, IsActive
      <4> QED
        BY <4>1, <4>2
    <3>3. MayBeAttempted(a)
      BY <1>1, <2>1, <3>1, <3>2 DEF SInv, DispatchedIsLegal
    <3>4. /\ Ids' = Ids \cup {Len(records) + 1}
          /\ records'[Len(records) + 1] = NewRecord(a, FALSE)
      BY <2>0, <2>1, CreateAppends
    <3>5. NewRecord(a, FALSE).action_id = a
      BY DEF NewRecord
    <3> QED
      BY <3>3, <3>4, <3>5
  <2>2. CASE \E i \in Ids : Mutates(i)
    BY <2>0, <2>2 DEF Mutates, MutateRecord, Ids
  <2>3. CASE \E i \in Ids, verdict \in Verdicts : AuditRecord(i, verdict)
    BY <2>0, <2>3 DEF AuditRecord, Ids
  <2>4. CASE UNCHANGED vars
    BY <2>4 DEF vars, Ids
  <2> QED
    BY <1>1, <2>0, <2>1, <2>2, <2>3, <2>4, SchedulingStepShapes
<1> QED
  BY <1>1, SchedulingInductive, PTL DEF SchedulingSpec, OnlyLegalAttempts, allVars

(* Whatever is dispatched can be worked on: create_attempt will not refuse a new attempt for *)
(* one that resolve_current_action did not see, and a blocked attempt can be resumed.          *)
THEOREM DispatchesProceed == SchedulingSpec => DispatchCanProceed
<1>1. ASSUME SInv, [SchedulingNext]_allVars, turn = "resolve", turn' = "execute"
      PROVE  CanProceed(current_action_id')
  <2>1. ResolveAction
    BY <1>1 DEF SchedulingNext, Answer, RunAgain, Execute, Return, Settle, AuditEnded, allVars,
                schedulingVars
  <2>2. PICK result \in Resolutions :
          result.kind \in ExecuteKinds /\ current_action_id' = result.action_id
    BY <1>1, <2>1 DEF ResolveAction
  <2> DEFINE a == result.action_id
  <2>3. /\ a \in Actions
        /\ Status(a) = "blocked" => BlockedReason(a) = None
    BY <1>1, <2>2, DispatchIsLegal
  <2> HIDE DEF a
  <2>4. (\A i \in AttemptsOf(a) : ~IsActive(records[i])) => CanProceed(a)
    BY DEF CanProceed
  <2>5. ASSUME NEW i \in AttemptsOf(a), IsActive(records[i])
        PROVE  CanProceed(a)
    <3>1. Truth(a) = i /\ i \in Ids /\ i # 0
      BY <1>1, <2>3, <2>5, ActiveTruth DEF AttemptsOf, SInv, IInv, TypeOK, Ids
    <3>2. Status(a) = records[i].attempt_status /\ RecordedReason(a) = records[i].blocked_reason
      BY <3>1 DEF Status, RecordedReason
    <3>3. ASSUME Status(a) = "blocked" PROVE RecordedReason(a) \in ResumableTypes
      <4>1. RecordedReason(a) # None
        BY <1>1, <3>1, <3>2, <3>3 DEF SInv, BlockedHasReason
      <4> QED
        BY <2>3, <3>3, <4>1 DEF BlockedReason
    <3> QED
      BY <2>5, <3>1, <3>3 DEF CanProceed
  <2>6. current_action_id' = a
    BY <2>2 DEF a
  <2> QED
    BY <2>4, <2>5, <2>6
<1> QED
  BY <1>1, SchedulingInductive, PTL DEF SchedulingSpec, DispatchCanProceed, allVars

(* If executor and caller repair the mirrors before they go on, the run never stops to wait for *)
(* an action that is not blocked: classify_blocked_action may fall back on a mirror's reason,    *)
(* but a repaired mirror has one only while the records say the same.                           *)
THEOREM WaitsAreForBlocked == ASSUME AlwaysRepairs PROVE SchedulingSpec => WaitsOnlyForBlocked
<1>1. WInv /\ [SchedulingNext]_allVars => WInv'
  BY NextPreservesSInv, NextPreservesReasons, NextPreservesMirrors DEF WInv
<1>2. ASSUME WInv, [SchedulingNext]_allVars, turn = "resolve", turn' = "stopped"
      PROVE  Status(current_action_id') = "blocked"
  <2>1. ResolveAction
    BY <1>2 DEF SchedulingNext, Answer, RunAgain, Execute, Return, Settle, AuditEnded, allVars,
                schedulingVars
  <2>2. PICK result \in Resolutions :
          result.kind \in WaitKinds /\ current_action_id' = result.action_id
    BY <1>2, <2>1 DEF ResolveAction
  <2> DEFINE a == result.action_id
  <2>3. a \in Actions /\ BlockedReason(a) \in ResumableTypes
    BY <1>2, <2>2, WaitHasReason DEF WInv, SInv, SchedulingTypeOK
  <2> HIDE DEF a
  <2>4. None \notin ResumableTypes
    BY ConstantsAssumption DEF ResumableTypes, AllBlockedReasonTypes
  <2>5. RecordedReason(a) # None \/ mirror[a].last_blocked_reason # None
    BY <2>3, <2>4 DEF BlockedReason
  <2>6. Status(a) = "blocked"
    BY <1>2, <2>3, <2>5, RecordedReasonMeansBlocked DEF WInv, SInv, MirrorCurrent, Settled
  <2> QED
    BY <2>2, <2>6 DEF a
<1> QED
  BY <1>1, <1>2, InitEstablishesWInv, PTL DEF SchedulingSpec, WaitsOnlyForBlocked, allVars

===============================================================================
