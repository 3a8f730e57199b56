--------------------------- MODULE RetryLimit_proofs ---------------------------
(***************************************************************************)
(* Proof that the scheduler keeps the retry limit (RetriesWithinLimit of   *)
(* ActionScheduling), for every value of the constants.                    *)
(*                                                                         *)
(* The limit is only looked at when an action whose last trusted attempt   *)
(* failed is resolved; an abandoned attempt is followed by a new one       *)
(* without a look.  What makes the limit hold is that it held when the     *)
(* abandoned attempt was opened, and that nothing before an attempt is     *)
(* charged after it was opened (BelowLimit, NothingPending).               *)
(***************************************************************************)
EXTENDS ActionScheduling_proofs, WellFoundedInduction

Limit(a) == Max({1, MaxRetry[a]})

(* The charged attempts of an action from before position k of a record list. *)
ChargedBefore(rs, a, k) == {i \in DOMAIN rs : /\ i < k
                                             /\ rs[i].action_id = a
                                             /\ rs[i].record_integrity \in TrustedIntegrity
                                             /\ rs[i].finalized
                                             /\ rs[i].counts_as_retry}

(* When attempt k was opened, and ever since, those before it were below the limit. *)
BelowLimit == \A a \in Actions : \A k \in AttemptsOf(a) :
                Cardinality(ChargedBefore(records, a, k)) < Limit(a)

(* Only a failed attempt is charged. *)
ChargesFailures == \A i \in Ids : records[i].counts_as_retry
                                  => records[i].attempt_status = "failed"

(* A failed attempt that is not finalized is the one the executor is at work on. *)
Unsettled(i) == records[i].attempt_status = "failed" /\ ~records[i].finalized
NothingPending ==
  \A i \in Ids : Unsettled(i)
                 => turn = "execute" /\ worked /\ records[i].action_id = current_action_id

(* An attempt that may still be charged is the last of its action. *)
ChargeableIsLast ==
  \A i, k \in Ids : /\ records[i].action_id = records[k].action_id
                    /\ i < k
                    => ~IsActive(records[i]) /\ ~Unsettled(i)

(* Until the executor's first call, the limit the scheduler looked at holds. *)
DispatchedWithin ==
  turn = "execute" /\ ~worked /\ Status(current_action_id) = "failed"
  => RetryCount(current_action_id) < MaxRetry[current_action_id]

LInv == /\ SInv
        /\ BelowLimit
        /\ ChargesFailures
        /\ NothingPending
        /\ ChargeableIsLast
        /\ DispatchedWithin

-------------------------------------------------------------------------------
(* Numbers *)

(* The limit is at least one and at least max_retry. *)
LEMMA LimitType ==
  ASSUME NEW a \in Actions
  PROVE  Limit(a) \in Nat /\ Limit(a) >= 1 /\ Limit(a) >= MaxRetry[a]
<1>1. MaxRetry[a] \in Nat
  BY SchedulingAssumption
<1>2. \E x \in {1, MaxRetry[a]} : \A y \in {1, MaxRetry[a]} : x >= y
  BY <1>1
<1>3. Limit(a) \in {1, MaxRetry[a]} /\ \A y \in {1, MaxRetry[a]} : Limit(a) >= y
  BY <1>2 DEF Limit, Max
<1> QED
  BY <1>1, <1>3

(* Charged attempts can be counted, and fewer of them are not more. *)
LEMMA ChargedFinite ==
  ASSUME TypeOK, NEW a, NEW part \in SUBSET CountedRetries(a)
  PROVE  /\ IsFiniteSet(part)
         /\ Cardinality(part) \in Nat
         /\ \A fewer \in SUBSET part : /\ IsFiniteSet(fewer)
                                       /\ Cardinality(fewer) \in Nat
                                       /\ Cardinality(fewer) <= Cardinality(part)
<1>1. part \subseteq AttemptsOf(a)
  BY DEF CountedRetries, Trusted
<1>2. IsFiniteSet(part)
  BY <1>1, AttemptsFinite, FS_Subset
<1> QED
  BY <1>2, FS_Subset, FS_CardinalityType

(* A non-empty set of positions has a last one. *)
LEMMA LastPosition ==
  ASSUME TypeOK, NEW T \in SUBSET Ids, T # {}
  PROVE  \E i \in T : \A j \in T : j <= i
<1> DEFINE Mirrored == {Len(records) - i : i \in T}
<1>1. \A i \in T : i \in 1..Len(records) /\ Len(records) \in Nat
  BY DEF TypeOK, Ids
<1>2. Mirrored \subseteq Nat /\ Mirrored # {}
  BY <1>1
<1> HIDE DEF Mirrored
<1>3. PICK x \in Mirrored : \A y \in Mirrored : ~(<<y, x>> \in OpToRel(<, Nat))
  BY <1>2, WFMin, NatLessThanWellFounded
<1>4. \A y \in Mirrored : ~(y < x)
  BY <1>2, <1>3 DEF OpToRel
<1>5. PICK i \in T : x = Len(records) - i
  BY DEF Mirrored
<1>6. \A j \in T : ~(Len(records) - j < Len(records) - i)
  BY <1>4, <1>5 DEF Mirrored
<1> QED
  BY <1>1, <1>6

(* The truth of an action is its last trusted attempt. *)
LEMMA TruthIsLast ==
  ASSUME IInv, NEW a \in Actions, NEW j \in Trusted(a)
  PROVE  Truth(a) # 0 /\ j <= Truth(a)
<1>1. /\ Trusted(a) \subseteq Ids
      /\ \A i \in Trusted(a) : records[i].action_id = a
      /\ \A i \in Ids : i \in Nat \ {0} /\ records[i].attempt_index \in Nat
  <2>1. \A i \in Ids : i \in Nat \ {0} /\ records[i] \in ActionRecord
    BY DEF IInv, TypeOK, Ids
  <2>2. \A r \in ActionRecord : r.attempt_index \in Nat
    BY DEF ActionRecord
  <2> QED
    BY <2>1, <2>2 DEF Trusted, AttemptsOf
<1>2. PICK i \in Trusted(a) : \A k \in Trusted(a) : k <= i
  BY <1>1, LastPosition DEF IInv
<1>3. \A k \in Trusted(a) : k < i => records[k].attempt_index < records[i].attempt_index
  BY <1>1 DEF IInv, AttemptsNumbered
<1>4. \A k \in Trusted(a) : records[k].attempt_index <= records[i].attempt_index
  BY <1>1, <1>2, <1>3
<1>5. LatestValidRecords(a) = {i}
  <2>1. i \in LatestValidRecords(a)
    BY <1>4 DEF LatestValidRecords
  <2>2. ASSUME NEW k \in LatestValidRecords(a) PROVE k = i
    <3>1. k \in Trusted(a) /\ records[i].attempt_index <= records[k].attempt_index
      BY <2>2 DEF LatestValidRecords
    <3> QED
      BY <1>1, <1>2, <1>3, <3>1
  <2> QED
    BY <2>1, <2>2
<1>6. Truth(a) = i
  BY <1>5 DEF Truth
<1> QED
  BY <1>1, <1>2, <1>6

-------------------------------------------------------------------------------
(* The invariant, step by step *)

(* The charged attempts are those compute_retry_count_from_records counts. *)
LEMMA ChargedAreCounted ==
  ASSUME NEW a, NEW k
  PROVE  /\ ChargedBefore(records, a, k) \subseteq CountedRetries(a)
         /\ \A i \in CountedRetries(a) : i < k => i \in ChargedBefore(records, a, k)
BY DEF ChargedBefore, CountedRetries, Trusted, AttemptsOf, Ids

(* No charge before an attempt that was there is added by a step that keeps these lists. *)
LEMMA BelowLimitKept ==
  ASSUME LInv, TypeOK', NEW a \in Actions, NEW k \in AttemptsOf(a),
         ChargedBefore(records', a, k) \subseteq ChargedBefore(records, a, k)
  PROVE  Cardinality(ChargedBefore(records', a, k)) < Limit(a)
<1>1. Cardinality(ChargedBefore(records, a, k)) < Limit(a)
  BY DEF LInv, BelowLimit
<1>2. /\ Cardinality(ChargedBefore(records, a, k)) \in Nat
      /\ Cardinality(ChargedBefore(records', a, k)) \in Nat
      /\ Cardinality(ChargedBefore(records', a, k)) <= Cardinality(ChargedBefore(records, a, k))
  BY ChargedAreCounted, ChargedFinite DEF LInv, SInv, IInv
<1> QED
  BY <1>1, <1>2, LimitType

(* An operation on one attempt charges nothing before another: an attempt that may still be    *)
(* charged is the last one.                                                                     *)
LEMMA OperationKeeps ==
  ASSUME LInv, TypeOK', NEW i \in Ids,
         Ids' = Ids,
         \A j \in Ids : j # i => records'[j] = records[j],
         Operated(records[i], records'[i])
  PROVE  BelowLimit' /\ ChargesFailures' /\ ChargeableIsLast'
<1>0. \A j \in Ids : j \in Nat /\ records[j] \in ActionRecord /\ records'[j] \in ActionRecord
  BY DEF LInv, SInv, IInv, TypeOK, Ids
<1>1. \A j \in Ids : records'[j].action_id = records[j].action_id
  BY DEF Operated
<1>2. ChargesFailures'
  BY DEF LInv, ChargesFailures, Operated
<1>3. ChargeableIsLast'
  BY <1>1 DEF LInv, ChargeableIsLast, Operated, IsActive, Unsettled
<1>4. ASSUME NEW a \in Actions, NEW k \in AttemptsOf(a)
      PROVE  Cardinality(ChargedBefore(records', a, k)) < Limit(a)
  <2>1. ASSUME NEW j \in ChargedBefore(records', a, k)
        PROVE  j \in ChargedBefore(records, a, k)
    <3>1. /\ j \in Ids /\ k \in Ids /\ j < k
          /\ records[j].action_id = a /\ records[k].action_id = a
          /\ records'[j].record_integrity \in TrustedIntegrity
          /\ records'[j].finalized /\ records'[j].counts_as_retry
      BY <1>1, <2>1 DEF ChargedBefore, AttemptsOf, Ids
    <3>2. ~IsActive(records[j]) /\ ~Unsettled(j)
      BY <3>1 DEF LInv, ChargeableIsLast
    <3>3. CASE j # i
      BY <3>1, <3>3 DEF ChargedBefore, Ids
    <3>4. CASE j = i
      <4>1. records'[j].attempt_status = "failed"
        BY <1>2, <3>1 DEF ChargesFailures
      <4>2. /\ records[j].attempt_status = "failed"
            /\ records[j].counts_as_retry
            /\ records[j].record_integrity \in TrustedIntegrity
        BY <3>1, <3>2, <3>4, <4>1 DEF Operated, IsActive
      <4>3. records[j].finalized
        BY <3>2, <4>2 DEF Unsettled
      <4> QED
        BY <3>1, <4>2, <4>3 DEF ChargedBefore, Ids
    <3> QED
      BY <3>3, <3>4
  <2> QED
    BY <2>1, BelowLimitKept
<1>5. \A a \in Actions : AttemptsOf(a)' = AttemptsOf(a)
  BY <1>1 DEF AttemptsOf
<1>6. BelowLimit'
  BY <1>4, <1>5 DEF BelowLimit, AttemptsOf
<1> QED
  BY <1>2, <1>3, <1>6

(* The executor only opens an attempt below the limit, whatever became of the last one. *)
LEMMA OpensBelowLimit ==
  ASSUME LInv, turn = "execute", ~worked, NEW a \in Actions, a = current_action_id,
         \A i \in AttemptsOf(a) : ~IsActive(records[i])
  PROVE  Cardinality(CountedRetries(a)) < Limit(a)
<1>0. IInv /\ TypeOK
  BY DEF LInv, SInv, IInv
<1>1. Limit(a) \in Nat /\ Limit(a) >= 1 /\ Limit(a) >= MaxRetry[a] /\ MaxRetry[a] \in Nat
  BY LimitType, SchedulingAssumption
<1>2. CASE Truth(a) = 0
  <2>1. Trusted(a) = {}
    BY <1>0, <1>2, TruthIsLast
  <2>2. CountedRetries(a) = {}
    BY <2>1 DEF CountedRetries
  <2> QED
    BY <1>1, <2>2, FS_EmptySet
<1>3. CASE Truth(a) # 0
  <2> DEFINE t == Truth(a)
  <2>1. t \in AttemptsOf(a) /\ t \in Ids /\ Status(a) = records[t].attempt_status
    BY <1>0, <1>3, TruthIsTrusted DEF Trusted, Status
  <2>2. Status(a) \notin ActiveStatuses
    BY <2>1 DEF IsActive
  <2>3. Status(a) \in {"abandoned", "failed"}
    <3>1. MayBeAttempted(a)
      BY <2>2 DEF LInv, SInv, DispatchedIsLegal
    <3>2. Status(a) # "pending"
      <4>1. records[t] \in ActionRecord
        BY <1>0, <2>1 DEF TypeOK, Ids
      <4>2. records[t].attempt_status \in ActiveStatuses \cup TerminalStatuses
        BY <4>1 DEF ActionRecord
      <4> QED
        BY <2>1, <4>2 DEF ActiveStatuses, TerminalStatuses
    <3> QED
      BY <3>1, <3>2 DEF MayBeAttempted
  <2>4. CASE Status(a) = "failed"
    <3>1. Cardinality(CountedRetries(a)) < MaxRetry[a]
      BY <2>4 DEF LInv, DispatchedWithin, RetryCount
    <3>2. Cardinality(CountedRetries(a)) \in Nat
      BY <1>0, ChargedFinite
    <3> QED
      BY <1>1, <3>1, <3>2
  <2>5. CASE Status(a) = "abandoned"
    <3>1. t \notin CountedRetries(a)
      BY <2>1, <2>5 DEF LInv, ChargesFailures, CountedRetries
    <3>2. CountedRetries(a) \subseteq Trusted(a)
      BY DEF CountedRetries
    <3>3. \A j \in CountedRetries(a) : j <= t /\ j # t /\ j \in Nat /\ t \in Nat
      BY <1>0, <2>1, <3>1, <3>2, TruthIsLast DEF Trusted, AttemptsOf, TypeOK, Ids
    <3>4. CountedRetries(a) = ChargedBefore(records, a, t)
      BY <3>3, ChargedAreCounted
    <3> QED
      BY <2>1, <3>4 DEF LInv, BelowLimit
  <2> QED
    BY <2>3, <2>4, <2>5
<1> QED
  BY <1>2, <1>3

(* So it stays below the limit with the new attempt. *)
LEMMA OpeningKeeps ==
  ASSUME LInv, TypeOK', turn = "execute", current_action_id \in Actions,
         OpenAttempt(current_action_id)
  PROVE  BelowLimit' /\ ChargesFailures' /\ ChargeableIsLast'
<1> DEFINE a == current_action_id
           n == Len(records) + 1
<1>1. /\ Ids' = Ids \cup {n}
      /\ n \notin Ids
      /\ \A i \in Ids : records'[i] = records[i]
      /\ records'[n] = NewRecord(a, FALSE)
  BY CreateAppends DEF OpenAttempt, LInv, SInv
<1>2. /\ NewRecord(a, FALSE).action_id = a
      /\ ~NewRecord(a, FALSE).finalized
      /\ ~NewRecord(a, FALSE).counts_as_retry
  BY DEF NewRecord
<1>3. ~worked /\ \A i \in AttemptsOf(a) : ~IsActive(records[i])
  BY DEF OpenAttempt, CreateAttempt
<1>4. \A i \in Ids : i \in Nat /\ i < n
  BY DEF LInv, SInv, IInv, TypeOK, Ids
<1>5. n \in Nat
  BY DEF LInv, SInv, IInv, TypeOK
<1> HIDE DEF a, n
<1>6. ChargesFailures'
  BY <1>1, <1>2 DEF LInv, ChargesFailures
<1>7. ChargeableIsLast'
  <2>1. \A i \in Ids : ~Unsettled(i)
    BY <1>3 DEF LInv, NothingPending
  <2>2. ASSUME NEW i \in Ids', NEW k \in Ids', i < k,
               records'[i].action_id = records'[k].action_id
        PROVE  ~IsActive(records'[i]) /\ ~Unsettled(i)'
    <3>1. i \in Ids
      BY <1>1, <1>4, <1>5, <2>2
    <3>2. CASE k \in Ids
      BY <1>1, <2>2, <3>1, <3>2 DEF LInv, ChargeableIsLast, Unsettled
    <3>3. CASE k = n
      BY <1>1, <1>2, <1>3, <2>1, <2>2, <3>1, <3>3 DEF AttemptsOf, Unsettled
    <3> QED
      BY <1>1, <3>2, <3>3
  <2> QED
    BY <2>2 DEF ChargeableIsLast, Unsettled
<1>8. \A b \in Actions : \A k : ChargedBefore(records', b, k) = ChargedBefore(records, b, k)
  BY <1>1, <1>2 DEF ChargedBefore, Ids
<1>9. ASSUME NEW b \in Actions, NEW k \in Ids', records'[k].action_id = b
      PROVE  Cardinality(ChargedBefore(records', b, k)) < Limit(b)
  <2>1. CASE k \in Ids
    <3>1. k \in AttemptsOf(b)
      BY <1>1, <1>9, <2>1 DEF AttemptsOf
    <3> QED
      BY <1>8, <3>1, BelowLimitKept
  <2>2. CASE k = n
    <3>1. b = a
      BY <1>1, <1>2, <1>9, <2>2
    <3>2. CountedRetries(a) \subseteq Ids
      BY DEF CountedRetries, Trusted, AttemptsOf
    <3>3. ChargedBefore(records, a, n) = CountedRetries(a)
      BY <1>4, <3>2, ChargedAreCounted
    <3>4. Cardinality(CountedRetries(a)) < Limit(a)
      BY <1>3, <1>9, <3>1, OpensBelowLimit DEF a
    <3> QED
      BY <1>8, <1>9, <2>2, <3>1, <3>3, <3>4
  <2> QED
    BY <1>1, <1>9, <2>1, <2>2
<1>10. BelowLimit'
  BY <1>9 DEF BelowLimit, AttemptsOf
<1> QED
  BY <1>6, <1>7, <1>10

(* An audit of an ended attempt takes charges away, as long as it trusts none again. *)
LEMMA AuditKeeps ==
  ASSUME LInv, TypeOK', Verdicts \cap TrustedIntegrity = {},
         NEW i \in Ids, NEW verdict \in Verdicts, AuditRecord(i, verdict)
  PROVE  /\ BelowLimit' /\ ChargesFailures' /\ ChargeableIsLast'
         /\ Ids' = Ids
         /\ \A j \in Ids : /\ records'[j].action_id = records[j].action_id
                           /\ Unsettled(j)' = Unsettled(j)
<1>1. /\ Ids' = Ids
      /\ \A j \in Ids : j # i => records'[j] = records[j]
      /\ records'[i].record_integrity \notin TrustedIntegrity
      /\ records'[i].action_id = records[i].action_id
      /\ records'[i].attempt_status = records[i].attempt_status
      /\ records'[i].finalized = records[i].finalized
      /\ records'[i].counts_as_retry = records[i].counts_as_retry
  <2>1. /\ records \in Seq(ActionRecord) /\ i \in 1..Len(records)
        /\ records' = [records EXCEPT ![i].record_integrity = verdict]
    BY DEF AuditRecord, LInv, SInv, IInv, TypeOK, Ids
  <2>2. records[i] \in ActionRecord
    BY <2>1
  <2>3. /\ Ids' = Ids
        /\ \A j \in Ids : j # i => records'[j] = records[j]
        /\ records'[i] = [records[i] EXCEPT !.record_integrity = verdict]
    BY <2>1 DEF Ids
  <2> QED
    BY <2>2, <2>3 DEF ActionRecord
<1>2. \A j \in Ids : /\ records'[j].action_id = records[j].action_id
                     /\ records'[j].attempt_status = records[j].attempt_status
                     /\ records'[j].finalized = records[j].finalized
                     /\ records'[j].counts_as_retry = records[j].counts_as_retry
                     /\ records'[j].record_integrity \in TrustedIntegrity
                        => records[j].record_integrity \in TrustedIntegrity
  BY <1>1
<1>3. \A a \in Actions : \A k \in Ids :
        ChargedBefore(records', a, k) \subseteq ChargedBefore(records, a, k)
  BY <1>1, <1>2 DEF ChargedBefore, Ids
<1>4. \A a \in Actions : AttemptsOf(a)' = AttemptsOf(a) /\ AttemptsOf(a) \subseteq Ids
  BY <1>1, <1>2 DEF AttemptsOf
<1>5. \A a \in Actions : \A k \in AttemptsOf(a) :
        Cardinality(ChargedBefore(records', a, k)) < Limit(a)
  BY <1>3, <1>4, BelowLimitKept
<1>6. BelowLimit'
  BY <1>4, <1>5 DEF BelowLimit
<1>7. ChargesFailures' /\ ChargeableIsLast'
  BY <1>1, <1>2 DEF LInv, ChargesFailures, ChargeableIsLast, IsActive, Unsettled
<1> QED
  BY <1>1, <1>2, <1>6, <1>7 DEF Unsettled

(* A step that leaves the records alone. *)
LEMMA RecordsKept ==
  ASSUME LInv, UNCHANGED records
  PROVE  BelowLimit' /\ ChargesFailures' /\ ChargeableIsLast'
<1>1. Ids' = Ids /\ \A a \in Actions : AttemptsOf(a)' = AttemptsOf(a)
  BY DEF Ids, AttemptsOf
<1>2. BelowLimit'
  BY <1>1 DEF LInv, BelowLimit
<1> QED
  BY <1>1, <1>2 DEF LInv, ChargesFailures, ChargeableIsLast, IsActive, Unsettled

(* The invariant is inductive. *)
LEMMA NextPreservesLInv ==
  ASSUME Verdicts \cap TrustedIntegrity = {}, LInv, [SchedulingNext]_allVars
  PROVE  LInv'
<1>0. SInv' /\ TypeOK'
  BY NextPreservesSInv DEF LInv, SInv, IInv
<1> DEFINE Rest == BelowLimit /\ ChargesFailures /\ ChargeableIsLast
<1>1. CASE Execute /\ OpenAttempt(current_action_id)
  <2>1. /\ current_action_id \in Actions
        /\ UNCHANGED <<turn, current_action_id>> /\ turn = "execute" /\ worked'
    BY <1>1 DEF Execute, LInv, SInv, SchedulingTypeOK
  <2>2. Rest'
    BY <1>0, <1>1, <2>1, OpeningKeeps
  <2>3. /\ Ids' = Ids \cup {Len(records) + 1}
        /\ \A i \in Ids : records'[i] = records[i]
        /\ records'[Len(records) + 1] = NewRecord(current_action_id, FALSE)
    BY <1>1, <2>1, CreateAppends DEF OpenAttempt, LInv, SInv
  <2>4. NothingPending'
    BY <2>1, <2>3 DEF LInv, NothingPending, Unsettled, NewRecord
  <2> QED
    BY <1>0, <2>1, <2>2, <2>4 DEF LInv, DispatchedWithin
<1>2. ASSUME NEW i \in AttemptsOf(current_action_id), Execute, AdvanceAttempt(i)
      PROVE  LInv'
  <2>1. /\ i \in Ids /\ records[i].action_id = current_action_id
        /\ UNCHANGED <<turn, current_action_id>> /\ turn = "execute" /\ worked'
    BY <1>2 DEF Execute, AttemptsOf
  <2>2. /\ Ids' = Ids
        /\ \A j \in Ids : j # i => records'[j] = records[j]
        /\ Operated(records[i], records'[i])
    BY <1>2, <2>1, OperationsOperate DEF LInv, SInv, IInv
  <2>3. Rest'
    BY <1>0, <2>1, <2>2, OperationKeeps
  <2>4. NothingPending'
    BY <2>1, <2>2 DEF LInv, NothingPending, Unsettled, Operated
  <2> QED
    BY <1>0, <2>1, <2>3, <2>4 DEF LInv, DispatchedWithin
<1>3. ASSUME NEW i \in Ids, Settle(i)
      PROVE  LInv'
  <2>1. turn = "stopped" /\ turn' = "stopped" /\ SettleAttempt(i)
    BY <1>3 DEF Settle, schedulingVars
  <2>2. /\ Ids' = Ids
        /\ \A j \in Ids : j # i => records'[j] = records[j]
        /\ Operated(records[i], records'[i])
        /\ NotFailed(records[i], records'[i])
    BY <2>1, OperationsOperate DEF LInv, SInv, IInv
  <2>3. Rest'
    BY <1>0, <2>2, OperationKeeps
  <2>4. NothingPending'
    BY <2>1, <2>2 DEF LInv, NothingPending, Unsettled, NotFailed
  <2> QED
    BY <1>0, <2>1, <2>3, <2>4 DEF LInv, DispatchedWithin
<1>4. ASSUME NEW i \in Ids, AuditEnded(i)
      PROVE  LInv'
  <2>1. turn = "stopped" /\ turn' = "stopped" /\ \E verdict \in Verdicts : AuditRecord(i, verdict)
    BY <1>4 DEF AuditEnded, schedulingVars
  <2>2. /\ Rest' /\ Ids' = Ids
        /\ \A j \in Ids : /\ records'[j].action_id = records[j].action_id
                          /\ Unsettled(j)' = Unsettled(j)
    BY <1>0, <2>1, AuditKeeps
  <2>3. NothingPending'
    BY <2>1, <2>2 DEF LInv, NothingPending, Unsettled
  <2> QED
    BY <1>0, <2>1, <2>2, <2>3 DEF LInv, DispatchedWithin
<1>5. CASE ResolveAction
  <2>1. PICK result \in Resolutions :
          turn' = "execute" => result.kind \in ExecuteKinds /\ current_action_id' = result.action_id
    BY <1>5 DEF ResolveAction
  <2>2. UNCHANGED records /\ turn = "resolve"
    BY <1>5 DEF ResolveAction, vars
  <2>3. Rest'
    BY <2>2, RecordsKept
  <2>4. NothingPending'
    BY <2>2 DEF LInv, NothingPending, Unsettled, Ids
  <2>5. DispatchedWithin'
    <3>1. SUFFICES ASSUME turn' = "execute" PROVE DispatchedWithin'
      BY DEF DispatchedWithin
    <3> DEFINE a == result.action_id
    <3>2. Status(a) = "failed" => RetryAllowed(a)
      BY <2>1, <3>1, DispatchIsLegal DEF LInv
    <3>3. current_action_id' = a
      BY <2>1, <3>1
    <3> HIDE DEF a
    <3>4. Status(a)' = Status(a)
      BY <2>2, TruthUnchanged
    <3>5. RetryCount(a)' = RetryCount(a)
      BY <2>2 DEF RetryCount, CountedRetries, Trusted, AttemptsOf, Ids
    <3>6. Status(a)' = "failed" => RetryCount(a)' < MaxRetry[a]
      BY <3>2, <3>4, <3>5 DEF RetryAllowed
    <3> QED
      BY <3>3, <3>6 DEF DispatchedWithin
  <2> QED
    BY <1>0, <2>3, <2>4, <2>5 DEF LInv
<1>6. CASE RunAgain \/ \E a \in Actions : Answer(a)
  <2>1. UNCHANGED records /\ turn = "stopped" /\ turn' # "execute"
    BY <1>6 DEF RunAgain, Answer, vars
  <2>2. Rest'
    BY <2>1, RecordsKept
  <2>3. NothingPending'
    BY <2>1 DEF LInv, NothingPending, Unsettled, Ids
  <2> QED
    BY <1>0, <2>1, <2>2, <2>3 DEF LInv, DispatchedWithin
<1>7. CASE Return
  <2>1. /\ UNCHANGED records /\ turn' = "resolve"
        /\ \A i \in AttemptsOf(current_action_id) :
             records[i].attempt_status \in TerminalStatuses => records[i].finalized
    BY <1>7 DEF Return, vars
  <2>2. Rest'
    BY <2>1, RecordsKept
  <2>3. \A i \in Ids : ~Unsettled(i)
    BY <2>1 DEF LInv, NothingPending, Unsettled, AttemptsOf, TerminalStatuses
  <2>4. NothingPending'
    BY <2>1, <2>3 DEF NothingPending, Unsettled, Ids
  <2> QED
    BY <1>0, <2>1, <2>2, <2>4 DEF LInv, DispatchedWithin
<1>8. CASE UNCHANGED allVars
  <2>1. UNCHANGED <<records, turn, worked, current_action_id>>
    BY <1>8 DEF allVars, vars, schedulingVars
  <2>2. Rest'
    BY <2>1, RecordsKept
  <2>3. NothingPending'
    BY <2>1 DEF LInv, NothingPending, Unsettled, Ids
  <2> DEFINE a == current_action_id
  <2>4. Status(a)' = Status(a)
    BY <2>1, TruthUnchanged
  <2>5. RetryCount(a)' = RetryCount(a)
    BY <2>1 DEF RetryCount, CountedRetries, Trusted, AttemptsOf, Ids
  <2>6. DispatchedWithin'
    BY <2>1, <2>4, <2>5 DEF LInv, DispatchedWithin
  <2> QED
    BY <1>0, <2>2, <2>3, <2>6 DEF LInv
<1> QED
  BY <1>1, <1>2, <1>3, <1>4, <1>5, <1>6, <1>7, <1>8 DEF SchedulingNext, Execute

(* Initially there is nothing to charge. *)
LEMMA InitEstablishesLInv == SchedulingInit => LInv
<1> SUFFICES ASSUME SchedulingInit PROVE LInv
  OBVIOUS
<1>1. SInv /\ Ids = {}
  BY InitEstablishesSInv DEF SchedulingInit, Init, Ids
<1> QED
  BY <1>1 DEF LInv, BelowLimit, AttemptsOf, ChargesFailures, NothingPending, ChargeableIsLast,
              DispatchedWithin, SchedulingInit

(* The last charged attempt was opened below the limit, so the limit is not passed. *)
LEMMA WithinLimit == LInv => RetriesWithinLimit
<1> SUFFICES ASSUME LInv, NEW a \in Actions PROVE RetryCount(a) <= Limit(a)
  BY DEF RetriesWithinLimit, Limit
<1> DEFINE C == CountedRetries(a)
<1>0. TypeOK
  BY DEF LInv, SInv, IInv
<1>1. Limit(a) \in Nat
  BY LimitType
<1>2. CASE C = {}
  BY <1>1, <1>2, FS_EmptySet DEF RetryCount
<1>3. CASE C # {}
  <2>1. C \subseteq AttemptsOf(a) /\ C \subseteq Ids /\ Ids \subseteq Nat
    BY <1>0 DEF CountedRetries, Trusted, AttemptsOf, TypeOK, Ids
  <2>2. PICK k \in C : \A j \in C : j <= k
    BY <1>0, <1>3, <2>1, LastPosition
  <2>3. C \ {k} = ChargedBefore(records, a, k)
    <3>1. \A j \in ChargedBefore(records, a, k) : j \in C /\ j < k
      BY ChargedAreCounted DEF ChargedBefore
    <3>2. k \in Nat /\ \A j \in C : j \in Nat /\ j <= k
      BY <2>1, <2>2
    <3> HIDE DEF C
    <3>3. \A j \in C : j # k => j < k
      BY <3>2
    <3>4. C \ {k} \subseteq ChargedBefore(records, a, k)
      BY <3>3 DEF C, ChargedBefore, CountedRetries, Trusted, AttemptsOf, Ids
    <3>5. ChargedBefore(records, a, k) \subseteq C \ {k}
      BY <3>1, <3>2
    <3> QED
      BY <3>4, <3>5
  <2>4. Cardinality(C \ {k}) < Limit(a)
    BY <2>1, <2>3 DEF LInv, BelowLimit
  <2>5. Cardinality(C \ {k}) = Cardinality(C) - 1 /\ Cardinality(C) \in Nat
    BY <1>0, ChargedFinite, FS_RemoveElement
  <2> QED
    BY <1>1, <2>4, <2>5 DEF RetryCount
<1> QED
  BY <1>2, <1>3

-------------------------------------------------------------------------------
(* However resolutions, abandoned attempts, switches and audits interleave, no action is charged *)
(* with more failures than max_retry, the first one aside (_retry_allowed), provided the audit    *)
(* does not trust again what it condemned.                                                        *)
THEOREM RetriesStayWithinLimit ==
  ASSUME Verdicts \cap TrustedIntegrity = {}
  PROVE  SchedulingSpec => []RetriesWithinLimit
<1>1. LInv /\ [SchedulingNext]_allVars => LInv'
  BY NextPreservesLInv
<1> QED
  BY <1>1, InitEstablishesLInv, WithinLimit, PTL DEF SchedulingSpec, allVars
===============================================================================
