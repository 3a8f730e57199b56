------------------ MODULE ExecutionProtocolRefinement_proofs ------------------
(***************************************************************************)
(* ExecutionProtocol implements AttemptLifecycle.  The mapping sends a    *)
(* record to the pair of its action and index; it is one-to-one because   *)
(* attempts are numbered, so a step on one record moves one pair.         *)
(***************************************************************************)
EXTENDS ExecutionProtocol_proofs

(* Different records are different attempts. *)
LEMMA AttemptsDiffer ==
  ASSUME IInv, NEW i \in Ids, NEW j \in Ids, Attempt(i) = Attempt(j)
  PROVE  i = j
<1>1. /\ records[i].action_id = records[j].action_id
      /\ records[i].attempt_index = records[j].attempt_index
  BY DEF Attempt
<1>2. /\ \A n \in Ids : n \in Nat /\ records[n] \in ActionRecord
  BY DEF IInv, TypeOK, Ids
<1>3. records[i].attempt_index \in Nat /\ records[j].attempt_index \in Nat
  BY <1>2 DEF ActionRecord
<1>4. ~(i < j) /\ ~(j < i)
  BY <1>1, <1>3 DEF IInv, AttemptsNumbered
<1> QED
  BY <1>2, <1>4

(* The mapped sets in terms of the records. *)
LEMMA MappedSets ==
  ASSUME IInv, NEW i \in Ids
  PROVE  /\ Attempt(i) \in Opened
         /\ Attempt(i) \in Closed <=> IsTerminal(records[i])
         /\ Attempt(i) \in Sealed <=> records[i].finalized
         /\ Attempt(i) \in Charged <=> records[i].finalized /\ records[i].counts_as_retry
         /\ Attempt(i) \in Barred <=> IsFrozen(records[i])
  BY AttemptsDiffer DEF Opened, Closed, Sealed, Charged, Barred, IsTerminal

(* Evolving in place opens nothing and renames nothing. *)
LEMMA EvolvingKeepsAttempts ==
  ASSUME IInv, AllEvolve
  PROVE  /\ Ids' = Ids
         /\ \A i \in Ids : Attempt(i)' = Attempt(i)
         /\ Opened' = Opened
<1>1. Ids' = Ids /\ \A i \in Ids : Attempt(i)' = Attempt(i)
  BY DEF AllEvolve, Evolves, Attempt
<1> QED
  BY <1>1 DEF Opened

(* The sets of attempts only depend on the fields they select by. *)
LEMMA EqualFieldsEqualSets ==
  ASSUME IInv, AllEvolve
  PROVE  /\ (\A i \in Ids : IsTerminal(records'[i]) <=> IsTerminal(records[i])) => Closed' = Closed
         /\ (\A i \in Ids : records'[i].finalized <=> records[i].finalized)
            => Sealed' = Sealed /\ Charged' = Charged
         /\ (\A i \in Ids : IsFrozen(records'[i]) <=> IsFrozen(records[i])) => Barred' = Barred
<1>1. /\ Ids' = Ids
      /\ \A i \in Ids : Attempt(i)' = Attempt(i)
  BY EvolvingKeepsAttempts
<1>2. ASSUME \A i \in Ids : IsTerminal(records'[i]) <=> IsTerminal(records[i])
      PROVE  Closed' = Closed
  BY <1>1, <1>2 DEF Closed, IsTerminal
<1>3. ASSUME \A i \in Ids : records'[i].finalized <=> records[i].finalized
      PROVE  Sealed' = Sealed /\ Charged' = Charged
  <2>1. \A i \in Ids : /\ records[i] \in ActionRecord
                       /\ records'[i] \in ActionRecord
                       /\ Evolves(records[i], records'[i])
    BY DEF AllEvolve, Evolves, IInv, TypeOK, Ids
  <2>2. \A i \in Ids : records[i].finalized
                       => records'[i].counts_as_retry = records[i].counts_as_retry
    BY <2>1, BusinessStateFields DEF Evolves
  <2>3. /\ {j \in Ids : records'[j].finalized} = {j \in Ids : records[j].finalized}
        /\ {j \in Ids : records'[j].finalized /\ records'[j].counts_as_retry}
           = {j \in Ids : records[j].finalized /\ records[j].counts_as_retry}
    BY <1>3, <2>2
  <2> QED
    BY <1>1, <2>3 DEF Sealed, Charged
<1>4. ASSUME \A i \in Ids : IsFrozen(records'[i]) <=> IsFrozen(records[i])
      PROVE  Barred' = Barred
  BY <1>1, <1>4 DEF Barred, IsFrozen
<1> QED
  BY <1>2, <1>3, <1>4

-------------------------------------------------------------------------------
(* create_attempt opens the next attempt of its action. *)
LEMMA CreateOpens ==
  ASSUME IInv, NEW a \in Actions, NEW counts \in BOOLEAN, CreateAttempt(a, counts)
  PROVE  Lifecycle!Next
<1> PICK n : n = Len(records) + 1
  OBVIOUS
<1> PICK k : k = Cardinality(AttemptsOf(a)) + 1
  OBVIOUS
<1>0. TypeOK /\ AttemptsNumbered
  BY DEF IInv
<1>1. /\ Ids' = Ids \cup {n}
      /\ n \notin Ids
      /\ \A i \in Ids : records'[i] = records[i]
      /\ records'[n] = NewRecord(a, counts)
      /\ Len(records) + 1 <= MaxRecords
  BY CreateAppends
<1>2. /\ records'[n].action_id = a
      /\ records'[n].attempt_index = k
      /\ records'[n].attempt_status = "selected"
      /\ records'[n].finalized = FALSE
      /\ records'[n].frozen_by_migration_id = 0
  BY <1>0, <1>1, NextAttemptIndexIsNext DEF NewRecord
<1>3. k \in 1..MaxRecords
  <2>1. /\ Cardinality(AttemptsOf(a)) \in Nat
        /\ Cardinality(AttemptsOf(a)) <= Len(records)
    BY <1>0, AttemptsFinite
  <2>2. Len(records) \in Nat
    BY <1>0 DEF TypeOK
  <2> QED
    BY <1>1, <2>1, <2>2, ConstantsAssumption
<1>4. \A j : <<a, j>> \in Opened <=> j \in Indices(a)
  BY DEF Opened, Attempt, Indices, AttemptsOf
<1>5. Indices(a) = 1..(k - 1)
  BY <1>0, AttemptsFinite DEF AttemptsNumbered
<1>6. \A j : <<a, j>> \in Opened => <<a, j>> \in Closed
  <2> SUFFICES ASSUME NEW j, <<a, j>> \in Opened
               PROVE  <<a, j>> \in Closed
    OBVIOUS
  <2>1. PICK i \in Ids : Attempt(i) = <<a, j>>
    BY DEF Opened
  <2>2. i \in AttemptsOf(a) /\ records[i] \in ActionRecord
    BY <1>0, <2>1 DEF Attempt, AttemptsOf, TypeOK, Ids
  <2>3. IsTerminal(records[i])
    BY <2>2, StatusesPartition DEF CreateAttempt
  <2> QED
    BY <2>1, <2>3, MappedSets
<1>7. /\ \A i \in Ids : Attempt(i)' = Attempt(i)
      /\ Attempt(n)' = <<a, k>>
  BY <1>1, <1>2 DEF Attempt
<1>8. Opened' = Opened \cup {<<a, k>>}
  BY <1>1, <1>7 DEF Opened
<1>9. UNCHANGED <<Closed, Sealed, Charged, Barred>>
  <2>1. Closed' = Closed
    <3>1. {j \in Ids' : records'[j].attempt_status \in TerminalStatuses}
          = {j \in Ids : records[j].attempt_status \in TerminalStatuses}
      BY <1>1, <1>2 DEF TerminalStatuses
    <3> QED
      BY <1>7, <3>1 DEF Closed
  <2>2. Sealed' = Sealed /\ Charged' = Charged
    BY <1>1, <1>2, <1>7 DEF Sealed, Charged
  <2>3. Barred' = Barred
    <3>1. {j \in Ids' : IsFrozen(records'[j])} = {j \in Ids : IsFrozen(records[j])}
      BY <1>1, <1>2 DEF IsFrozen
    <3> QED
      BY <1>7, <3>1 DEF Barred, IsFrozen
  <2> QED
    BY <2>1, <2>2, <2>3
<1>10. \A j \in 1..MaxRecords : <<a, j>> \in Opened <=> j < k
  BY <1>3, <1>4, <1>5, ConstantsAssumption
<1>11. Lifecycle!Open(a, k)
  BY <1>6, <1>8, <1>9, <1>10 DEF Lifecycle!Open
<1> QED
  BY <1>3, <1>11 DEF Lifecycle!Next

(* A record that evolves closes its attempt, seals it or does neither. *)
LEMMA EvolvingClosesOrSeals ==
  ASSUME IInv, NEW i \in Ids, NEW new \in ActionRecord, OneEvolves(i, new)
  PROVE  [Lifecycle!Next]_(Lifecycle!vars)
<1> DEFINE old == records[i]
           a == old.action_id
           k == old.attempt_index
<1>1. /\ AllEvolve
      /\ Evolves(old, new)
      /\ records'[i] = new
      /\ \A j \in Ids : j # i => records'[j] = records[j]
      /\ new.frozen_by_migration_id = old.frozen_by_migration_id
  BY OneOfAllEvolves DEF IInv, OneEvolves, TypeOK, Ids
<1>2. Opened' = Opened /\ Barred' = Barred
  BY <1>1, EvolvingKeepsAttempts, EqualFieldsEqualSets DEF IsFrozen
<1>3. old \in ActionRecord
  BY DEF IInv, TypeOK, Ids
<1>4. /\ Attempt(i) = <<a, k>>
      /\ a \in Actions
      /\ k \in 1..MaxRecords
  <2>1. a \in Actions /\ k \in Nat \ {0}
    BY <1>3 DEF ActionRecord
  <2>2. k \in 1..Cardinality(AttemptsOf(a))
    BY <2>1 DEF IInv, AttemptsNumbered, Indices, AttemptsOf
  <2>3. /\ Cardinality(AttemptsOf(a)) \in Nat
        /\ Cardinality(AttemptsOf(a)) <= Len(records)
        /\ Len(records) <= MaxRecords
        /\ Len(records) \in Nat
    BY AttemptsFinite DEF IInv, TypeOK
  <2> QED
    BY <2>1, <2>2, <2>3, ConstantsAssumption DEF Attempt
<1>5. \A j \in Ids : Attempt(j)' = Attempt(j)
  BY <1>1, EvolvingKeepsAttempts
<1>6. old.finalized => IsTerminal(old) /\ new.finalized
  BY <1>1, <1>3, BusinessStateFields DEF IInv, FinalizedHasEnded, Evolves
<1>7. /\ IsTerminal(old) => IsTerminal(new)
      /\ ~old.finalized /\ new.finalized
         => IsTerminal(old) /\ new.counts_as_retry = old.counts_as_retry
      /\ IsFrozen(old) => new.attempt_status = old.attempt_status /\ new.finalized = old.finalized
  BY <1>1, <1>3, BusinessStateFields DEF Evolves
<1> HIDE DEF old
<1>8. CASE ~IsTerminal(old) /\ IsTerminal(new)
  <2>1. ~old.finalized /\ ~new.finalized /\ ~IsFrozen(old)
    BY <1>6, <1>7, <1>8 DEF IsTerminal
  <2>2. Sealed' = Sealed /\ Charged' = Charged
    BY <1>1, <2>1, EqualFieldsEqualSets DEF old
  <2>3. Closed' = Closed \cup {Attempt(i)}
    <3>1. {j \in Ids' : records'[j].attempt_status \in TerminalStatuses}
          = {j \in Ids : records[j].attempt_status \in TerminalStatuses} \cup {i}
      BY <1>1, <1>8, EvolvingKeepsAttempts DEF IsTerminal, old
    <3> QED
      BY <1>5, <3>1 DEF Closed
  <2>4. Attempt(i) \in Opened \ (Closed \cup Barred)
    BY <1>8, <2>1, MappedSets DEF old
  <2>5. Lifecycle!Close(a, k)
    BY <1>2, <1>4, <2>2, <2>3, <2>4 DEF Lifecycle!Close
  <2> QED
    BY <1>4, <2>5 DEF Lifecycle!Next
<1>9. CASE (IsTerminal(new) <=> IsTerminal(old)) /\ ~old.finalized /\ new.finalized
  <2>1. IsTerminal(old) /\ ~IsFrozen(old)
    BY <1>7, <1>9
  <2>2. Closed' = Closed
    BY <1>1, <1>9, EqualFieldsEqualSets DEF old
  <2>3. Sealed' = Sealed \cup {Attempt(i)}
    <3>1. {j \in Ids' : records'[j].finalized} = {j \in Ids : records[j].finalized} \cup {i}
      BY <1>1, <1>9, EvolvingKeepsAttempts DEF old
    <3> QED
      BY <1>5, <3>1 DEF Sealed
  <2>4. Charged' \in {Charged, Charged \cup {Attempt(i)}}
    <3> DEFINE sel == {j \in Ids : records[j].finalized /\ records[j].counts_as_retry}
               sel2 == {j \in Ids' : records'[j].finalized /\ records'[j].counts_as_retry}
    <3>1. sel2 = sel \/ sel2 = sel \cup {i}
      BY <1>1, <1>9, EvolvingKeepsAttempts DEF old
    <3>2. Charged = {Attempt(j) : j \in sel} /\ Charged' = {Attempt(j) : j \in sel2}
      BY <1>5, EvolvingKeepsAttempts, <1>1 DEF Charged
    <3> HIDE DEF sel, sel2
    <3> QED
      BY <3>1, <3>2
  <2>5. Attempt(i) \in Closed \ (Sealed \cup Barred)
    BY <1>9, <2>1, MappedSets DEF old
  <2>6. Lifecycle!Seal(a, k)
    BY <1>2, <1>4, <2>2, <2>3, <2>4, <2>5 DEF Lifecycle!Seal
  <2> QED
    BY <1>4, <2>6 DEF Lifecycle!Next
<1>10. CASE (IsTerminal(new) <=> IsTerminal(old)) /\ (new.finalized <=> old.finalized)
  <2>1. Closed' = Closed /\ Sealed' = Sealed /\ Charged' = Charged
    BY <1>1, <1>10, EqualFieldsEqualSets DEF old
  <2> QED
    BY <1>2, <2>1 DEF Lifecycle!vars
<1> QED
  BY <1>6, <1>7, <1>8, <1>9, <1>10

(* A migration bars attempts and does nothing else. *)
LEMMA MigrationBars ==
  ASSUME IInv, MigrationStops \/ MigrationResumes
  PROVE  Lifecycle!Next
<1>1. /\ AllEvolve
      /\ \A i \in Ids : BusinessState(records'[i]) = BusinessState(records[i])
  BY MigrationEvolves DEF IInv
<1>2. \A i \in Ids : /\ records[i] \in ActionRecord
                     /\ records'[i] \in ActionRecord
                     /\ Evolves(records[i], records'[i])
  BY <1>1 DEF AllEvolve, Evolves, IInv, TypeOK, Ids
<1>3. \A i \in Ids : /\ records'[i].attempt_status = records[i].attempt_status
                     /\ records'[i].finalized = records[i].finalized
  BY <1>1, <1>2, BusinessStateFields
<1>4. Opened' = Opened /\ Closed' = Closed /\ Sealed' = Sealed /\ Charged' = Charged
  BY <1>1, <1>3, EvolvingKeepsAttempts, EqualFieldsEqualSets DEF IsTerminal
<1>5. Barred \subseteq Barred' /\ Barred' \subseteq Opened
  <2>1. Ids' = Ids /\ \A i \in Ids : Attempt(i)' = Attempt(i)
    BY <1>1, EvolvingKeepsAttempts
  <2>2. \A i \in Ids : IsFrozen(records[i]) => IsFrozen(records'[i])
    BY <1>2 DEF Evolves
  <2>3. /\ Barred = {Attempt(i) : i \in {j \in Ids : IsFrozen(records[j])}}
        /\ Barred' = {Attempt(i) : i \in {j \in Ids : IsFrozen(records'[j])}}
    BY <2>1 DEF Barred, IsFrozen
  <2> QED
    BY <2>2, <2>3 DEF Opened
<1> QED
  BY <1>4, <1>5 DEF Lifecycle!Next, Lifecycle!Bar

(* The lists start with no attempt opened. *)
LEMMA InitMaps == Init => Lifecycle!Init
  BY DEF Init, Ids, Lifecycle!Init, Opened, Closed, Sealed, Charged, Barred

(* Every step maps to a step of the lifecycle or to none. *)
LEMMA NextMaps == IInv /\ [Next]_vars => [Lifecycle!Next]_(Lifecycle!vars)
<1> SUFFICES ASSUME IInv, [Next]_vars
             PROVE  [Lifecycle!Next]_(Lifecycle!vars)
  OBVIOUS
<1>1. TypeOK
  BY DEF IInv
<1>2. CASE records' = records
  BY <1>2 DEF Lifecycle!vars, Opened, Closed, Sealed, Charged, Barred, Attempt, Ids, IsFrozen
<1>3. (\E i \in Ids : RouteLateAsyncResult(i)) \/ UNCHANGED vars => records' = records
  BY DEF RouteLateAsyncResult, vars
<1> QED
  BY <1>1, <1>2, <1>3, StepShapes, CreateOpens, EvolvingClosesOrSeals, MigrationBars

(* The record list of the protocol implements the lifecycle of attempts. *)
THEOREM ImplementsLifecycle == Spec => LifecycleSpec
<1> QED
  BY InitMaps, NextMaps, Inductive, PTL DEF Spec, LifecycleSpec, Lifecycle!Spec

===============================================================================
