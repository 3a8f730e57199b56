---------------------------- MODULE ActionScheduling ---------------------------
(***************************************************************************)
(* Action resolution (scheduling/action_resolution.py) over the record    *)
(* list of ExecutionProtocol, with the mirrors on Action (execution/      *)
(* mirrors.py), for the life of one guide.  The runtime loop resolves an  *)
(* action and sends it to the caller's executor, or stops and waits for   *)
(* the caller; the executor works on the attempt of that action with the  *)
(* calls of the protocol and returns.                                      *)
(*                                                                         *)
(* The executor is the caller's.  Assumed of it: it leaves retries to     *)
(* the scheduler, so that it opens an attempt only as the first thing of  *)
(* a dispatch; it resumes a blocked attempt rather than starting it; and  *)
(* it finalizes an attempt that has ended before it returns.               *)
(*                                                                         *)
(* Abstracted: how much open work an action supports is one number (the   *)
(* code compares the counts of decisions, then of checks), priority,      *)
(* declared order and id are one order, a mirror's last_record_id stands  *)
(* for its current_attempt_index.  The guide has no blockers of its own:  *)
(* with any, no action of it is ever resolved.                             *)
(***************************************************************************)
EXTENDS ExecutionProtocol

CONSTANTS
  RetryableFailures,  \* the FailureReasons with retryable
  NeverRetried,       \* actions of human input, or with retry_policy "none"
  MaxRetry,           \* max_retry of each action
  Order,              \* rank by priority, declared_order and action_id
  MaxSupport,         \* bound: support
  AlwaysRepairs       \* executor and caller repair the mirrors before they go on

ASSUME SchedulingAssumption ==
  /\ RetryableFailures \subseteq FailureReasons
  /\ NeverRetried \subseteq Actions
  /\ MaxRetry \in [Actions -> Nat]
  /\ Order \in [Actions -> Nat]
  /\ \A a, b \in Actions : Order[a] = Order[b] => a = b
  /\ MaxSupport \in Nat
  /\ AlwaysRepairs \in BOOLEAN
  /\ None \notin Actions

VARIABLES
  turn,                        \* whose step it is
  current_action_id,
  useful_returned_action_ids,  \* blocked actions whose answer the caller has
  support,                     \* open work each action supports
  mirror,                      \* the mirror fields of each action
  worked                       \* the executor has made a call in this dispatch

schedulingVars ==
  <<turn, current_action_id, useful_returned_action_ids, support, mirror, worked>>

Turns == {"resolve", "execute", "stopped", "given_up"}
ExecuteKinds == {"continue_current_action", "retry_current_action",
                 "abandon_current_action_and_switch"}
WaitKinds == {"pause_wait", "no_executable_action_pause"}
ReviseKinds == {"revise_guide_keep_phase", "no_executable_action_revise_guide"}
EscalateKinds == {"escalate_to_overview_revision", "no_executable_action_escalate"}
Decisions == [kind : ExecuteKinds \cup WaitKinds, action_id : Actions]
             \cup [kind : ReviseKinds \cup EscalateKinds, action_id : Actions \cup {None}]

Mirrors == [status : {"pending", None} \cup ActiveStatuses \cup TerminalStatuses,
            last_record_id : 0..MaxRecords,          \* 0: None
            retry_count : 0..MaxRecords \cup {None},
            last_blocked_reason : BlockedReasonTypes \cup {None}]

SchedulingTypeOK ==
  /\ TypeOK
  /\ turn \in Turns
  /\ current_action_id \in Actions \cup {None}
  /\ useful_returned_action_ids \subseteq Actions
  /\ support \in [Actions -> 0..MaxSupport]
  /\ mirror \in [Actions -> Mirrors]
  /\ worked \in BOOLEAN
  /\ turn \in {"execute", "stopped"} => current_action_id # None

-------------------------------------------------------------------------------
(* Reading the truth: scheduling/helpers.py *)

\* latest_truth: the position of the latest valid record, 0 if there is none.
Truth(a) == LET latest == LatestValidRecords(a)
            IN  IF latest = {} THEN 0 ELSE CHOOSE i \in latest : TRUE
Status(a) == IF Truth(a) = 0 THEN "pending" ELSE records[Truth(a)].attempt_status
RetryCount(a) == Cardinality(CountedRetries(a))
RecordedReason(a) == IF Truth(a) = 0 THEN None ELSE records[Truth(a)].blocked_reason

\* classify_blocked_action
BlockedUnlessAnswered(a) ==           \* mutant: an answer lifts any reason
  LET reason == IF RecordedReason(a) # None THEN RecordedReason(a)
                                            ELSE mirror[a].last_blocked_reason
  IN  IF a \in useful_returned_action_ids THEN None ELSE reason
BlockedReason(a) ==
  LET reason == IF RecordedReason(a) # None THEN RecordedReason(a)
                                            ELSE mirror[a].last_blocked_reason
  IN  IF reason \in ResumableTypes /\ a \in useful_returned_action_ids THEN None ELSE reason

RetryAllowedOnce(a) ==                \* mutant: the limit is off by one
  /\ records[Truth(a)].failure_reason \in RetryableFailures
  /\ a \notin NeverRetried
  /\ RetryCount(a) <= MaxRetry[a]
RetryAllowed(a) ==
  /\ records[Truth(a)].failure_reason \in RetryableFailures
  /\ a \notin NeverRetried
  /\ RetryCount(a) < MaxRetry[a]

-------------------------------------------------------------------------------
(* Resolving an action: scheduling/action_resolution.py *)

\* Mutant: a finished action is picked again as long as it supports open work.
ExecutableAgain == {a \in Actions : /\ BlockedReason(a) = None
                                    /\ Status(a) = "failed" => RetryAllowed(a)
                                    /\ support[a] > 0}
Executable == {a \in Actions : /\ BlockedReason(a) = None
                               /\ Status(a) # "done"
                               /\ Status(a) = "failed" => RetryAllowed(a)
                               /\ support[a] > 0}

SelectedRank(a) == IF Status(a) \in {"selected", "running"} THEN 1 ELSE 0

RanksBefore(a, b) ==
  \/ support[a] > support[b]
  \/ /\ support[a] = support[b]
     /\ \/ SelectedRank(a) > SelectedRank(b)
        \/ SelectedRank(a) = SelectedRank(b) /\ Order[a] < Order[b]

\* _best_executable_action
Best(candidates) == {a \in candidates : \A b \in candidates \ {a} : RanksBefore(a, b)}

Waiting == {a \in Actions : BlockedReason(a) \in ResumableTypes}
FirstWaiting == {a \in Waiting : \A b \in Waiting : Order[a] <= Order[b]}

Resolution(kind, a) == [kind |-> kind, action_id |-> a]
Each(kind, as) == {Resolution(kind, a) : a \in as}

\* _map_blocked_reason
OfBlocked(a) ==
  Resolution(CASE BlockedReason(a) \in ResumableTypes -> "pause_wait"
               [] BlockedReason(a) = "guide_missing_info" -> "revise_guide_keep_phase"
               [] OTHER -> "escalate_to_overview_revision", a)

OfNoActionUnnamed ==                  \* mutant: a pause does not say for which action
  IF Waiting # {} THEN {Resolution("no_executable_action_pause", None)}
                  ELSE {Resolution("no_executable_action_escalate", None)}
\* _resolve_no_executable_action; whether the phase can be repaired locally is the caller's word.
OfNoAction ==
  IF Waiting # {} THEN Each("no_executable_action_pause", FirstWaiting)
  ELSE {Resolution("no_executable_action_escalate", None)}
       \cup IF \A a \in Actions : support[a] = 0 THEN {}
            ELSE {Resolution("no_executable_action_revise_guide", None)}

OfGuide == IF Executable # {}
           THEN Each("continue_current_action", Best(Executable))
           ELSE OfNoAction

OfCandidate(a) ==
  IF BlockedReason(a) # None THEN {OfBlocked(a)}
  ELSE IF Status(a) \in {"selected", "running"} THEN {Resolution("continue_current_action", a)}
  ELSE IF Status(a) = "failed" /\ RetryAllowed(a) THEN {Resolution("retry_current_action", a)}
  ELSE IF Status(a) \in TerminalStatuses /\ Executable \ {a} # {}
       THEN Each("abandon_current_action_and_switch", Best(Executable \ {a}))
  ELSE OfGuide

\* _resolve_current_action_candidate
Active == {a \in Actions : Status(a) \in ActiveStatuses}
Candidates == IF current_action_id # None THEN {current_action_id}
              ELSE IF Cardinality(Active) = 1 THEN Active ELSE {}

\* resolve_current_action
Resolutions == IF Candidates = {} THEN OfGuide ELSE UNION {OfCandidate(a) : a \in Candidates}

\* The stage action_resolution of run_runtime with handle_action_result.
ResolveAction ==
  /\ turn = "resolve"
  /\ \E result \in Resolutions :
       \/ /\ result.kind \in ExecuteKinds
          /\ turn' = "execute"
          /\ current_action_id' = result.action_id
       \/ /\ result.kind \in WaitKinds
          /\ turn' = "stopped"
          /\ current_action_id' = result.action_id
       \/ /\ result.kind \in ReviseKinds
          /\ turn' = "resolve"
          /\ current_action_id' = None
       \/ /\ result.kind \in EscalateKinds
          /\ turn' = "given_up"
          /\ UNCHANGED current_action_id
  /\ UNCHANGED <<useful_returned_action_ids, support, mirror, worked>>
  /\ UNCHANGED vars

-------------------------------------------------------------------------------
(* The mirrors on Action: execution/mirrors.py *)

\* sync_action_mirror_from_record
Synced(a) == [status |-> Status(a), last_record_id |-> Truth(a), retry_count |-> RetryCount(a),
              last_blocked_reason |-> RecordedReason(a)]

RepairComparesIdOnly(a) ==            \* mutant: the status and the count are not compared
  IF mirror[a].last_record_id # Truth(a) THEN Synced(a) ELSE mirror[a]
\* repair_action_mirror_if_needed: the reason is not compared.
Repaired(a) ==
  IF \/ mirror[a].status # Status(a)
     \/ mirror[a].retry_count # RetryCount(a)
     \/ Truth(a) # 0 /\ mirror[a].last_record_id # Truth(a)
  THEN Synced(a)
  ELSE mirror[a]

-------------------------------------------------------------------------------
(* The caller: while the run is stopped it says that an answer has come, or settles the blocked *)
(* attempt itself, and runs the loop again, with or without an answer                           *)

Answer(a) ==
  /\ turn = "stopped"
  /\ Status(a) = "blocked"
  /\ useful_returned_action_ids' = useful_returned_action_ids \cup {a}
  /\ UNCHANGED <<turn, current_action_id, support, mirror, worked>>
  /\ UNCHANGED vars

SettleAttempt(i) ==
  \/ ResumeAttempt(i)
  \/ records[i].attempt_status = "blocked" /\ AbandonAttempt(i)
  \/ /\ records[i].attempt_status = "abandoned"
     /\ ~records[i].finalized
     /\ \E time \in Times : FinalizeAttempt(i, time)

Settle(i) ==
  /\ turn = "stopped"
  /\ SettleAttempt(i)
  /\ UNCHANGED schedulingVars

RunAgain ==
  /\ turn = "stopped"
  /\ turn' = "resolve"
  /\ mirror' \in {[a \in Actions |-> Repaired(a)]} \cup IF AlwaysRepairs THEN {} ELSE {mirror}
  /\ UNCHANGED <<current_action_id, useful_returned_action_ids, support, worked>>
  /\ UNCHANGED vars

-------------------------------------------------------------------------------
(* The executor *)

OpenAttempt(a) ==
  /\ ~worked
  /\ ~\E i \in Trusted(a) : IsActive(records[i])     \* get_active_attempt_for_action
  /\ CreateAttempt(a, FALSE)

AdvanceAttempt(i) ==
  \/ records[i].attempt_status = "selected" /\ StartRunning(i)
  \/ \E reason \in BlockedReasonTypes :
       BlockAttempt(i, reason, reason \in ResumableTypes)
  \/ ResumeAttempt(i)
  \/ \E reason \in FailureReasons : FailAttempt(i, reason)
  \/ CompleteAttempt(i)
  \/ AbandonAttempt(i)
  \/ ~records[i].finalized /\ \E time \in Times : FinalizeAttempt(i, time)

Execute ==
  /\ turn = "execute"
  /\ \/ OpenAttempt(current_action_id)
     \/ \E i \in AttemptsOf(current_action_id) : AdvanceAttempt(i)
  /\ worked' = TRUE
  /\ UNCHANGED <<turn, current_action_id, useful_returned_action_ids, support, mirror>>

\* The executor returns; it may clear the current action, and its work, or the acceptance that
\* follows, may have changed what is open.
Return ==
  /\ turn = "execute"
  /\ \A i \in AttemptsOf(current_action_id) :
       records[i].attempt_status \in TerminalStatuses => records[i].finalized
  /\ turn' = "resolve"
  /\ current_action_id' \in {current_action_id, None}
  /\ support' \in [Actions -> 0..MaxSupport]
  /\ mirror' \in {[mirror EXCEPT ![current_action_id] = Repaired(current_action_id)]}
               \cup IF AlwaysRepairs THEN {} ELSE {mirror}
  /\ worked' = FALSE
  /\ UNCHANGED useful_returned_action_ids
  /\ UNCHANGED vars

\* The audit condemns an attempt that has ended.
AuditEnded(i) ==
  /\ turn = "stopped"
  /\ records[i].attempt_status \in TerminalStatuses
  /\ \E verdict \in Verdicts : AuditRecord(i, verdict)
  /\ UNCHANGED schedulingVars

-------------------------------------------------------------------------------
SchedulingInit ==
  /\ Init
  /\ turn = "resolve"
  /\ current_action_id = None
  /\ useful_returned_action_ids = {}
  /\ support \in [Actions -> 0..MaxSupport]
  /\ mirror = [a \in Actions |-> [status |-> None, last_record_id |-> 0, retry_count |-> None,
                                  last_blocked_reason |-> None]]
  /\ worked = FALSE

SchedulingNext ==
  \/ ResolveAction
  \/ \E a \in Actions : Answer(a)
  \/ \E i \in Ids : Settle(i)
  \/ RunAgain
  \/ Execute
  \/ Return
  \/ \E i \in Ids : AuditEnded(i)

SchedulingSpec == SchedulingInit /\ [][SchedulingNext]_<<vars, schedulingVars>>

-------------------------------------------------------------------------------
(* Properties *)

\* What the scheduler sends out can be worked on: the truth it went by is an attempt that may
\* run or be resumed, or create_attempt will not refuse a new one for an attempt the scheduler
\* did not see (resolve_current_action reads trusted records, create_attempt all of them).
CanProceed(a) ==
  \/ /\ Truth(a) # 0
     /\ IsActive(records[Truth(a)])
     /\ Status(a) = "blocked" => RecordedReason(a) \in ResumableTypes
  \/ \A i \in AttemptsOf(a) : ~IsActive(records[i])
DispatchCanProceed ==
  [][turn = "resolve" /\ turn' = "execute" => CanProceed(current_action_id')]_<<vars, schedulingVars>>

\* A new attempt is only ever opened for an action that never ran, was abandoned, or failed in a
\* way that may be retried; never for one that is done ("retry is allowed only for retryable
\* failures under retry limit", "`human_input` is not auto-retried",
\* phase-3-scheduling-baseline.md).
MayBeAttempted(a) ==
  \/ Status(a) \in {"pending", "abandoned"}
  \/ /\ Status(a) = "failed"
     /\ a \notin NeverRetried
     /\ records[Truth(a)].failure_reason \in RetryableFailures
OnlyLegalAttempts ==
  [][\A i \in Ids' \ Ids : MayBeAttempted(records'[i].action_id)]_<<vars, schedulingVars>>

\* However resolutions, switches and failures interleave, no action is charged with more
\* failures than max_retry, the first one aside.
RetriesWithinLimit ==
  \A a \in Actions : RetryCount(a) <= Max({1, MaxRetry[a]})

\* The run stops to wait for an action only if the attempt that is its truth is blocked ("Execution
\* truth comes from `ActionRecord`", phase-2-execution-protocol.md:29): the mirror's
\* last_blocked_reason, which classify_blocked_action falls back on, never decides.
WaitsOnlyForBlocked ==
  [][turn = "resolve" /\ turn' = "stopped" => Status(current_action_id') = "blocked"
    ]_<<vars, schedulingVars>>
===============================================================================
