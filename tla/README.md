# Formal models of the agent runtime

TLA+ specifications of `src/src/agent_runtime`, checked with TLC on small instances and, where
a property matters for every size, proved with TLAPS. File and line references are to the
repository; `PROJECT.json` maps every definition to the lines it models.

## The system

An experiment is a skeleton (`ExperimentOverview`: modules, each with phases) that a single
agent works off. The runtime keeps a pointer to the current module, phase, guide and action,
asks a scheduler where to work, lets the caller's executor run one action, and evaluates
acceptance gates; when the skeleton turns out wrong, it is revised and the runtime state is
migrated to the new version.

| component | state | operations | talks to |
|---|---|---|---|
| execution protocol (`execution/protocol.py`, `validators.py`, `late_arrival.py`) | the list of `ActionRecord`s, one per attempt; the list of `LateArrivalRecord`s | create, start, block, resume, fail, complete, abandon, finalize an attempt; route a late answer | called by the executor; records read by scheduler, gates, mirrors, migration |
| action mirrors (`execution/mirrors.py`) | cache fields on `Action` | sync, repair | read the record list; the action resolver reads `last_blocked_reason` |
| scheduling (`scheduling/`) | none: decides from a `SchedulerRuntimeState` | module, phase, guide and action resolution | read the inventory and the record list; answer the runtime loop |
| acceptance and adoption (`acceptance/`) | none: decides from guide checks, decisions and records | phase, module and experiment gates; adoption of a candidate | called by the runtime loop |
| migration (`migration/`) | none: copies old objects into new ones | freeze, map phases, recompute modules, resolve the resume point, relink records | called by the caller's migration runner |
| runtime loop (`runtime/`) | `RuntimeState`: status, pointers, waiting context, objects of the current version, records, adopted results | one iteration of `run_runtime`; handlers of every decision; `apply_migration_result` | calls all of the above |
| schemas (`models/`) | the shapes of all objects | construction-time validation, re-run by `_mutate_record` on records | used everywhere |

What is hard here, though everything runs in one thread:

* The record list is shared and ordered. Helpers mutate records in place, in any order a caller
  likes; integrity audits hide records from some readers and not from others; migration replaces
  the list by copies of which some, or all, are frozen. Which attempt is "the" truth, and what
  may still change, depends on long histories.
* Answers come late: an attempt may be finalized, frozen or retried when its tool answers.
* The loop re-reads its state at every stage, and every handler must leave pointers that the
  next stage can use; nothing but the handlers' assignments keeps them coherent.
* An iteration is cut short by a pause, a switch, a revision or a migration, and the results of
  an acceptance evaluation are handled one by one until one of them ends the iteration.
* The loop has an iteration limit, and several decisions send it back to its head without any
  progress.

What makes each part correct:

* protocol: one active attempt per action, attempts numbered in order, the active attempt is the
  truth the readers see, ended attempts wait for nothing, finalized and frozen records keep their
  business state, late answers only bypass finalized attempts;
* loop: coherent pointers of the current version, work only on a bound guide of a valid overview,
  nothing after a stop, termination, a status that sticks, a migration that leaves a valid state,
  adopted results that are kept;
* scheduling: an action is never sent out while its attempt cannot run, retries stay within
  `max_retry`, waits are for blocked attempts only, phases are worked in order;
* acceptance: a phase is done only on complete evidence and in order, a run is completed only with
  everything closed, a result is adopted once;
* migration: nothing old is active once the mapping is read, the resume point is an open phase with
  nothing open before it, done is inherited and never invented, work on a split phase goes on once,
  a mapping that stops hands back nothing half-mapped.

## Modules

| module | models |
|---|---|
| `AttemptLifecycle` | the abstract promise about attempts: opened one after another, closed once, sealed after closing, charged as a retry only when sealed, barred by migrations |
| `ExecutionProtocol` | the record list and every helper of the protocol, late arrivals, audits, the two ways a migration copies the list |
| `MCExecutionProtocol` | constants for TLC |
| `ExecutionProtocol_proofs` | inductive invariant and the safety theorems |
| `ExecutionProtocolRefinement_proofs` | `ExecutionProtocol` implements `AttemptLifecycle` |
| `ActionScheduling` | the action resolver and the mirrors, with executor and caller, over the record list of `ExecutionProtocol` |
| `MCActionScheduling` | constants for TLC |
| `ActionScheduling_proofs` | implements `ExecutionProtocol`; inductive invariant, dispatches and new attempts are legal |
| `RetryLimit_proofs` | retries stay within `max_retry`, on top of the invariant of `ActionScheduling_proofs` |
| `RunLifecycle` | the abstract promise of a run to its caller: seek, work, judge, settle every verdict, renew, return |
| `RuntimeLoop` | `run_runtime` with its handlers, one action per stage, for services that may take any decision |
| `MCRuntimeLoop` | constants for TLC |
| `RuntimeLoop_proofs` | inductive invariant and the safety theorems; `RuntimeLoop` implements `RunLifecycle`; every step runs down |
| `Acceptance` | the three gates, the routing of their failures and the adoption of a candidate, as operators |
| `ModuleState` | `recompute_module_state`, shared by the loop's initial states and the migration |
| `PhaseProgress` | `RuntimeLoop` with the default services in place: module, phase and guide resolution, `Acceptance` |
| `MCPhaseProgress` | constants for TLC |
| `PhaseProgress_proofs` | `PhaseProgress` implements `RuntimeLoop`; inductive invariant and the safety theorems |
| `Migration` | `migrate_overview`, stage by stage |
| `MCMigration` | constants for TLC |
| `Migration_proofs` | inductive invariants of a migration and the safety theorems |

How they fit: `ActionScheduling` extends `ExecutionProtocol`, which implements `AttemptLifecycle`;
`PhaseProgress` extends `RuntimeLoop` and implements it, and `RuntimeLoop` implements `RunLifecycle`. The two halves meet at the stages
`action_resolution` and `execution_writeback`: `ActionScheduling` keeps the records and leaves the
pointers out, `RuntimeLoop` does the opposite. `Migration` promises with `ResumePointOpen` what
`PhaseProgress` takes of a migration (its `Rebuild`), and `ExecutionProtocol` takes over what it does to
the record list.

### ExecutionProtocol

`records` is `list[ActionRecord]` in order of creation and `lateArrivals` the list of late
answers; `migrations` counts the migrations, whose ids are the numbers 1, 2, ... Each helper is
one action with the helper's name. A helper that raises leaves the record unchanged, so its
raises are the guards. `MutateRecord` is `_mutate_record`: it checks finalized and
frozen immutability and re-validates the record (`Validated`), then writes it back;
`TransitionRecord` adds `VALID_TRANSITIONS`. `CreateAttempt` tests activity over all records of
the action, of whatever integrity, exactly as the code does, while `LatestValidRecords` and
`CountedRetries` look at trusted ones only. `AuditRecord` is external: nothing in the package
sets `record_integrity` after creation, yet every reader distinguishes its values.

`MigrationStops` is a migration that pauses or escalates after freezing the active attempts;
`MigrationResumes` also relinks, which freezes every record. A migration refused for an
incomplete mapping copies the list unchanged and is a stuttering step.

Left out: payloads, snapshots, the correlation keys, the write-back hint, `record_revision` and
`mutation_reason_code` (stamped by every change and compared by nothing but as a
tie-break between equal attempt indices, which `AttemptsNumbered` excludes), and timestamps
except `finalized_at`, which shows that a second finalization is refused unless it changes nothing.

### AttemptLifecycle

Attempts are pairs of action and index. The refinement mapping reads the sets off the record
list: `Opened` all records, `Closed` the terminal ones, `Sealed` the finalized ones, `Charged`
those that are finalized and count as a retry, `Barred` the frozen ones. The abstract `Open`
demands that all earlier attempts are closed, so refinement says that attempts of one action
never overlap; `Close` and `Seal` exclude barred attempts, so it says that a frozen attempt never
ends.

### RuntimeLoop

`stage` is the position in `run_runtime`; the names are those the loop traces. One action per
stage; `TerminalCheck` counts the iterations of the `for` loop and `IterationLimit` is the line
after it. The services' decisions are any the default services can return for the current
pointers: a kept module or phase is the current one, a phase switched to is of the current
module, a guide used is of the current phase and version. The handlers are exact. An acceptance
evaluation returns a list in the order of `evaluate_acceptance_and_promotion` (phase gate, module
gate, experiment gate, adopted items) and `HandleAcceptance` takes it off one by one.

Data: a guide is the phase and version it is bound to, an action the guide that owns it, a
waiting context the version it was taken in, the record list the set of versions in it. That
is what the properties tell apart. `issue_evidence` and the trace are left out: nothing reads them.
Of the overview there is, besides its version, whether it is marked as superseded (`superseded`), which
the validity check refuses; the caller may bring such an overview along and a migration may resume with
one, and nothing else in the loop sets the mark.
`handle_execution_writeback` installs whatever records, action id and waiting context the executor hands
back. The model's executor works for the current overview: it keeps the records or adds some of the
current version (`create_attempt` copies the version of the action), keeps the current action or clears it,
and waits for the current version; any status is possible. `WorksUnderValidOverview`, `PointersCoherent`
and `NothingOfOldVersions` rest on that.
The migration runner may pause, escalate or resume at any phase of a next version.

### RunLifecycle

What the caller of `run_runtime` sees of a run, with no pointer or stage in it. `doing` is what the run is
about, `task` the phase and version worked on, `asked` the version of a wait, `due` the number of verdicts
not settled. The mapping (`Doing`, `Task` in `RuntimeLoop`) sends all stages from the terminal check to the
action resolution to "seek", so that most of a walk through the resolutions is a stutter; the current
guide is the task only while the executor or the gates are at it. The abstraction says what the stages together
promise: what is judged was worked on and not interrupted, in the version it was taken in; of the verdicts
none is skipped, unless one ends the run or has the overview renewed, which forgets the rest (`adoption_lost` is
about what is then lost); versions are renewed one by one, and only a renewal lifts a wait. The iteration
limit shows in it as `Exhaust`, which overwrites a status (`iteration_limit`).

### ActionScheduling

`ActionScheduling` extends `ExecutionProtocol` and follows one guide through its life. `turn` says
whose step it is: `ResolveAction` is the stage `action_resolution` of the loop with
`handle_action_result`; it dispatches an action (`execute`), stops for a wait (`stopped`),
revises (the same guide is resolved again, as nothing in the package writes a new one) or
gives the guide up to a migration. While the run is stopped the caller may answer a wait
(`useful_returned_action_ids`, which nothing clears) or settle the blocked attempt itself with the
protocol's helpers, and runs the loop again. The executor works on the current action's attempt with
the actions of `ExecutionProtocol`, call by call, and returns.

The resolver is translated function by function: `BlockedReason` is `classify_blocked_action`,
`Executable` and `Best` are `_best_executable_action`, `OfCandidate` is the part of
`resolve_current_action` for a current or single active action, `OfNoAction` is
`_resolve_no_executable_action`. `Synced` and `Repaired` are the mirror helpers.

Executor and caller are outside the package. Assumed of them: the executor leaves retries to
the scheduler (it opens an attempt only as the first call of a dispatch), resumes a blocked
attempt rather than starting it, and finalizes an ended attempt before it returns; audits condemn
ended attempts only. `AlwaysRepairs` adds that mirrors are repaired before the loop goes on, which
nothing in the package does: `action_scheduling` assumes it, `mirror_decides` does not.

Data: the open work an action supports is one number, which any dispatch may change; priority,
declared order and id are one total order; the three waiting reasons answer the same way.
Guide blockers and a guide of another phase are left out: with either, no action is resolved.

### Acceptance and ModuleState

Pure operators. `PhaseGate`, `ModuleGate` and `ExperimentGate` are the gates of `gates.py` as the loop
calls them, with `Route` for `resolve_acceptance_failure`; `Adoptable` is
`evaluate_adoption_candidate`. Their items are the required decisions and done checks of the current
guide. The loop tells every gate that the guide covers exactly those items, so no gate of a run asks
for a revised guide. It tells the module and experiment gates of no record at all
(`known_record_ids` is empty), so a check that names records is invalid there: the argument `FALSE`
of `Invalid`. `AllowedTransitions` is `has_illegal_decision_transition`. `RecomputedStatus` is the
status part of `recompute_module_state`.

### PhaseProgress

The actions are those of `RuntimeLoop` with the choice made: `ValidateCurrentModule` is
`validate_current_module` with `_select_alternative_module`, `ValidateCurrentPhase` is
`validate_current_phase` with `select_phase_within_current_module` and `_route_non_happy_phase`,
`ResolveCurrentGuide` is `resolve_current_active_guide`, and `EvaluateAndPromote` is
`evaluate_acceptance_and_promotion` with the gates and the adoption of every candidate.
The stages that no service decides (`TerminalCheck`, `ValidateOverview`, `BindGuide`, ...) are
`RuntimeLoop`'s, with what this module adds left unchanged.

The executor is the caller's. One call of it (`RunExecutor`) moves items of the current guide along the
transitions the code allows, may establish the phase's `state_after`, or marks the current phase as
in progress, blocked or failed, with reasons; it never marks a phase done. The migration runner is the
caller's too: a migration resumes at a point `Migration` allows, in one of a few new standings of
the phases.

Data: the reasons of a phase are the classes `_route_non_happy_phase` tells apart. A guide has the
items of its phase in the first version and none after a migration, as `create_new_execution_guide`
leaves it. The candidate for adoption is one, with the number of its adopted copies, which join the
list that the next evaluation reads; its source records are left out. At most one guide of a phase
is active: of several, the code takes the newest.

### Migration

One call of `migrate_overview`. `stage` is the position in it, in the code's order: completeness of
the mapping, freeze, conflict of active attempts, structural violations, ambiguous splits, the two
loops of `handle_phase_mapping` with one step per mapping item (`MapOldPhase`, `MergeNewPhase`),
recomputation of the modules, mapping of the guides, the module and the phase to resume at, the new
guide and the relinked records. A stage hands on, ends the call with outcome and reason (`returned`), or
raises what `migrate_overview` does not catch (`raised`; one place does, see "Observations"). Helpers keep
their names or a short form of them: `Candidates` is `_split_continuation_candidates`, `RouteFailed`
is `classify_failed_phase_migration`, `Predecessors` is the fallback for reordered phases,
`PhaseGroup` and `Leads` are `resolve_resume_phase`. `HistorySealed` says what `ExecutionProtocol` takes of a
migration: a call that resumes stamps every record, one that pauses or escalates the active ones,
a refused mapping none.

A mapping item is what its validator lets through (`ItemsOver`). A phase item has the id of a new module
besides that of a new phase, independent of it: a removed item may name a module, another item a module its
phase is not in, or none. Two rules read it. `_split_continuation_candidates` takes it for the missing phase of an
item (`HasName`), and the fallback for reordered phases follows only the items that name the chosen module
(`CurrentTargets`).

Data: reasons are `waiting` or `structural`, the reason codes of a mapping item are the classes the
code tells apart, whether two phases mean the same is the constant `Preserving`, and the order of
modules and phases is given by sequences. The active guides are the set of phases they are for, any set in
`ActiveGuides`. Notes, histories and the report for the caller are left out.

Taken for granted of a call: its arguments are there and the new version is higher; the runtime objects are
those of the old overview; an active guide names its phase's module; the ids of the new modules and phases
are all different. So the tie-breaks that raise for equal sort keys never do, and the id of a module is never
that of a new phase. A split that is ambiguous is caught by `CheckSplits`, so the pause for it inside
`handle_phase_mapping` is never reached.

## Runs

| run | result | shows |
|---|---|---|
| `execution_protocol` | passes | the six invariants, the two immutability properties and the refinement, over every interleaving of helpers, audits, late answers and migrations |
| `abandoned_retry` | violated | an abandoned or completed attempt counts as a retry if its creator said so |
| `resume_bypass` | violated | `start_running` puts an unresumable blocked attempt back to running |
| `action_scheduling` | passes | what is dispatched can be worked on, attempts are opened and retried only as allowed, the run waits only for blocked attempts |
| `mirror_decides` | violated | without a repair the mirror's `last_blocked_reason` pauses the run for a running attempt |
| `runtime_loop` | passes | pointer coherence, version boundaries, validity throughout an iteration, bound guides, stop and termination, and the refinement of `RunLifecycle` |
| `iteration_limit` | violated | a status reached in the last iteration is overwritten by the limit |
| `records_not_migrated` | violated | after an auto-resumed migration the next validity check fails on the old records |
| `adoption_lost` | violated | adopted items behind `experiment_done` are dropped |
| `phase_progress` | passes | phases are worked and closed in order and only when earned, completion closes everything, a candidate is adopted once, every service has an answer, and all of it refines `RuntimeLoop` |
| `last_phase` | violated | a module of two phases is not closed with its last phase |
| `migration` | passes | freeze before mapping, no invented progress, splits continue once, failed phases start over, open resume point and one to be found, no half-mapped result, no guessed guide, records stamped as the outcome says, and every call returns, or raises over a split that goes on in no new phase |

The violated ones are disagreements between the code and its documentation or its own error
messages, met while modelling; `PROJECT.json` quotes the lines under "findings".

Bounds. `execution_protocol`: two actions and two records. Every property speaks about one or
two records, and two records give both situations: two attempts of one action and attempts of
two actions. Two migrations let a frozen record be frozen again; one late arrival is enough because
a late arrival is never changed; two times distinguish a second finalization; one resumable and one unresumable
blocked reason, one failure that counts and one that does not, stand for the six and for all
failures, which the code tells apart only that way. Actions and times are interchangeable, so symmetric.
`runtime_loop`: seven iterations and three versions: a path to work takes three iterations (module, phase,
then work), so there are migrations before, between and after two rounds of work and a
limit to run into; a module of two phases and one of a single phase give both kinds of switch; at
most two adopted results in one evaluation (`MaxAdopted`).
`action_scheduling`: two actions and three records: an action with `max_retry` 2 can fail twice and
try to fail a third time, and the other has an attempt of its own in between; the second action is
never retried. Support is 0 or 1, one resumable and one unresumable reason, one retryable and
one final failure. No migrations, which end the guide, and no late answers, which change no record.
`phase_progress`: the same two modules and three phases, alone, side by side or one depending on the
other; eleven situations to start in, from a fresh experiment to waits, failures, missing guides and
malformed items, with a decision of one phase and two checks of another, of phase and of module
scope; six iterations reach the second phase of a module and its judgement, and one migration (two
versions) comes at any point of that.
`migration`: two old modules with three phases become two with four. Twenty requests: one for each
kind of mapping, alone and mixed (a phase split and merged at once among them), with the right and the wrong justification, an incomplete one, a
conflict of attempts, a forbidden dependency, splits of a module, items that name another module or none, and
removed items of a split that name one and are its candidate, beside one target and beside two; in each, every combination of
seven standings of the three old phases and of the guides that are active (none, each one, two of one
module), so that every branch of the two mapping loops and of the resume rules is taken: about 760000 states. Three attempts are two of one action and one of another,
one of them frozen by an earlier migration.

Deadlock is checked in the protocol's runs: an audit is always possible. It is off in the loop's
runs and in `migration` because `run_runtime` and `migrate_overview` return (or raise), and in the scheduling runs
because a guide given up is not resolved again. `AlwaysAnswers` and `MigrationReturns` say for `phase_progress`
and `migration` that nothing but the return stops them; the theorems under "Always a next step" say so for all three.

Fairness. `RuntimeLoop`, `PhaseProgress` and `Migration` have weak fairness of their next step and nothing
else: each is a sequential program that takes its next step as long as what it calls returns. No
decision of a service, executor or migration runner is assumed fair. `ExecutionProtocol` and
`ActionScheduling` have none: callers owe them nothing.

## Proofs

`ExecutionProtocol_proofs` proves, for any actions, reasons, times and bounds, all invariants and both
immutability properties of the run. None of them but `TypeOK` is inductive. The
strengthening is

* `ActiveIsLast`: an active attempt is the last one of its action in the list. `create_attempt`
  refuses a new attempt while one is active and nothing makes an ended attempt active again.
  `SingleActiveAttempt` follows, and with `AttemptsNumbered` so does `ActiveAttemptIsTruth`;
* `FinalizedHasEnded`: only ended attempts are finalized, which a transition cannot undo;
* `AttemptsNumbered`, whose step for `CreateAttempt` needs that n attempts with indices 1..n
  have n as the maximum, so that the next is n + 1: lemmas on `Max` and on the cardinality of
  `AttemptsOf` carry it.

`ExecutionProtocolRefinement_proofs` proves that every step is a step or a stutter of
`AttemptLifecycle`. Because attempts are numbered without repetition, the map from record
positions to attempts is injective, so that a change of one record changes one attempt.

`RuntimeLoop_proofs` proves every safety property of its run, for any skeleton, limit and number
of versions. The invariant adds that a run that has stopped is at the head of the loop or has
returned, and that the list of results is not empty while one is to be handled; `WorksUnderValidOverview`
is what makes a guide used in `ResolveGuide` one of the current version.

The module also proves that the loop implements `RunLifecycle` (`LoopImplementsLifecycle`), one lemma for each
part of an iteration. The invariant does not carry this alone: a renewal is one version up only because the three
versions of the state always agree (`VersionsAgree`), so that an overview is never invalid through its own
number, only through a record, a guide or its mark of being superseded. `EveryStepRunsDown` proves what of `Termination` is no liveness: each step lowers, in
lexicographic order, the iterations left, the stage and the results to handle, all natural numbers
(`RunDownIsFinite`), whatever the services answer; and `ReturnsTerminal` that a returned run has a terminal
status. `LoopGoesOn` adds that some step is always possible (see "Always a next step" below).

`ActionScheduling_proofs` proves first that every step of scheduler, executor and caller is a step
of the protocol (`ImplementsProtocol`), so that its invariants hold of the composition. On top of
them the invariant has that active attempts are trusted and blocked ones have a reason, so that
an active attempt is the truth the scheduler reads, and that what was dispatched is active or may
be attempted until the executor's first call. From this follow `OnlyLegalAttempts` and
`DispatchCanProceed`, for any actions, limits, order and support, and from `ImplementsProtocol` that the
composition keeps the lifecycle of attempts (`SchedulingKeepsLifecycle`).

`WaitsAreForBlocked` assumes `AlwaysRepairs`, without which `mirror_decides` refutes it. `WInv` has two parts. About
the records: a blocked reason is only ever on a blocked record (`ReasonMeansBlocked`). About the mirrors: each has
the shape of a synced one (`MirrorShape`: a reason only next to the status blocked), and an action whose mirror
is settled and has a reason is blocked (`MirrorCurrent`; `Settled` are all mirrors when the loop has the turn, and those of
the other actions while one is executed). The repair does not compare the reasons; it need not, because it does
compare the statuses, and a mirror with a reason has the status blocked. A dispatch
touches one action, so the mirrors of the others stay current (`ExecuteKeepsOthers`).

`RetryLimit_proofs` adds the limit. The resolver looks at it only when the last trusted attempt of an
action failed; an abandoned or condemned one is followed by a new attempt without a look. So the
invariant remembers that the limit held when each attempt was opened (`BelowLimit`: fewer charged
attempts before it than allowed) and that nothing before an attempt can be charged once it is open
(`NothingPending`, `ChargeableIsLast`). Only the last attempt can then add one charge. The theorem
assumes `Verdicts \cap TrustedIntegrity = {}`: an audit that trusts again what it condemned brings a
charge back, and the action is over its limit.

`PhaseProgress_proofs` proves that every step of the loop with its default services is a step of
`RuntimeLoop` (`ServicesImplementLoop`), so that the invariants proved there hold of it too
(`LoopInvariantsHold`). `PInv` adds `Located` (from the phase's resolution to its judgement, the phases
before the current one are done and the module's dependencies are, which the executor and the gates
keep), `OneAdoption` and `Settled` (once the candidate is adopted, every phase whose guide could have it
adopted is done, so none of them is judged again), and `VerdictHolds` (while the list of results is handled,
what the gates saw still holds). The order, adoption and completion properties follow for any
skeletons, items, scenarios and migrations.

`Migration_proofs` proves `MigrationIInv`, which says stage by stage what has been settled: guides looked at, a
module with an open phase chosen, the frozen state, no answer before the return. `DoneInv` and
`FailedInv` say what the items mapped so far may have given a new phase; each rests on the lemmas
`GivenByOldPhase` and `GivenByMerge` about one round of a loop. All hold for any overviews and any mapping whose
items their validators let through.

Four further arguments are in the same module.

* `SplitsContinueOnce`. `SplitInv` says of a phase that is split into parts of its own: before its first item nothing
  has been given to a part, after it exactly one part has the old status; and no other round of either loop touches a
  part (`PartsKept`), because its only source is the phase that is split and all items of that are of type
  split. That the split has one candidate, and not none or two, comes from `CheckSplits`
  (`SplitsChecked`, `DividedHasTargets`, `OneCandidate`).
* `ResumePhaseIsFound`. `resolve_resume_module` looks at the new phases of all modules, `resolve_resume_phase` at
  those of one and at its predecessors. A module is chosen because of a phase in progress, waiting or open, and each
  of these leaves an open or waiting one for the second to choose; a finite non-empty set of phases of one module has
  a first in its order (`SomePhaseLeads`: the least of their places in it). So the second handler of
  "no legal continuation point" in `migrate_overview` (`migration/core.py:1144`) is never reached.
* `HistoryIsSealed`. `HistoryInv` says for each stage which records carry the stamp of this call.
* `OnlyStraysRaise`. `Strays(p)` reads off the arguments alone (`StraysFixed`) that a begun phase is split and its only
  continuation is an item without a new phase. A call with such a phase either stops before it, or raises when
  its loop gets to it (`StrayRaises`); a call without one does not raise (`RaiseIsStray`). So the exception is the
  exact condition on which `MigrationReturns` lets a call end without an answer, and not an escape for others.

`EveryStageRunsDown` proves for `migrate_overview` what `EveryStepRunsDown` does for the loop: the stage, or in the two
loops the mapping items left, goes down with every step; `OnlyStraysRaise` that it does not return without an outcome.

### Always a next step

What a liveness property of a sequential program needs besides a measure that goes down is that the program is
never stuck. The prover has no rules for ENABLED, so each module states it without: an operator that gives every
variable one next value (`MoveTo`, `Answered`, `HandsOn`), which is enabled for any value by its shape, and a value
or set of values for every state but the last.

* `LoopGoesOn`: `Onward` picks, for each stage of `run_runtime`, one thing the loop may do (where services or callers
  are free, the mildest), and `MoveTo(Onward)` implies `Next`. The one stage that could be stuck is the handling of
  results; `ResultIsHandled` shows that its branches cover every kind of result the gates and the adoption produce.
* `ServicesAnswer` does the same for the default services, where the choice is not free: `Answers` are their
  answers, read off the statuses. There is exactly one in every reachable state, the steps of the three services are
  `Answered` with it, and `AnswersAreSteps` shows that it is a step of `PhaseProgress`. It needs that a selectable
  module or phase has a first one in the overview's order (`SomeAlternativeIsFirst`, `SomePhaseIsFirst`: the least
  place, by well-foundedness of the naturals) and that, with nothing selectable, one of the pausing or escalating
  branches applies.
* `CallIsDecided` for `migrate_overview`: `Moves` has exactly one member until the call has returned or raised, every step
  hands on that member, and `MovesAreSteps` shows that handing it on is a step. A module of the resume group that comes
  first exists and is unique (`OneModuleIsFirst`); the phases of one module are never tied (`OnePhaseLeads`); a split that goes
  on has one candidate, so the element the model picks is no choice, and if that has no new phase the one move is to
  raise. So the call is a function of its arguments.

### What the refuted properties come down to

A violation shows one way in which a documented property fails. These theorems show that it is the only one, by
proving the property under the condition that excludes it or by describing the steps that break it.

* `abandoned_retry`: `ChargesAreFailures`. As long as no caller passes `counts_as_retry` to `create_attempt`
  (`CreatedUncharged`), only failed attempts are charged. Each kind of step keeps the charges of the attempts there are
  (`Keeps`, `NextKeeps`). `SchedulingChargesFailures` discharges the condition for the scheduler and its executor.
* `resume_bypass`: `OnlyStartRunningBypasses`. An attempt blocked for a reason that cannot be waited out gets back to
  running through `start_running` and no other operation.
* `iteration_limit`: `StatusSticksBeforeLimit`. A terminal status changes only in the step that finds the iterations used
  up.
* `records_not_migrated`: `ResumeIsValidWithoutRecords`. The overview a run resumes with is valid exactly if the run has
  no action record and the overview is not itself superseded, which the property excludes. `OldRecordsEndWork` draws the consequence: with a record, the run alternates between the validity
  check and migrations until one of them, or the limit, stops it. `StaleInv` says that a record of an old version stays
  and that only the head, the validity check and the migration are reached with it.
* `mirror_decides`: `WaitsAreForBlocked`, see above.

* `last_phase`: `OnlySinglesClose`. An evaluation whose phase verdict is `phase_done` closes the module exactly if the current
  phase is its only one and its own items are closed, and the experiment exactly if, besides, the current module is the only one.
  So the gates alone complete no module of several phases and no experiment of several modules, for any skeleton;
  only what an executor writes to the run can.

`adoption_lost` has no such theorem.

### Assumptions

Assumptions are those of the modules (`ConstantsAssumption`, `SchedulingAssumption`, `LoopAssumption`,
`AcceptanceAssumption`, `ProgressAssumption`, `MigrationAssumption`): finite bounds are natural numbers,
`None` is no other value (nor one of the two stamps of a record), the reasons are among the six of the schema, phases are listed once in their
module, items are bound to existing phases, mappings name objects of the two overviews. Every run evaluates
those of its module.

Only model-checked: `Termination` and `MigrationReturns` (liveness) and `AlwaysAnswers` (ENABLED), which are beyond
the prover, and the seven violations. Of the three everything but that last step is proved: the measure goes down
(`EveryStepRunsDown`, `ServicesRunDown`, `EveryStageRunsDown`), the end is as it should be (`ReturnsTerminal`, `OnlyStraysRaise`),
and a step is always possible (`LoopGoesOn`, `ServicesAnswer`, `CallIsDecided`). Every other property of a passing
run is a theorem.

## Observations

What the models reproduce and a reader of the code may not expect; no document clearly contradicts it.

* `acceptance/gates.py` tests whether everything is closed before it tests whether anything is invalid, so a
  closed item that is malformed does not keep a phase open.
* A current phase that is blocked pauses or escalates the whole run, although another module could
  be worked on; only a blocked module is left for another one.
* A module that contains a waiting phase is recomputed as blocked after a migration even when the run
  is resumed at another phase of it that is in progress (`migration/core.py:564`).
* `phase-5-migration-baseline.md` lists the freeze before the validation of the mapping. The code
  validates first, and an incomplete mapping leaves old guides and attempts active.
* The fallback for reordered phases compares the module of the old guide with the id of the new module
  (`migration/core.py:716`), so it is skipped for a module that is renamed.
* A split can make `migrate_overview` raise a `KeyError` (`migration/core.py:515`). `_split_continuation_candidates` falls back
  from `new_phase_id` to `new_module_id`, which `PhaseMigrationItem.validate_shape` (`migration/models.py:94`) lets a removed
  item carry. If a begun phase is split, and the one candidate is such an item (`unique_coverage`, or the only partial
  one), the module's id is looked up among the new phases. With one target the ambiguity checks do not look;
  with several, the one candidate satisfies them. Nothing catches the error, and no document speaks of
  such items: `Strays` describes them, `OnlyStraysRaise` shows that nothing else raises.
* A failed phase is only classified as repaired or broken when it keeps its identity; one that is
  split, or whose meaning changed, starts over without a look at the reason codes.
* The experiment gate sees the result of the current module only, so an experiment of several
  modules escalates when one of them is done.
* Nothing forbids a mapping to split and merge the same phase (`migration/core.py:482-521` takes each item by its own
  type). Its progress then goes on in the part the split justifies and in the merged phase as well, so
  `SplitContinuesOnce` is about phases all of whose items are splits.
* `satisfied_state_afters` survives a migration, whatever the new phases mean by the same names.
* One unfinished record anywhere in the state blocks every adoption.
* The executor may answer that the run is completed, past every gate.

## Not modelled, and why

* schema validation at construction and `ObjectInventory.validate_graph`: they reject objects before any of
  this code sees them;
* the input validators (`protocol.py:43-78`), which change no state;
* the source records of a candidate, one by one: `unfinished_records` stands for the one test on them
  that depends on their state; `supersede_adopted_item`, which nothing calls;
* inherited notes, histories and the `OverviewMigration` report, which nothing reads;
* the failure reasons of a module: nothing in the package makes a module failed but
  `recompute_module_state`;
* publishing a revised guide, which nothing in the package does: a revision resolves the same guide again;
* prompts, audits of a new overview, executors and stores: outside the repository.

## Plan

What is left, in order:

1. one specification of the loop over the record list, in which `RunExecutor` is `ActionScheduling`'s
   executor, so that retries, waits and gates interleave; the two are separate because their product
   is too large for TLC at useful bounds;
2. candidates with their source records.
