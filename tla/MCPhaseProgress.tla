---------------------------- MODULE MCPhaseProgress ----------------------------
(***************************************************************************)
(* Values of the constants of PhaseProgress for TLC: a module of two       *)
(* phases and one of a single phase, alone, side by side, or the second    *)
(* depending on the first.                                                  *)
(***************************************************************************)
EXTENDS PhaseProgress, TLC

CONSTANTS m1, m2, p1, p2, p3, d1, c2, c3

MCModules == {m1, m2}
MCPhases == {p1, p2, p3}
MCModuleOf == (p1 :> m1) @@ (p2 :> m1) @@ (p3 :> m2)
MCPhaseOrder == (m1 :> <<p1, p2>>) @@ (m2 :> <<p3>>)
MCStateAfter == (p1 :> "begun") @@ (p2 :> "concluded") @@ (p3 :> "reported")

MCDecisions == {d1}
MCChecks == {c2, c3}
MCGuidePhase == (d1 :> p1) @@ (c2 :> p3) @@ (c3 :> p3)
MCGuideModule == (d1 :> m1) @@ (c2 :> m2) @@ (c3 :> m2)
MCScopeOf == (d1 :> "phase") @@ (c2 :> "phase") @@ (c3 :> "module")

Independent == (m1 :> {}) @@ (m2 :> {})
Dependent == (m1 :> {}) @@ (m2 :> {m1})
MCSkeletons ==
  {[order |-> order, depends |-> Independent] : order \in {<<m1>>, <<m2>>, <<m1, m2>>}}
  \cup {[order |-> <<m1, m2>>, depends |-> Dependent]}

PhaseCandidate ==
  [scope |-> "phase", module |-> m1, phase |-> p1, sources |-> {d1}, sound |-> TRUE]
ModuleCandidate ==
  [scope |-> "module", module |-> m2, phase |-> p3, sources |-> {c2}, sound |-> TRUE]
MCCandidates == {PhaseCandidate, ModuleCandidate}

Statuses(s) == (p1 :> s[1]) @@ (p2 :> s[2]) @@ (p3 :> s[3])

MCMigratedStatuses ==
  {Statuses(s) : s \in {<<"done", "in_progress", "not_started">>,
                        <<"in_progress", "done", "not_started">>,
                        <<"not_started", "blocked", "not_started">>,
                        <<"done", "done", "in_progress">>}}

Scenario(overview, status, reason, for, local, bad, adopts) ==
  [skeleton |-> overview, status |-> Statuses(status), guides |-> for,
   reasons |-> [p \in MCPhases |-> IF Statuses(status)[p] \in {"blocked", "failed"} THEN reason
                                                                                  ELSE {}],
   repairable |-> local, malformed |-> bad, candidate |-> adopts]

\* A fresh experiment, one under way, one whose first module is done, a wait, a failed phase; and
\* what a caller may get wrong: no guide, a malformed item.
MCScenarios ==
  LET fresh == <<"not_started", "not_started", "not_started">>
      begun == <<"done", "not_started", "not_started">>
      first == <<"done", "done", "not_started">>
      waits == <<"done", "blocked", "not_started">>
      stuck == <<"done", "blocked", "blocked">>
      late == <<"failed", "in_progress", "done">>
      broken == <<"not_started", "not_started", "failed">>
      single(order) == [order |-> order, depends |-> Independent]
      both == single(<<m1, m2>>)
      chain == [order |-> <<m1, m2>>, depends |-> Dependent]
      wait == {"waiting"}
      all == {p1, p2, p3}
  IN
  {Scenario(single(<<m1>>), fresh, {}, {p1, p2}, {}, {}, PhaseCandidate),
   Scenario(single(<<m2>>), fresh, {}, {p3}, {}, {}, ModuleCandidate),
   Scenario(single(<<m2>>), broken, {}, {p3}, {p3}, {}, ModuleCandidate),
   Scenario(both, begun, {}, all, {}, {c2}, PhaseCandidate),
   Scenario(both, waits, wait, {p3}, {p2}, {c3}, ModuleCandidate),
   Scenario(both, stuck, wait, {}, {}, {}, PhaseCandidate),
   Scenario(both, stuck, {"escalation"}, {}, {}, {}, PhaseCandidate),
   Scenario(single(<<m1>>), late, wait, {p1, p2}, {}, {}, PhaseCandidate),
   Scenario(single(<<m1>>), late, {}, {p1}, {p1}, {d1}, PhaseCandidate),
   Scenario(chain, fresh, {}, {p1}, {p2}, {}, PhaseCandidate),
   Scenario(chain, first, {}, all, {}, {}, ModuleCandidate)}
===============================================================================
