------------------------------ MODULE MCMigration ------------------------------
(***************************************************************************)
(* Values of the constants of Migration for TLC: an experiment of two      *)
(* modules becomes another of two, of which the first keeps its name, and   *)
(* three old phases become four.  One request for each kind of mapping,    *)
(* right and wrong; the phases stand in every possible way, with no guide  *)
(* active, one, or the two of a module.                                     *)
(***************************************************************************)
EXTENDS Migration, TLC

CONSTANTS m1, m2, m3, p1, p2, p3, a, b, c, d, r1, r2, r3

MCOldModules == {m1, m2}
MCOldPhases == {p1, p2, p3}
MCOldModuleOf == (p1 :> m1) @@ (p2 :> m1) @@ (p3 :> m2)
MCNewModules == {m1, m3}
MCNewPhases == {a, b, c, d}
MCNewModuleOf == (a :> m1) @@ (b :> m1) @@ (d :> m1) @@ (c :> m3)
MCModuleOrder == <<m1, m3>>
MCPhaseOrder == (m1 :> <<a, b, d>>) @@ (m3 :> <<c>>)
MCPreserving == ({p1, p2} \X {a, b, d}) \cup {<<p3, c>>}
MCAttempts == {r1, r2, r3}
MCActionOf == (r1 :> "x") @@ (r2 :> "x") @@ (r3 :> "y")

Map(type, old, new) ==
  [old |-> old, new |-> new,
   module |-> IF new \in MCNewPhases THEN MCNewModuleOf[new] ELSE None,
   type |-> type, reason |-> "none", partial |-> FALSE]
Naming(module, item) == [item EXCEPT !.module = module]
For(why, item) == [item EXCEPT !.reason = why]
InPart(item) == [item EXCEPT !.partial = TRUE]
New(new) == Map("created", None, new)
Gone(old) == Map("removed", old, None)
Same(old, new) == Map("unchanged", old, new)
Moved(old, new) == Map("reordered", old, new)
Split(old, new) == Map("split", old, new)
Merged(old, new) == Map("merged", old, new)

Attempted(s) == (r1 :> s[1]) @@ (r2 :> s[2]) @@ (r3 :> s[3])
Request(mapping) ==
  [phases |-> mapping,
   modules |-> <<Same(m1, m1), Same(m2, m3)>>,
   attempts |-> Attempted(<<"finished", "running", "blocked">>),
   frozen |-> {r3},
   module_status |-> (m1 :> "in_progress") @@ (m2 :> "not_started"),
   dependencies |-> {m1}]

Straight == <<Same(p1, a), Same(p2, b), Same(p3, c), New(d)>>
SplitModule(items) ==
  [Request(Straight) EXCEPT !.modules = items \o <<Same(m2, m3)>>]

MCRequests ==
  {Request(mapping) : mapping \in {
     Straight,
     <<For("repaired", Same(p1, a)), For("still_broken", Same(p2, b)), Same(p3, c), New(d)>>,
     <<Moved(p2, a), Moved(p1, b), New(d), Moved(p3, c)>>,
     <<New(a), Moved(p1, b), Gone(p2), Same(p3, c), New(d)>>,
     <<Same(p1, a), Same(p3, b), New(c), Same(p2, d)>>,
     <<Same(p1, a), New(b), New(d), Merged(p2, c), Merged(p3, c)>>,
     <<Merged(p1, a), Merged(p2, a), Same(p3, c), New(b), New(d)>>,
     <<Same(p1, a), Merged(p2, b), Merged(p2, d), Same(p3, c)>>,
     <<Split(p1, a), Split(p1, b), Moved(p2, d), Same(p3, c)>>,
     <<Split(p1, a), For("unique_coverage", Split(p1, b)), Gone(p2), Same(p3, c), New(d)>>,
     <<InPart(Split(p1, a)), Split(p1, b), Split(p2, d), Same(p3, c)>>,
     <<For("unique_coverage", Split(p1, a)), Merged(p1, b), Moved(p2, d), Same(p3, c)>>,
     <<Split(p1, a), For("unique_coverage", Naming(m1, Gone(p1))), Moved(p2, b), Same(p3, c),
       New(d)>>,
     <<Split(p1, a), Split(p1, b), InPart(Naming(m3, Gone(p1))), Moved(p2, d), Same(p3, c)>>,
     <<New(a), Naming(m3, Moved(p1, b)), Naming(None, Moved(p2, d)), Naming(m1, Same(p3, c))>>,
     <<Same(p1, a), Same(p3, c), New(b), New(d)>>}}
  \cup {[Request(Straight) EXCEPT
           !.attempts = Attempted(<<"selected", "blocked", "finished">>)],
        [Request(Straight) EXCEPT !.dependencies = {m2, m3}],
        SplitModule(<<Split(m1, m1), Split(m1, m3)>>),
        SplitModule(<<Split(m1, m1), For("unique_coverage", Split(m1, m3))>>)}

MCActiveGuides == {{}, {p1}, {p2}, {p3}, {p1, p2}}

MCStandings ==
  {[status |-> status, reasons |-> {}] : status \in {"not_started", "in_progress", "done", "failed"}}
  \cup {[status |-> "blocked", reasons |-> {"waiting"}],
        [status |-> "blocked", reasons |-> {"structural"}],
        [status |-> "failed", reasons |-> {"structural"}]}
===============================================================================
