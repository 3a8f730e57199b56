----------------------------- MODULE MCRuntimeLoop -----------------------------
(***************************************************************************)
(* Values of the constants of RuntimeLoop for TLC: a module of two phases *)
(* and one of a single phase.                                              *)
(***************************************************************************)
EXTENDS RuntimeLoop, TLC

CONSTANTS m1, m2, p1, p2, p3

MCModules == {m1, m2}
MCPhases == {p1, p2, p3}
MCModuleOf == (p1 :> m1) @@ (p2 :> m1) @@ (p3 :> m2)
===============================================================================
