------------------------- MODULE MCExecutionProtocol --------------------------
(***************************************************************************)
(* Values of the constants of ExecutionProtocol for TLC: one reason that  *)
(* can be waited out and one that cannot, one failure that counts as a    *)
(* retry and one that does not.                                           *)
(***************************************************************************)
EXTENDS ExecutionProtocol, TLC

CONSTANTS a1, a2, transient, permanent, t1, t2

MCActions == {a1, a2}
MCFailureReasons == {transient, permanent}
MCCountedFailures == {transient}
MCBlockedReasonTypes == {"human_input_missing", "guide_missing_info"}
MCTimes == {t1, t2}

MCVerdicts == {"invalid", "repaired"}

Symmetry == Permutations(MCActions) \cup Permutations(MCTimes)
===============================================================================
