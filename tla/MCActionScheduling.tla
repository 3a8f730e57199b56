-------------------------- MODULE MCActionScheduling ---------------------------
(***************************************************************************)
(* Values of the constants of ActionScheduling for TLC: an action that    *)
(* may fail twice and one that is never retried.                           *)
(***************************************************************************)
EXTENDS ActionScheduling, TLC

CONSTANTS a1, a2, transient, permanent, t1

MCActions == {a1, a2}
MCFailureReasons == {transient, permanent}
MCCountedFailures == {transient}
MCRetryableFailures == {transient}
MCBlockedReasonTypes == {"human_input_missing", "guide_missing_info"}
MCTimes == {t1}
MCVerdicts == {"invalid"}
MCNeverRetried == {a2}
MCMaxRetry == (a1 :> 2) @@ (a2 :> 2)
MCOrder == (a1 :> 1) @@ (a2 :> 2)
===============================================================================
