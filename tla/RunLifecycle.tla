------------------------------ MODULE RunLifecycle ------------------------------
(***************************************************************************)
(* What a run promises its caller, with no module, guide or record in     *)
(* sight.  It seeks a task for the current overview version, works on     *)
(* it, has it judged and settles the verdicts of the judgement one by     *)
(* one; nothing is judged that was not worked on, and no verdict is       *)
(* dropped unless the overview is renewed.  A renewal forgets the task,   *)
(* the wait and the verdicts of the version it leaves.  A run that stops  *)
(* stays at what it stopped with, except that its budget may run out      *)
(* before it has returned.                                                 *)
(***************************************************************************)
EXTENDS Naturals

CONSTANTS Phases, None

VARIABLES doing,     \* what the run is about
          status,
          version,   \* of the overview
          task,      \* the phase worked on and the version it is worked on in
          asked,     \* the version a wait was taken in
          due        \* verdicts not settled yet

vars == <<doing, status, version, task, asked, due>>

Stopped == status \in {"completed", "paused", "escalated"}

MayAsk == asked' \in {asked, version}

Init == /\ doing = "seek"
        /\ status = "in_progress"
        /\ version = 1
        /\ task = None
        /\ asked = None
        /\ due = 0

\* A run that has not stopped leaves "seek" with a task, for a renewal, or not at all.
Take(p) == /\ doing = "seek" /\ ~Stopped
           /\ doing' = "work"
           /\ task' = <<p, version>>
           /\ UNCHANGED <<status, version, asked, due>>

Wait == /\ doing = "seek" /\ ~Stopped
        /\ status' = "paused"
        /\ MayAsk
        /\ UNCHANGED <<doing, version, task, due>>

Doubt == /\ doing = "seek" /\ ~Stopped
         /\ doing' = "renew"
         /\ UNCHANGED <<status, version, task, asked, due>>

Deliver == /\ doing = "work"
           /\ doing' = "judge"
           /\ MayAsk
           /\ UNCHANGED <<status, version, task, due>>

Interrupt == /\ doing = "work"
             /\ doing' = "seek"
             /\ status' \in {"completed", "paused", "escalated"}
             /\ task' = None
             /\ MayAsk
             /\ UNCHANGED <<version, due>>

Judge == /\ doing = "judge"
         /\ doing' = "settle"
         /\ task' = None
         /\ due' \in Nat \ {0}
         /\ UNCHANGED <<status, version, asked>>

\* A verdict is settled; it may also end the run or call for a renewal.
Settle == /\ doing = "settle"
          /\ due > 0 /\ due' = due - 1
          /\ \/ doing' = (IF due' = 0 THEN "seek" ELSE "settle") /\ UNCHANGED status
             \/ doing' = "over" /\ status' \in {"paused", "completed"}
             \/ doing' = "renew" /\ UNCHANGED status
          /\ UNCHANGED <<version, task, asked>>

Renew == /\ doing = "renew"
         /\ doing' = "seek"
         /\ version' = version + 1
         /\ asked' = None
         /\ due' = 0
         /\ UNCHANGED <<status, task>>

Refuse == /\ doing = "renew"
          /\ doing' = "seek"
          /\ status' \in {"paused", "escalated"}
          /\ due' = 0
          /\ UNCHANGED <<version, task, asked>>

Return == /\ doing = "seek" /\ Stopped
          /\ doing' = "over"
          /\ UNCHANGED <<status, version, task, asked, due>>

Exhaust == /\ doing = "seek"
           /\ doing' = "over"
           /\ status' = "escalated"
           /\ UNCHANGED <<version, task, asked, due>>

Next == \/ \E p \in Phases : Take(p)
        \/ Wait \/ Doubt \/ Deliver \/ Interrupt \/ Judge \/ Settle \/ Renew \/ Refuse
        \/ Return \/ Exhaust

Spec == Init /\ [][Next]_vars
===============================================================================
