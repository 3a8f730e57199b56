--------------------------- MODULE AttemptLifecycle ---------------------------
(***************************************************************************)
(* What the execution protocol promises about the attempts of an action,  *)
(* with no record in sight.  An attempt is a pair <<action, index>>.  The *)
(* attempts of one action are opened one after another, each only once    *)
(* all earlier ones are closed; an attempt is closed at most once, sealed *)
(* (finalized) only after it closed, and the verdict of whether it counts *)
(* as a retry is given when it is sealed and never revised.  A migration  *)
(* may bar attempts, which then neither close nor become sealed.          *)
(***************************************************************************)
EXTENDS Naturals

CONSTANTS Actions,      \* the actions of a guide
          MaxAttempts   \* bound on the attempts of one action

VARIABLES opened, closed, sealed, charged, barred

vars == <<opened, closed, sealed, charged, barred>>

Attempts == Actions \X (1..MaxAttempts)

TypeOK == /\ opened \subseteq Attempts
          /\ closed \subseteq opened
          /\ sealed \subseteq closed
          /\ charged \subseteq sealed
          /\ barred \subseteq opened

Init == /\ opened = {}
        /\ closed = {}
        /\ sealed = {}
        /\ charged = {}
        /\ barred = {}

Open(a, k) == /\ \A j \in 1..MaxAttempts : <<a, j>> \in opened <=> j < k
              /\ \A j \in 1..MaxAttempts : <<a, j>> \in opened => <<a, j>> \in closed
              /\ opened' = opened \cup {<<a, k>>}
              /\ UNCHANGED <<closed, sealed, charged, barred>>

Close(a, k) == /\ <<a, k>> \in opened \ (closed \cup barred)
               /\ closed' = closed \cup {<<a, k>>}
               /\ UNCHANGED <<opened, sealed, charged, barred>>

Seal(a, k) == /\ <<a, k>> \in closed \ (sealed \cup barred)
              /\ sealed' = sealed \cup {<<a, k>>}
              /\ charged' \in {charged, charged \cup {<<a, k>>}}
              /\ UNCHANGED <<opened, closed, barred>>

Bar == /\ barred \subseteq barred'
       /\ barred' \subseteq opened
       /\ UNCHANGED <<opened, closed, sealed, charged>>

Next == \/ \E a \in Actions, k \in 1..MaxAttempts : Open(a, k) \/ Close(a, k) \/ Seal(a, k)
        \/ Bar

Spec == Init /\ [][Next]_vars
===============================================================================
