------------------------------ MODULE Detector ------------------------------
(***************************************************************************)
(* What the monitor promises its user, without event loop, timers, sockets *)
(* or blocking calls: for every target a notification state and the time   *)
(* since the monitor last read an answer of that target.                   *)
(***************************************************************************)
EXTENDS Naturals

CONSTANTS Target,       \* the monitored targets
          ErrInterval   \* silence after which a target counts as down

VARIABLES told,    \* told[t]: last notification about t, "none" at start
          quiet    \* quiet[t]: time since an answer of t was read, at most ErrInterval

vars == <<told, quiet>>

Init == /\ told = [t \in Target |-> "none"]
        /\ quiet = [t \in Target |-> ErrInterval]

\* An answer of t read some time ago is attributed to t: t is up from now on.
Hear(t) == /\ told' = [told EXCEPT ![t] = "up"]
           /\ \E d \in 0..quiet[t] : quiet' = [quiet EXCEPT ![t] = d]

\* Only a target announced as up, and silent for ErrInterval, is declared down.
Declare(t) == /\ told[t] = "up"
              /\ quiet[t] = ErrInterval
              /\ told' = [told EXCEPT ![t] = "down"]
              /\ UNCHANGED quiet

Pass == /\ quiet' = [t \in Target |-> IF quiet[t] < ErrInterval THEN quiet[t] + 1 ELSE quiet[t]]
        /\ UNCHANGED told

\* A restarted monitor knows nothing.
Forget == /\ told' = [t \in Target |-> "none"]
          /\ quiet' = [t \in Target |-> ErrInterval]

Next == \/ \E t \in Target : Hear(t) \/ Declare(t)
        \/ Pass
        \/ Forget

Spec == Init /\ [][Next]_vars
=============================================================================
