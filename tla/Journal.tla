------------------------------- MODULE Journal -------------------------------
(***************************************************************************)
(* What the log of response times promises a reader of the database: a     *)
(* measured time becomes one entry under the name it was measured for, or  *)
(* is lost; entries are in the order of their rows, and an entry never     *)
(* changes, never goes away and never appears later.  A time is stored in  *)
(* a bounded integer and wraps around.                                     *)
(***************************************************************************)
EXTENDS Integers

CONSTANTS
    Name,   \* names of targets
    Half,   \* half the range of stored times, in nanoseconds
    None    \* no measurement

VARIABLES
    measured,   \* the measurement being recorded, or None
    journal     \* the entries, each with its row, a name and a time

vars == <<measured, journal>>

Init == measured = None /\ journal = {}

Measure ==
    /\ measured = None /\ measured' \in [name : Name, time : Int]
    /\ UNCHANGED journal

Commit ==
    /\ measured # None /\ measured' = None
    /\ \E e \in journal' :
          /\ journal' = journal \cup {e} /\ \A f \in journal : f.row < e.row
          /\ e.name = measured.name
          /\ e.time \in (-Half)..(Half - 1) /\ (e.time - measured.time) % (2 * Half) = 0

Lose == measured # None /\ measured' = None /\ UNCHANGED journal

Next == Measure \/ Commit \/ Lose

Spec == Init /\ [][Next]_vars
=============================================================================
