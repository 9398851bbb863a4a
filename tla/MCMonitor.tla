----------------------------- MODULE MCMonitor -----------------------------
EXTENDS Monitor

CONSTANTS a1, a2

MCName == <<"x", "y">>

\* The second target may resolve to the address of the first.
MCResolve == <<{a1}, {a1, a2}>>

\* Every target has an address of its own.
MCResolveApart == <<{a1}, {a2}>>

\* A single target.
MCNameOne == <<"x">>
MCResolveOne == <<{a1}>>
=============================================================================
