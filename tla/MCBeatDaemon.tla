--------------------------- MODULE MCBeatDaemon ---------------------------
EXTENDS BeatDaemon

CONSTANTS p1, p2, p3

\* Pids of one and of two digits.
MCDigits == [p \in Pid |-> IF p = p1 THEN 1 ELSE 2]
=============================================================================
