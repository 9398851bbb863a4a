---------------------------- MODULE MCBeatLoop ----------------------------
EXTENDS BeatLoop

CONSTANTS c1, c2
=============================================================================
