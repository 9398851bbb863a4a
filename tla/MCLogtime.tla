---------------------------- MODULE MCLogtime ----------------------------
EXTENDS Logtime
=============================================================================
