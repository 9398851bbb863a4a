---------------------------- MODULE MCHeartbeat ----------------------------
EXTENDS Heartbeat

CONSTANT a1

MCName == <<"x">>

MCResolve == <<{a1}>>
=============================================================================
