-------------------------------- MODULE Host --------------------------------
(***************************************************************************)
(* What a monitored host promises the monitor: while it is up, a datagram  *)
(* waits until it is answered, once and to its sender, or its answer fails *)
(* to leave; a crash loses those that wait, and nothing is received while  *)
(* the host is down.  Only after an error of its socket may an answer go   *)
(* to somebody who did not ask.                                            *)
(***************************************************************************)
CONSTANTS Peer,   \* senders of datagrams, each with one datagram at a time
          None    \* stands for an error of the socket

VARIABLES up,        \* the process that answers is alive
          waiting,   \* senders of the datagrams received and not yet answered
          replies    \* peers an answer is on its way to

vars == <<up, waiting, replies>>

Init == up = TRUE /\ waiting = {} /\ replies = {}

Receive(p) == up /\ p \notin waiting /\ waiting' = waiting \cup {p} /\ UNCHANGED <<up, replies>>

Done(p) == up /\ p \in waiting /\ waiting' = waiting \ {p} /\ UNCHANGED up

Answer(p) == p # None /\ Done(p) /\ replies' = replies \cup {p}

Fail(p) == Done(p) /\ UNCHANGED replies

Stray(p) == Done(None) /\ replies' = replies \cup {p}

Take(p) == p \in replies /\ replies' = replies \ {p} /\ UNCHANGED <<up, waiting>>

Crash == up /\ up' = FALSE /\ waiting' = {} /\ UNCHANGED replies

Recover == ~up /\ up' = TRUE /\ UNCHANGED <<waiting, replies>>

Next ==
    \/ Crash \/ Recover
    \/ \E p \in Peer \cup {None} : Receive(p) \/ Answer(p) \/ Fail(p)
    \/ \E p \in Peer : Stray(p) \/ Take(p)

Spec == Init /\ [][Next]_vars
=============================================================================
