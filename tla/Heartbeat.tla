------------------------------ MODULE Heartbeat ------------------------------
(***************************************************************************)
(* The whole system: the monitor (Monitor), a host behind every address    *)
(* and the network between them, which loses, delays, duplicates and       *)
(* reorders datagrams.  Every step of the monitor is a step of Monitor.    *)
(* The hosts are those of Host, which beat implements (BeatLoop), with the *)
(* monitor as their only peer: its datagrams are counted, and an answer    *)
(* that beat fails to send is one that gets lost.                          *)
(***************************************************************************)
EXTENDS Monitor

CONSTANT HostMax   \* bound: datagrams that wait at a host, more are dropped

\* Targets have one address each and share none; polls are more frequent than
\* the silence that counts as down.
ASSUME HeartbeatAssumption ==
    /\ HostMax \in Nat
    /\ 0 < PollInterval /\ PollInterval < ErrInterval
    /\ \A t \in Target : \E a \in Addr : Resolve[t] = {a}
    /\ \A t, u \in Target : Resolve[t] \cap Resolve[u] # {} => t = u

VARIABLES
    alive,     \* alive[a]: a process answers at address a
    waiting,   \* waiting[a]: datagrams it has received and not yet answered
    bips,      \* addresses a "bip?" is on its way to
    answers,   \* addresses an answer is on its way from
    excused,   \* history: targets with a fault since their last answer was heard
    delay      \* history: time lost since then, at most ErrInterval

hosts == <<alive, waiting>>
network == <<bips, answers>>
history == <<excused, delay>>
hvars == <<vars, hosts, network, history>>

At(a) == {t \in Target : a \in Resolve[t]}

\* A datagram to or from t is neither lost nor read yet.
InFlight(t) == \E a \in Resolve[t] : a \in bips \cup answers \/ waiting[a] > 0

HInit ==
    /\ Init
    /\ alive = [a \in Addr |-> TRUE] /\ waiting = [a \in Addr |-> 0]
    /\ bips = {} /\ answers = {}
    /\ excused = {} /\ delay = [t \in Target |-> 0]

-----------------------------------------------------------------------------
(* The monitor                                                              *)

Fault(T) == excused' = excused \cup T /\ UNCHANGED delay

\* err_ev of t starts to measure a new silence; what its iteration has already
\* blocked is lost.
Fresh(t) == excused' = excused \ {t} /\ delay' = [delay EXCEPT ![t] = Saturate(lag)]

SendBip ==
    /\ send_bip
    /\ \E a \in Resolve[arg] : bips' = bips \cup {a}
    /\ UNCHANGED <<hosts, answers, history>>

SendFails == send_bip_fails /\ Fault({arg}) /\ UNCHANGED <<hosts, network>>

Hear(t) ==
    /\ get_target(t)
    /\ IF isonline[t] THEN Fresh(t) ELSE UNCHANGED history
    /\ UNCHANGED <<hosts, network>>

\* The lookup of the sender fails.
Mishear == get_target_null /\ Fault(At(arg)) /\ UNCHANGED <<hosts, network>>

Welcome == UpNotified /\ Fresh(arg) /\ UNCHANGED <<hosts, network>>

OtherStep ==
    /\ \/ EnterLoop \/ Dispatch \/ EndIteration \/ DownNotified
       \/ \E t \in Target : handle_poll_event(t) \/ handle_err_event(t)
       \/ handle_answer \/ handle_answer_fails
    /\ UNCHANGED <<hosts, network, history>>

HStep == SendBip \/ SendFails \/ (\E t \in Target : Hear(t)) \/ Mishear \/ Welcome \/ OtherStep

\* A restarted monitor may have the port of the one before; if not, what is on
\* its way is lost.
StopStart == (handle_signal \/ Exit \/ Restart) /\ UNCHANGED <<hosts, network, history>>

\* Time is lost when the loop is not there to wait, and while a datagram travels.
HTick ==
    /\ Tick
    /\ delay' = [t \in Target |-> IF lag' # lag \/ InFlight(t) THEN Saturate(delay[t] + 1) ELSE delay[t]]
    /\ UNCHANGED <<hosts, network, excused>>

-----------------------------------------------------------------------------
(* Hosts, as far as their answers are concerned                             *)

\* Mutant: a host answers without having been asked.
AnswerUnasked(a) ==
    /\ alive[a] /\ waiting' = [waiting EXCEPT ![a] = @ - 1] /\ answers' = answers \cup {a}
    /\ UNCHANGED <<vars, alive, bips, history>>

Answer(a) ==
    /\ alive[a] /\ waiting[a] > 0
    /\ waiting' = [waiting EXCEPT ![a] = @ - 1]
    /\ answers' = answers \cup {a}
    /\ UNCHANGED <<vars, alive, bips, history>>

Crash(a) ==
    /\ alive[a]
    /\ alive' = [alive EXCEPT ![a] = FALSE] /\ waiting' = [waiting EXCEPT ![a] = 0]
    /\ Fault(At(a))
    /\ UNCHANGED <<vars, network>>

Recover(a) ==
    /\ ~alive[a]
    /\ alive' = [alive EXCEPT ![a] = TRUE]
    /\ UNCHANGED <<vars, waiting, network, history>>

-----------------------------------------------------------------------------
(* Network                                                                  *)

\* A datagram that arrives may leave a duplicate behind.
Receive(a) ==
    /\ a \in bips /\ alive[a] /\ waiting[a] < HostMax
    /\ waiting' = [waiting EXCEPT ![a] = @ + 1]
    /\ bips' \in {bips, bips \ {a}}
    /\ UNCHANGED <<vars, alive, answers, history>>

Deliver(a) ==
    /\ a \in answers
    /\ Arrive(a)
    /\ answers' \in {answers, answers \ {a}}
    /\ UNCHANGED <<hosts, bips, history>>

Lose(a) ==
    /\ \/ a \in bips /\ bips' = bips \ {a} /\ UNCHANGED answers
       \/ a \in answers /\ answers' = answers \ {a} /\ UNCHANGED bips
    /\ Fault(At(a))
    /\ UNCHANGED <<vars, hosts>>

\* Nobody listens at an address that was polled.
SocketError == (\E a \in Addr : ~alive[a]) /\ Arrive(None) /\ UNCHANGED <<hosts, network, history>>

-----------------------------------------------------------------------------
HNext ==
    \/ HStep \/ StopStart \/ HTick \/ SocketError
    \/ \E a \in Addr : Answer(a) \/ Crash(a) \/ Recover(a) \/ Receive(a) \/ Deliver(a) \/ Lose(a)

HSpec == HInit /\ [][HNext]_hvars

\* The monitor goes on and time passes as in Monitor; a live host answers; no
\* datagram travels for ever; the network and the lookups do not fail for ever.
HFairness ==
    /\ WF_hvars(HStep) /\ SF_hvars(HTick)
    /\ SF_hvars(SendBip) /\ SF_hvars(\E t \in Target : Hear(t))
    /\ \A a \in Addr : /\ WF_hvars(Answer(a))
                       /\ SF_hvars(Receive(a)) /\ SF_hvars(Deliver(a))
                       /\ WF_hvars((Deliver(a) \/ Lose(a)) /\ a \in answers \ answers')

HLiveSpec == HSpec /\ HFairness

-----------------------------------------------------------------------------
(* Properties                                                               *)

\* Every variable has its type.
HTypeOK ==
    /\ alive \in [Addr -> BOOLEAN]
    /\ waiting \in [Addr -> 0..HostMax]
    /\ bips \subseteq Addr /\ answers \subseteq Addr
    /\ excused \subseteq Target
    /\ delay \in [Target -> 0..ErrInterval]

\* No false alarm: a host is declared down only if, since the monitor last heard
\* of it, the host crashed, a datagram was lost or a lookup failed, or the time
\* lost in blocking calls and on the way adds up to err_interval - poll_interval.
NoFalseAlarm ==
    [][\A t \in Target : told[t] = "up" /\ told'[t] = "down" =>
          t \in excused \/ delay[t] >= ErrInterval - PollInterval]_hvars

\* A host that is dead for good is eventually not announced as up any more,
\* whatever late and duplicate answers the network still holds.
DeadNoticed ==
    \/ []<>(pc \in Gone)
    \/ \A t \in Target : <>[](\A a \in Resolve[t] : ~alive[a]) => <>[](told[t] # "up")

\* A host that is alive for good is found online again and again, however often
\* it was taken for dead before.
AliveNoticed ==
    \/ []<>(pc \in Gone)
    \/ \A t \in Target : <>[](\A a \in Resolve[t] : alive[a]) => []<>isonline[t]
=============================================================================
