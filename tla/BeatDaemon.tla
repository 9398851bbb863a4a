----------------------------- MODULE BeatDaemon -----------------------------
(***************************************************************************)
(* The life of beat processes (src/src/beat.c) outside their serving loop: *)
(* fork, pid file, signal handlers, binding the two sockets, stopping.     *)
(* Any number of instances may overlap: started by hand, by the unit file  *)
(* (Restart=always), on one port or on several.                            *)
(***************************************************************************)
EXTENDS Integers

CONSTANTS
    Pid,      \* process ids of the processes that go on to serve; reused
    Digits,   \* Digits[p]: length of p printed by "%d"
    Port,     \* values of the option --port
    Forking   \* values of the option that --no-fork clears, a set of BOOLEANs

\* A port number has 16 bits.
Ports == 65536

ASSUME BeatDaemonAssumption ==
    /\ Digits \in [Pid -> Nat \ {0}]
    /\ Port \subseteq {x \in Int : x % Ports # 0}
    /\ Forking \subseteq BOOLEAN
    /\ Pid \cap {"absent", "empty", "garbled"} = {}

VARIABLES
    pc,         \* pc[p]: where process p is
    fork,       \* fork[p]: arguments.fork of p
    port,       \* port[p]: arguments.port of p
    pidfile,    \* what /var/hearthbeat/pid holds, and its length
    tcp,        \* <<x, p>>: p listens on TCP port x
    udp,        \* <<x, p>>: p is bound to UDP port x
    timewait,   \* TCP ports with connections in TIME_WAIT
    contested   \* history: forked processes that overlapped another forked one

vars == <<pc, fork, port, pidfile, tcp, udp, timewait, contested>>
options == <<fork, port>>
sockets == <<tcp, udp>>

Gone == {"none", "exited", "killed"}
Startup == {"open", "write", "signal", "tcp", "udp"}

Alive == {p \in Pid : pc[p] \notin Gone}
Daemons == {p \in Alive : fork[p]}

Absent == <<"absent", 0>>
Empty == <<"empty", 0>>

\* Mutant: the port is used as it is.
BoundAsIs(p) == port[p]

\* htons keeps the low 16 bits.
Bound(p) == port[p] % Ports

Init ==
    /\ pc = [p \in Pid |-> "none"]
    /\ fork \in [Pid -> Forking] /\ port \in [Pid -> Port]
    /\ pidfile = Absent
    /\ tcp = {} /\ udp = {} /\ timewait = {}
    /\ contested = {}

-----------------------------------------------------------------------------
(* Start                                                                    *)

\* Process p gets from one point of main to another.
Goes(p, from, to) ==
    /\ pc[p] = from /\ pc' = [pc EXCEPT ![p] = to]
    /\ UNCHANGED <<options, timewait, contested>>

\* main up to the fork; p is the child, or the process itself with --no-fork.
\* When fork fails nothing else happens: the parent branch reports success.
Launch(p) ==
    /\ pc[p] \in Gone
    /\ \E f \in Forking, x \in Port :
          /\ fork' = [fork EXCEPT ![p] = f] /\ port' = [port EXCEPT ![p] = x]
          /\ pc' = [pc EXCEPT ![p] = IF f THEN "open" ELSE "signal"]
          /\ contested' = IF f /\ Daemons # {} THEN contested \cup Daemons \cup {p} ELSE contested \ {p}
    /\ UNCHANGED <<pidfile, sockets, timewait>>

\* Mutant: the file is opened without truncating it.
OpenPidfileKeeps(p) ==
    Goes(p, "open", "write") /\ pidfile' = (IF pidfile = Absent THEN Empty ELSE pidfile) /\ UNCHANGED sockets

\* Mutant: the file must not exist.
OpenPidfileExcl(p) ==
    Goes(p, "open", "write") /\ pidfile = Absent /\ pidfile' = Empty /\ UNCHANGED sockets

\* fopen truncates the file.
OpenPidfile(p) ==
    Goes(p, "open", "write") /\ pidfile' = Empty /\ UNCHANGED sockets

\* fclose writes the buffered digits at offset 0, over what another process may
\* have written since the file was truncated.
WritePidfile(p) ==
    /\ Goes(p, "write", "signal")
    /\ pidfile' = IF pidfile[2] <= Digits[p] THEN <<p, Digits[p]>> ELSE <<"garbled", pidfile[2]>>
    /\ UNCHANGED sockets

InstallHandlers(p) == Goes(p, "signal", "tcp") /\ UNCHANGED <<pidfile, sockets>>

\* Without SO_REUSEADDR, connections in TIME_WAIT keep the port busy.
BindTcp(p) ==
    /\ \A q \in Pid : <<Bound(p), q>> \notin tcp
    /\ Bound(p) \notin timewait
    /\ Goes(p, "tcp", "udp")
    /\ tcp' = tcp \cup {<<Bound(p), p>>}
    /\ UNCHANGED <<pidfile, udp>>

BindUdp(p) ==
    /\ \A q \in Pid : <<Bound(p), q>> \notin udp
    /\ Goes(p, "udp", "serving")
    /\ udp' = udp \cup {<<Bound(p), p>>}
    /\ UNCHANGED <<pidfile, tcp>>

-----------------------------------------------------------------------------
(* Serving, only as far as the port is concerned: the server closes the     *)
(* connection first, so that TIME_WAIT is on its side.                      *)

ServeTcp(p) ==
    /\ pc[p] = "serving"
    /\ timewait' = timewait \cup {Bound(p)}
    /\ UNCHANGED <<pc, options, pidfile, sockets, contested>>

TimeWaitEnds(x) ==
    /\ x \in timewait
    /\ timewait' = timewait \ {x}
    /\ UNCHANGED <<pc, options, pidfile, sockets, contested>>

-----------------------------------------------------------------------------
(* Stop                                                                     *)

\* The value of fork_pid in every process that calls removepidfile.
fork_pid == 0

removepidfile == pidfile' = IF fork_pid # 0 THEN Absent ELSE pidfile

Exit(p, how) ==
    /\ pc' = [pc EXCEPT ![p] = how]
    /\ tcp' = {h \in tcp : h[2] # p} /\ udp' = {h \in udp : h[2] # p}
    /\ UNCHANGED <<options, timewait, contested>>

\* A call of the start-up fails.
die(p) ==
    /\ pc[p] \in Startup \ {"signal"}
    /\ removepidfile
    /\ Exit(p, "exited")

\* SIGKILL, or a stop signal before the handlers are installed.
Kill(p) ==
    /\ p \in Alive
    /\ UNCHANGED pidfile
    /\ Exit(p, "killed")

\* Mutant: the handler returns after closing the TCP socket.
signal_handler_returns(p) ==
    /\ pc[p] \in {"tcp", "udp", "serving"}
    /\ tcp' = {h \in tcp : h[2] # p}
    /\ UNCHANGED <<pc, options, pidfile, udp, timewait, contested>>

\* signal_handler closes the TCP sockets first ...
signal_handler(p) ==
    /\ pc[p] \in {"tcp", "udp", "serving"}
    /\ pc' = [pc EXCEPT ![p] = "stopping"]
    /\ tcp' = {h \in tcp : h[2] # p}
    /\ UNCHANGED <<options, pidfile, udp, timewait, contested>>

\* ... then the UDP socket, and exits.
Stop(p) ==
    /\ pc[p] = "stopping"
    /\ removepidfile
    /\ Exit(p, "exited")

-----------------------------------------------------------------------------
Next ==
    \/ \E p \in Pid :
          \/ Launch(p) \/ OpenPidfile(p) \/ WritePidfile(p) \/ InstallHandlers(p)
          \/ BindTcp(p) \/ BindUdp(p) \/ ServeTcp(p)
          \/ die(p) \/ Kill(p) \/ signal_handler(p) \/ Stop(p)
    \/ \E x \in timewait : TimeWaitEnds(x)

Spec == Init /\ [][Next]_vars

\* A started process goes on or dies, a stopping one exits, and TIME_WAIT ends
\* (WF).  No call of the start-up fails, and no process is killed at the same
\* place, for ever (SF).  Nothing is said of Launch: systemd gives a unit with
\* Restart=always up after a few quick failures.
Fairness ==
    /\ \A p \in Pid : WF_vars(die(p)) /\ WF_vars(Stop(p))
    /\ WF_vars(\E x \in timewait : TimeWaitEnds(x))
    /\ SF_vars(\E p \in Pid : OpenPidfile(p))
    /\ SF_vars(\E p \in Pid : WritePidfile(p))
    /\ SF_vars(\E p \in Pid : InstallHandlers(p))
    /\ SF_vars(\E p \in Pid : BindTcp(p))
    /\ SF_vars(\E p \in Pid : BindUdp(p))

LiveSpec == Spec /\ Fairness

-----------------------------------------------------------------------------
(* Properties                                                               *)

\* Every variable has its type; ports are 16 bits wide.
TypeOK ==
    /\ pc \in [Pid -> Gone \cup Startup \cup {"serving", "stopping"}]
    /\ fork \in [Pid -> Forking]
    /\ port \in [Pid -> Port]
    /\ pidfile \in {Absent, Empty} \cup ((Pid \cup {"garbled"}) \X (Nat \ {0}))
    /\ tcp \subseteq (0..(Ports - 1)) \X Pid
    /\ udp \subseteq (0..(Ports - 1)) \X Pid
    /\ timewait \subseteq 0..(Ports - 1)
    /\ contested \subseteq Pid

\* A daemon that serves has both sockets of its port, and has them alone: the
\* same port on TCP and UDP is split between two processes only while the one
\* with the UDP side is in signal_handler, which closes TCP first.
ServesAlone ==
    /\ \A p \in Pid : pc[p] = "serving" => <<Bound(p), p>> \in tcp \cap udp
    /\ \A h \in tcp : \A k \in tcp \cup udp :
          h[1] = k[1] /\ h[2] # k[2] => k \notin tcp /\ pc[k[2]] = "stopping"

\* Whatever earlier processes left in the pid file (crashed while writing, died
\* on bind, killed, stopped), a daemon whose life did not overlap another one's
\* is the one the file names.
PidfileNamesDaemon ==
    \A p \in Daemons : p \notin contested /\ pc[p] \notin {"open", "write"} => pidfile = <<p, Digits[p]>>

\* As long as beat is launched again and again, by the unit file or by hand,
\* service comes back after every crash, whatever earlier processes left in the
\* pid file, on the port and in TIME_WAIT.
ServiceResumes == []<>(Alive # {}) => []<>(\E p \in Pid : pc[p] = "serving")

-----------------------------------------------------------------------------
(* Statements of the code and its documentation that do not hold            *)

\* removepidfile: a process that exits by itself removes its pid file.
PidfileRemoved == \A p \in Pid : pc[p] = "exited" => pidfile[1] # p

\* configure, PIDFile=: the pid file names the process of the unit.  Here it does
\* not even name a process: the only daemon serves under the pid of another one
\* that wrote its own there and then exited by itself.
PidfileOfOnlyDaemon ==
    \A p, q \in Pid :
        Alive = {p} /\ fork[p] /\ pc[p] = "serving" /\ pc[q] = "exited" => pidfile[1] # q
=============================================================================
