-------------------------- MODULE BeatDaemonProofs --------------------------
(***************************************************************************)
(* Proofs about BeatDaemon for any set of process ids and ports.  SockInv  *)
(* ties the sockets of a process to its progress; PidInv says that an      *)
(* uncontested daemon is the only one and what the pid file holds at each  *)
(* point of its start.                                                     *)
(***************************************************************************)
EXTENDS BeatDaemon, TLAPS

\* A process has the TCP socket of its port from bind to the end of its life or
\* the first half of signal_handler, the UDP socket from the second bind to its
\* end, and nobody else has the same TCP port.
SockInv ==
    /\ \A x, p : <<x, p>> \in tcp => x = Bound(p) /\ pc[p] \in {"udp", "serving"}
    /\ \A x, p : <<x, p>> \in udp => x = Bound(p) /\ pc[p] \in {"serving", "stopping"}
    /\ \A p \in Pid : pc[p] \in {"udp", "serving"} => <<Bound(p), p>> \in tcp
    /\ \A p \in Pid : pc[p] = "serving" => <<Bound(p), p>> \in udp
    /\ \A x, p, q : <<x, p>> \in tcp /\ <<x, q>> \in tcp => p = q

\* An uncontested daemon is alone, and the pid file is as it left it.
PidInv ==
    /\ \A p \in Pid : pc[p] \in {"open", "write"} => fork[p]
    /\ \A p \in Daemons : p \notin contested =>
          /\ Daemons = {p}
          /\ pc[p] = "write" => pidfile = Empty
          /\ pc[p] \notin {"open", "write"} => pidfile = <<p, Digits[p]>>

Inv == TypeOK /\ SockInv /\ PidInv

-----------------------------------------------------------------------------
\* htons yields a port number.
LEMMA BoundType == TypeOK => \A p \in Pid : Bound(p) \in 0..(Ports - 1)
<1> SUFFICES ASSUME TypeOK, NEW p \in Pid PROVE Bound(p) \in 0..(Ports - 1)
  OBVIOUS
<1>1. port[p] \in Int
  BY BeatDaemonAssumption DEF TypeOK
<1>2. Ports \in Nat /\ Ports > 0
  BY SMT DEF Ports
<1> QED
  BY <1>1, <1>2 DEF Bound

\* Every step keeps the types.
LEMMA TypeStep == TypeOK /\ [Next]_vars => TypeOK'
<1> SUFFICES ASSUME TypeOK, [Next]_vars PROVE TypeOK'
  OBVIOUS
<1> USE DEF TypeOK, Gone, Startup, options, sockets
<1>1. ASSUME NEW p \in Pid, Launch(p) PROVE TypeOK'
  BY <1>1 DEF Launch, Daemons, Alive
<1>2. ASSUME NEW p \in Pid, OpenPidfile(p) PROVE TypeOK'
  BY <1>2 DEF OpenPidfile, Goes
<1>3. ASSUME NEW p \in Pid, WritePidfile(p) PROVE TypeOK'
  <2>1. Digits[p] \in Nat \ {0} /\ pidfile[2] \in Nat
    BY BeatDaemonAssumption DEF Absent, Empty
  <2>2. pidfile' \in (Pid \cup {"garbled"}) \X (Nat \ {0})
    <3>1. CASE pidfile[2] <= Digits[p]
      BY <1>3, <2>1, <3>1 DEF WritePidfile, Goes
    <3>2. CASE ~(pidfile[2] <= Digits[p])
      BY <1>3, <2>1, <3>2 DEF WritePidfile, Goes
    <3> QED
      BY <3>1, <3>2
  <2> QED
    BY <1>3, <2>2 DEF WritePidfile, Goes
<1>4. ASSUME NEW p \in Pid, InstallHandlers(p) PROVE TypeOK'
  BY <1>4 DEF InstallHandlers, Goes
<1>5. ASSUME NEW p \in Pid, BindTcp(p) \/ BindUdp(p) \/ ServeTcp(p) PROVE TypeOK'
  <2>1. Bound(p) \in 0..(Ports - 1) /\ <<Bound(p), p>> \in (0..(Ports - 1)) \X Pid
    BY BoundType
  <2>2. CASE BindTcp(p)
    BY <2>1, <2>2 DEF BindTcp, Goes
  <2>3. CASE BindUdp(p)
    BY <2>1, <2>3 DEF BindUdp, Goes
  <2>4. CASE ServeTcp(p)
    BY <2>1, <2>4 DEF ServeTcp
  <2> QED
    BY <1>5, <2>2, <2>3, <2>4
<1>6. ASSUME NEW p \in Pid, die(p) \/ Kill(p) \/ Stop(p) PROVE TypeOK'
  BY <1>6 DEF die, Kill, Stop, Exit, removepidfile, fork_pid
<1>7. ASSUME NEW p \in Pid, signal_handler(p) PROVE TypeOK'
  BY <1>7 DEF signal_handler
<1>8. ASSUME NEW x \in timewait, TimeWaitEnds(x) PROVE TypeOK'
  BY <1>8 DEF TimeWaitEnds
<1>9. CASE UNCHANGED vars
  BY <1>9 DEF vars
<1> QED
  BY <1>1, <1>2, <1>3, <1>4, <1>5, <1>6, <1>7, <1>8, <1>9 DEF Next

-----------------------------------------------------------------------------
\* Every step keeps sockets and progress in line.
LEMMA SockStep == TypeOK /\ SockInv /\ [Next]_vars => SockInv'
<1> SUFFICES ASSUME TypeOK, SockInv, [Next]_vars PROVE SockInv'
  OBVIOUS
<1>0. /\ pc \in [Pid -> Gone \cup Startup \cup {"serving", "stopping"}]
      /\ port \in [Pid -> Port] /\ tcp \subseteq (0..(Ports - 1)) \X Pid /\ udp \subseteq (0..(Ports - 1)) \X Pid
  BY DEF TypeOK
<1> USE DEF SockInv, Bound, Gone, Startup, options, sockets
<1>1. ASSUME NEW p \in Pid, Launch(p) PROVE SockInv'
  BY <1>0, <1>1 DEF Launch
<1>2. ASSUME NEW p \in Pid, OpenPidfile(p) \/ WritePidfile(p) \/ InstallHandlers(p) PROVE SockInv'
  BY <1>0, <1>2 DEF OpenPidfile, WritePidfile, InstallHandlers, Goes
<1>3. ASSUME NEW p \in Pid, BindTcp(p) PROVE SockInv'
  BY <1>0, <1>3 DEF BindTcp, Goes
<1>4. ASSUME NEW p \in Pid, BindUdp(p) PROVE SockInv'
  BY <1>0, <1>4 DEF BindUdp, Goes
<1>5. ASSUME NEW p \in Pid, ServeTcp(p) PROVE SockInv'
  BY <1>0, <1>5 DEF ServeTcp
<1>6. ASSUME NEW p \in Pid, die(p) \/ Kill(p) \/ Stop(p) PROVE SockInv'
  BY <1>0, <1>6 DEF die, Kill, Stop, Exit, Alive
<1>7. ASSUME NEW p \in Pid, signal_handler(p) PROVE SockInv'
  BY <1>0, <1>7 DEF signal_handler
<1>8. ASSUME NEW x \in timewait, TimeWaitEnds(x) PROVE SockInv'
  BY <1>8 DEF TimeWaitEnds
<1>9. CASE UNCHANGED vars
  BY <1>9 DEF vars
<1> QED
  BY <1>1, <1>2, <1>3, <1>4, <1>5, <1>6, <1>7, <1>8, <1>9 DEF Next

\* Every step keeps the pid file of an uncontested daemon.
LEMMA PidStep == TypeOK /\ PidInv /\ [Next]_vars => PidInv'
<1> SUFFICES ASSUME TypeOK, PidInv, [Next]_vars PROVE PidInv'
  OBVIOUS
<1>0. /\ pc \in [Pid -> Gone \cup Startup \cup {"serving", "stopping"}]
      /\ fork \in [Pid -> BOOLEAN]
  BY BeatDaemonAssumption DEF TypeOK
<1> USE DEF PidInv, Daemons, Alive, Gone, Startup, options, sockets
<1>1. ASSUME NEW p \in Pid, Launch(p) PROVE PidInv'
  <2>1. PICK f \in Forking, x \in Port :
           /\ fork' = [fork EXCEPT ![p] = f]
           /\ pc' = [pc EXCEPT ![p] = IF f THEN "open" ELSE "signal"]
           /\ contested' = IF f /\ Daemons # {} THEN contested \cup Daemons \cup {p} ELSE contested \ {p}
    BY <1>1 DEF Launch
  <2>2. p \notin Daemons /\ UNCHANGED pidfile /\ f \in BOOLEAN
    BY <1>1, BeatDaemonAssumption DEF Launch
  <2>3. CASE f
    <3>1. Daemons' = Daemons \cup {p} /\ pc'[p] = "open"
      BY <1>0, <2>1, <2>2, <2>3
    <3> QED
      BY <1>0, <2>1, <2>2, <2>3, <3>1
  <2>4. CASE ~f
    <3>1. Daemons' = Daemons /\ pc'[p] = "signal"
      BY <1>0, <2>1, <2>2, <2>4
    <3> QED
      BY <1>0, <2>1, <2>2, <2>4, <3>1
  <2> QED
    BY <2>2, <2>3, <2>4
<1>2. ASSUME NEW p \in Pid, OpenPidfile(p) PROVE PidInv'
  BY <1>0, <1>2 DEF OpenPidfile, Goes
<1>3. ASSUME NEW p \in Pid, WritePidfile(p) PROVE PidInv'
  <2>1. Digits[p] \in Nat /\ pc[p] = "write" /\ fork[p] /\ p \in Daemons
    BY <1>0, <1>3, BeatDaemonAssumption DEF WritePidfile, Goes
  <2>2. Daemons' = Daemons /\ UNCHANGED <<fork, contested>>
    BY <1>0, <1>3 DEF WritePidfile, Goes
  <2>3. p \notin contested => Daemons = {p} /\ pidfile' = <<p, Digits[p]>>
    BY <1>3, <2>1 DEF WritePidfile, Empty, Goes
  <2>4. p \in contested => \A q \in Daemons : q \in contested
    BY <2>1
  <2>5. pc' = [pc EXCEPT ![p] = "signal"]
    BY <1>3 DEF WritePidfile, Goes
  <2> HIDE DEF Daemons
  <2> QED
    BY <1>0, <2>1, <2>2, <2>3, <2>4, <2>5
<1>4. ASSUME NEW p \in Pid, InstallHandlers(p) \/ BindTcp(p) \/ BindUdp(p) \/ ServeTcp(p) \/ signal_handler(p)
      PROVE  PidInv'
  BY <1>0, <1>4 DEF InstallHandlers, BindTcp, BindUdp, ServeTcp, signal_handler, Goes
<1>5. ASSUME NEW p \in Pid, die(p) \/ Kill(p) \/ Stop(p) PROVE PidInv'
  BY <1>0, <1>5 DEF die, Kill, Stop, Exit, removepidfile, fork_pid
<1>6. ASSUME NEW x \in timewait, TimeWaitEnds(x) PROVE PidInv'
  BY <1>6 DEF TimeWaitEnds
<1>7. CASE UNCHANGED vars
  BY <1>7 DEF vars
<1> QED
  BY <1>1, <1>2, <1>3, <1>4, <1>5, <1>6, <1>7 DEF Next

-----------------------------------------------------------------------------
\* The inductive invariant holds in every reachable state.
THEOREM Invariance == Spec => []Inv
<1>1. Init => Inv
  BY DEF Init, Inv, TypeOK, SockInv, PidInv, Daemons, Alive, Gone, Startup
<1>2. Inv /\ [Next]_vars => Inv'
  BY TypeStep, SockStep, PidStep DEF Inv
<1> QED
  BY <1>1, <1>2, PTL DEF Spec

\* The types hold, 16-bit ports included.
THEOREM TypeCorrect == Spec => []TypeOK
BY Invariance, PTL DEF Inv

\* A serving daemon has both sockets of its port; TCP and UDP of a port are split
\* between two processes only while the one with UDP is stopping.
THEOREM ServingAlone == Spec => []ServesAlone
<1>1. Inv => ServesAlone
  <2> SUFFICES ASSUME Inv PROVE ServesAlone
    OBVIOUS
  <2>1. ASSUME NEW h \in tcp, NEW k \in tcp \cup udp, h[1] = k[1], h[2] # k[2]
        PROVE  k \notin tcp /\ pc[k[2]] = "stopping"
    <3>1. h = <<h[1], h[2]>> /\ k = <<k[1], k[2]>> /\ h[2] \in Pid /\ k[2] \in Pid
      BY DEF Inv, TypeOK
    <3>2. k \notin tcp
      BY <2>1, <3>1 DEF Inv, SockInv
    <3>3. k[1] = Bound(k[2]) /\ pc[k[2]] \in {"serving", "stopping"}
      BY <3>1, <3>2 DEF Inv, SockInv
    <3> QED
      BY <3>1, <3>2, <3>3 DEF Inv, SockInv
  <2> QED
    BY <2>1 DEF Inv, SockInv, ServesAlone
<1> QED
  BY <1>1, Invariance, PTL

\* The pid file names every daemon whose life overlaps no other daemon's, whatever
\* was in the file before.
THEOREM PidfileNames == Spec => []PidfileNamesDaemon
<1>1. Inv => PidfileNamesDaemon
  BY DEF Inv, PidInv, PidfileNamesDaemon
<1> QED
  BY <1>1, Invariance, PTL
=============================================================================
