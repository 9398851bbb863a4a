--------------------------- MODULE HeartbeatProofs ---------------------------
(***************************************************************************)
(* Proofs about the whole system, for any number of targets, any intervals *)
(* with poll_interval < err_interval and any delays: the monitor inside it *)
(* is the monitor of Monitor, and false alarms need a fault or lost time.  *)
(***************************************************************************)
EXTENDS Heartbeat, MonitorProofs

Poll(t) == left[<<"poll", t>>]
Err(t) == left[<<"err", t>>]

\* Something of t is about to be sent, on its way, in the socket or in hand.
OnItsWay(t) ==
    \/ pc = "send_bip" /\ arg = t
    \/ InFlight(t)
    \/ \E i \in 1..Len(sock) : sock[i] \in Resolve[t]
    \/ pc = "get_target" /\ arg \in Resolve[t]

\* As long as less than err_interval - poll_interval was lost, the rest of it is
\* left on err_ev, and if no answer is on its way, also the time to the next poll.
Safe(t) ==
    isonline[t] /\ t \notin excused /\ delay[t] < ErrInterval - PollInterval =>
        /\ Err(t) >= ErrInterval - PollInterval - delay[t]
        /\ OnItsWay(t) \/ Err(t) >= ErrInterval - PollInterval - delay[t] + Poll(t)

AlarmInv == pc \notin Gone => \A t \in Target : Safe(t)

-----------------------------------------------------------------------------
(* The monitor inside the system                                            *)

\* Every step of the system is a step of the monitor or leaves it alone.
LEMMA MonitorStep == [HNext]_hvars => [Next]_vars
<1> SUFFICES ASSUME [HNext]_hvars PROVE Next \/ UNCHANGED vars
  OBVIOUS
<1>1. CASE HStep
  BY <1>1 DEF HStep, SendBip, SendFails, Hear, Mishear, Welcome, OtherStep, Next, Step
<1>2. CASE StopStart \/ HTick \/ SocketError
  BY <1>2 DEF StopStart, HTick, SocketError, Next
<1>3. ASSUME NEW a \in Addr, Answer(a) \/ Crash(a) \/ Recover(a) \/ Receive(a) \/ Deliver(a) \/ Lose(a)
      PROVE  Next \/ UNCHANGED vars
  BY <1>3 DEF Answer, Crash, Recover, Receive, Deliver, Lose, Next
<1>4. CASE UNCHANGED hvars
  BY <1>4 DEF hvars
<1> QED
  BY <1>1, <1>2, <1>3, <1>4 DEF HNext

\* Composition adds nothing to the monitor: what holds of Monitor with datagrams
\* from anywhere holds of the monitor between real hosts and a real network.
THEOREM Composition == HSpec => Spec
<1>1. HInit => Init
  BY DEF HInit
<1> QED
  BY <1>1, MonitorStep, PTL DEF HSpec, Spec

\* The monitor's inductive invariant in the whole system.
LEMMA MonitorInvariance == HSpec => []Inv
BY Composition, Invariance, PTL

-----------------------------------------------------------------------------
(* Types                                                                    *)

\* Every step of the system keeps the types of hosts, network and history.
LEMMA HTypeStep == Inv /\ HTypeOK /\ [HNext]_hvars => HTypeOK'
<1> SUFFICES ASSUME Inv, HTypeOK, [HNext]_hvars PROVE HTypeOK'
  OBVIOUS
<1>0. /\ lag \in Nat /\ ErrInterval \in Nat /\ HostMax \in Nat
      /\ \A d \in Nat : Saturate(d) \in 0..ErrInterval
  BY ConstantsAssumption, HeartbeatAssumption DEF Inv, TypeOK, Saturate
<1> USE DEF HTypeOK, hosts, network, history
<1>1. CASE SendBip
  <2>1. arg \in Target
    BY <1>1 DEF SendBip, send_bip, Inv, TypeOK
  <2> QED
    BY <1>1, <2>1, ConstantsAssumption DEF SendBip
<1>2. CASE SendFails
  BY <1>2 DEF SendFails, send_bip_fails, Fault, Inv, TypeOK
<1>3. ASSUME NEW t \in Target, Hear(t) PROVE HTypeOK'
  <2>1. Saturate(lag) \in 0..ErrInterval
    BY <1>0
  <2> QED
    BY <1>3, <2>1 DEF Hear, Fresh
<1>4. CASE Mishear
  BY <1>4 DEF Mishear, Fault, At
<1>5. CASE Welcome
  <2>1. arg \in Target /\ Saturate(lag) \in 0..ErrInterval
    BY <1>0, <1>5 DEF Welcome, UpNotified, Inv, TypeOK
  <2> QED
    BY <1>5, <2>1 DEF Welcome, Fresh
<1>6. CASE OtherStep \/ StopStart \/ SocketError
  BY <1>6 DEF OtherStep, StopStart, SocketError
<1>7. CASE HTick
  <2>1. \A t \in Target : delay[t] \in 0..ErrInterval /\ Saturate(delay[t] + 1) \in 0..ErrInterval
    BY <1>0
  <2> QED
    BY <1>7, <2>1 DEF HTick
<1>8. ASSUME NEW a \in Addr, Answer(a) \/ Crash(a) \/ Recover(a) \/ Receive(a) \/ Deliver(a) \/ Lose(a)
      PROVE  HTypeOK'
  <2>1. waiting[a] \in 0..HostMax
    OBVIOUS
  <2>2. CASE Answer(a)
    <3>1. waiting[a] - 1 \in 0..HostMax
      BY <1>0, <2>1, <2>2 DEF Answer
    <3> QED
      BY <2>2, <3>1 DEF Answer
  <2>3. CASE Crash(a)
    BY <1>0, <2>3 DEF Crash, Fault, At
  <2>4. CASE Recover(a)
    BY <2>4 DEF Recover
  <2>5. CASE Receive(a)
    <3>1. waiting[a] + 1 \in 0..HostMax
      BY <1>0, <2>1, <2>5 DEF Receive
    <3> QED
      BY <2>5, <3>1 DEF Receive
  <2>6. CASE Deliver(a)
    BY <2>6 DEF Deliver
  <2>7. CASE Lose(a)
    BY <2>7 DEF Lose, Fault, At
  <2> QED
    BY <1>8, <2>2, <2>3, <2>4, <2>5, <2>6, <2>7
<1>9. CASE UNCHANGED hvars
  BY <1>9 DEF hvars
<1> QED
  BY <1>1, <1>2, <1>3, <1>4, <1>5, <1>6, <1>7, <1>8, <1>9 DEF HNext, HStep

\* Type correctness of hosts, network and history.
THEOREM HTypeCorrect == HSpec => []HTypeOK
<1>1. HInit => HTypeOK
  BY ConstantsAssumption, HeartbeatAssumption DEF HInit, HTypeOK
<1> QED
  BY <1>1, HTypeStep, MonitorInvariance, PTL DEF HSpec

-----------------------------------------------------------------------------
(* False alarms                                                             *)

\* The numbers Safe is about.
LEMMA Numbers ==
    ASSUME Inv, HTypeOK, NEW t \in Target
    PROVE  /\ Err(t) \in Int /\ Poll(t) \in Int /\ delay[t] \in Nat /\ lag \in Nat
           /\ PollInterval \in Nat /\ ErrInterval \in Nat /\ PollInterval < ErrInterval
           /\ pc \notin Gone => /\ Poll(t) <= PollInterval
                                /\ status[<<"poll", t>>] # "off" /\ status[<<"err", t>>] # "off"
<1>1. <<"poll", t>> \in Timer /\ <<"err", t>> \in Timer
  BY TimerFacts
<1>2. /\ PollInterval \in Nat /\ ErrInterval \in Nat
      /\ 0 < PollInterval /\ PollInterval < ErrInterval /\ MaxLag \in Nat
  BY ConstantsAssumption, HeartbeatAssumption
<1>3. Interval(<<"poll", t>>) = PollInterval /\ Interval(<<"err", t>>) = ErrInterval
  BY DEF Interval
<1>4. left \in [Timer -> Int] /\ lag \in 0..MaxLag /\ delay \in [Target -> 0..ErrInterval] /\ Watched
  BY DEF Inv, TypeOK, HTypeOK
<1>5. 0 < ErrInterval
  BY <1>2
<1> QED
  BY <1>1, <1>2, <1>3, <1>4, <1>5 DEF Watched, Err, Poll

\* A step that touches neither the timers nor the history of t, and loses nothing
\* of t, keeps t safe.
LEMMA Frame ==
    ASSUME NEW t \in Target, Safe(t), UNCHANGED <<Err(t), Poll(t), isonline[t], delay[t]>>,
           t \in excused => t \in excused', OnItsWay(t) => OnItsWay(t)'
    PROVE  Safe(t)'
BY DEF Safe

\* An answer of t that is heard makes t safe, however long it took.
LEMMA FreshSafe ==
    ASSUME Inv, HTypeOK, NEW t \in Target, pc \notin Gone, reset_error_timer(t), Fresh(t)
    PROVE  Safe(t)'
<1>1. /\ Err(t)' = ErrInterval - lag /\ Poll(t)' = Poll(t)
      /\ delay'[t] = Saturate(lag)
  <2>1. <<"poll", t>> \in Timer \ {<<"err", t>>}
    BY TimerFacts
  <2> QED
    BY <2>1, TimerFacts DEF Inv, TypeOK, HTypeOK, reset_error_timer, ErrTimer, Fresh, Err, Poll
<1>2. /\ Poll(t) \in Int /\ lag \in Nat /\ Poll(t) <= PollInterval
      /\ PollInterval \in Nat /\ ErrInterval \in Nat /\ PollInterval < ErrInterval
  BY Numbers
<1>3. CASE lag < ErrInterval
  <2>1. delay'[t] = lag
    BY <1>1, <1>3 DEF Saturate
  <2>2. ErrInterval - lag >= ErrInterval - PollInterval - lag
    BY <1>2
  <2>3. ErrInterval - lag >= ErrInterval - PollInterval - lag + Poll(t)
    BY <1>2
  <2> QED
    BY <1>1, <2>1, <2>2, <2>3 DEF Safe
<1>4. CASE ~(lag < ErrInterval)
  <2>1. delay'[t] = ErrInterval
    BY <1>1, <1>4 DEF Saturate
  <2>2. ~(delay'[t] < ErrInterval - PollInterval)
    BY <1>2, <2>1
  <2> QED
    BY <2>2 DEF Safe
<1> QED
  BY <1>3, <1>4

\* Hearing one target leaves the others as safe as they were: none of their
\* datagrams is in hand, and none of their timers is touched.
LEMMA HearOthers ==
    ASSUME Inv, HTypeOK, NEW t \in Target, NEW u \in Target, u # t, Safe(u),
           pc \in {"get_target", "up"}, pc = "get_target" => arg \in Resolve[t],
           reset_error_timer(t) \/ UNCHANGED <<timers, isonline>>,
           Fresh(t) \/ UNCHANGED history, UNCHANGED <<sock, bips, answers, waiting>>
    PROVE  Safe(u)'
<1>1. /\ <<"poll", u>> \in Timer \ {<<"err", t>>} /\ <<"err", u>> \in Timer \ {<<"err", t>>}
  BY TimerFacts
<1>2. UNCHANGED <<Err(u), Poll(u), isonline[u]>>
  BY <1>1 DEF reset_error_timer, ErrTimer, Online, Err, Poll, timers, Inv, TypeOK
<1>3. UNCHANGED delay[u] /\ (u \in excused => u \in excused')
  BY DEF Fresh, history, HTypeOK
<1>4. ~(pc = "get_target" /\ arg \in Resolve[u])
  BY HeartbeatAssumption
<1>5. OnItsWay(u) => OnItsWay(u)'
  BY <1>4 DEF OnItsWay, InFlight
<1> QED
  BY <1>2, <1>3, <1>5, Frame

\* Time passes: it is lost time, or nothing of t is on its way and the next poll
\* comes nearer.
LEMMA TickSafe ==
    ASSUME Inv, HTypeOK, HTick, NEW t \in Target, Safe(t)
    PROVE  Safe(t)'
<1>1. /\ pc \notin Gone /\ UNCHANGED <<pc, arg, isonline, sock, bips, answers, waiting, excused>>
  BY DEF HTick, Tick, Blocking, Gone, hosts, network, queue
<1>2. /\ Err(t) \in Int /\ Poll(t) \in Int /\ delay[t] \in Nat
      /\ PollInterval \in Nat /\ ErrInterval \in Nat /\ PollInterval < ErrInterval
      /\ status[<<"poll", t>>] # "off" /\ status[<<"err", t>>] # "off"
  BY <1>1, Numbers
<1>3. Err(t)' = Err(t) - 1 /\ Poll(t)' = Poll(t) - 1
  BY <1>2, TimerFacts DEF HTick, Tick, Err, Poll
<1>4. delay'[t] = IF lag' # lag \/ InFlight(t) THEN Saturate(delay[t] + 1) ELSE delay[t]
  BY DEF HTick
<1>5. OnItsWay(t)' <=> OnItsWay(t)
  BY <1>1 DEF OnItsWay, InFlight
<1>6. CASE lag' # lag \/ InFlight(t)
  <2>1. CASE delay[t] + 1 < ErrInterval
    <3>1. delay'[t] = delay[t] + 1
      BY <1>4, <1>6, <2>1 DEF Saturate
    <3> QED
      BY <1>1, <1>2, <1>3, <1>5, <3>1 DEF Safe
  <2>2. CASE ~(delay[t] + 1 < ErrInterval)
    <3>1. delay'[t] = ErrInterval
      BY <1>4, <1>6, <2>2 DEF Saturate
    <3> QED
      BY <1>2, <3>1 DEF Safe
  <2> QED
    BY <2>1, <2>2
<1>7. CASE ~(lag' # lag \/ InFlight(t))
  <2>1. pc = "wait" /\ sock = <<>> /\ Expired = {}
    <3>1. lag \in Nat
      BY Numbers
    <3> QED
      BY <1>7, <3>1 DEF HTick, Tick
  <2>2. ~OnItsWay(t)
    BY <1>7, <2>1 DEF OnItsWay
  <2>3. Poll(t) > 0
    <3>1. status[<<"poll", t>>] = "pending"
      BY <1>2, <2>1, TimerFacts DEF Inv, QueueInv, TypeOK
    <3> QED
      BY <1>2, <2>1, <3>1, TimerFacts DEF Expired, Poll
  <2>4. delay'[t] = delay[t]
    BY <1>4, <1>7
  <2> QED
    BY <1>1, <1>2, <1>3, <2>2, <2>3, <2>4 DEF Safe
<1> QED
  BY <1>6, <1>7

\* Every step keeps every target safe.
LEMMA AlarmStep == Inv /\ HTypeOK /\ AlarmInv /\ [HNext]_hvars => AlarmInv'
<1> SUFFICES ASSUME Inv, HTypeOK, AlarmInv, [HNext]_hvars, pc' \notin Gone, NEW u \in Target
             PROVE  Safe(u)'
  BY DEF AlarmInv
<1> USE DEF hosts, network, history
<1>1. CASE SendBip
  <2>1. /\ pc = "send_bip" /\ pc' = "run" /\ UNCHANGED <<left, isonline, sock, answers, waiting, excused, delay>>
        /\ \E a \in Resolve[arg] : bips' = bips \cup {a}
    BY <1>1 DEF SendBip, send_bip, Return, timers, queue
  <2>2. Safe(u)
    BY <2>1 DEF AlarmInv, Gone
  <2>3. arg = u => InFlight(u)'
    BY <2>1 DEF InFlight
  <2>4. InFlight(u) => InFlight(u)'
    BY <2>1 DEF InFlight
  <2>5. OnItsWay(u) => OnItsWay(u)'
    BY <2>1, <2>3, <2>4 DEF OnItsWay
  <2> QED
    BY <2>1, <2>2, <2>5, Frame DEF Err, Poll
<1>2. CASE SendFails
  <2>1. /\ pc = "send_bip" /\ pc' = "run" /\ UNCHANGED <<left, isonline, sock, bips, answers, waiting, delay>>
        /\ excused' = excused \cup {arg}
    BY <1>2 DEF SendFails, send_bip_fails, Return, Fault, timers, queue
  <2>2. Safe(u)
    BY <2>1 DEF AlarmInv, Gone
  <2>3. CASE arg = u
    BY <2>1, <2>3 DEF Safe
  <2>4. CASE arg # u
    <3>1. OnItsWay(u) => OnItsWay(u)'
      BY <2>1, <2>4 DEF OnItsWay, InFlight
    <3> QED
      BY <2>1, <2>2, <3>1, Frame DEF Err, Poll
  <2> QED
    BY <2>3, <2>4
<1>3. ASSUME NEW t \in Target, Hear(t) PROVE Safe(u)'
  <2>1. /\ pc = "get_target" /\ Answered(t) /\ UNCHANGED <<sock, bips, answers, waiting>>
        /\ IF isonline[t] THEN Fresh(t) ELSE UNCHANGED history
    BY <1>3 DEF Hear, get_target, queue
  <2>2. Safe(u)
    BY <2>1 DEF AlarmInv, Gone
  <2>3. arg \in Resolve[t]
    <3>1. PICK r \in Resolution : r[t] = arg
      BY <1>3 DEF Hear, get_target
    <3>2. arg \in Addr /\ r[t] \in Resolve[t] \cup {None}
      BY <2>1, <3>1 DEF Resolution, Inv, TypeOK
    <3> QED
      BY <3>1, <3>2, ConstantsAssumption
  <2>4. CASE u # t
    <3>1. reset_error_timer(t) \/ UNCHANGED <<timers, isonline>>
      BY <2>1 DEF Answered
    <3>2. Fresh(t) \/ UNCHANGED history
      BY <2>1
    <3> QED
      BY <2>1, <2>2, <2>3, <2>4, <3>1, <3>2, HearOthers
  <2>5. CASE u = t /\ isonline[t]
    <3>1. reset_error_timer(t) /\ Fresh(t) /\ pc \notin Gone
      BY <2>1, <2>5 DEF Answered, Gone
    <3> QED
      BY <2>5, <3>1, FreshSafe
  <2>6. CASE u = t /\ ~isonline[t]
    BY <2>1, <2>6 DEF Answered, Safe
  <2> QED
    BY <2>4, <2>5, <2>6
<1>4. CASE Mishear
  <2>1. /\ pc = "get_target" /\ UNCHANGED <<left, isonline, sock, bips, answers, waiting, delay>>
        /\ excused' = excused \cup At(arg)
    BY <1>4 DEF Mishear, get_target_null, Fault, timers, queue
  <2>2. Safe(u)
    BY <2>1 DEF AlarmInv, Gone
  <2>3. CASE arg \in Resolve[u]
    BY <2>1, <2>3 DEF Safe, At
  <2>4. CASE arg \notin Resolve[u]
    <3>1. OnItsWay(u) => OnItsWay(u)'
      BY <2>1, <2>4 DEF OnItsWay, InFlight
    <3> QED
      BY <2>1, <2>2, <3>1, Frame DEF Err, Poll
  <2> QED
    BY <2>3, <2>4
<1>5. CASE Welcome
  <2>1. /\ pc = "up" /\ arg \in Target /\ reset_error_timer(arg) /\ Fresh(arg)
        /\ UNCHANGED <<sock, bips, answers, waiting>>
    BY <1>5 DEF Welcome, UpNotified, queue, Inv, TypeOK
  <2>2. Safe(u) /\ pc \notin Gone
    BY <2>1 DEF AlarmInv, Gone
  <2>3. CASE u = arg
    BY <2>1, <2>2, <2>3, FreshSafe
  <2>4. CASE u # arg
    BY <2>1, <2>2, <2>4, HearOthers
  <2> QED
    BY <2>3, <2>4
<1>6. ASSUME EnterLoop \/ Dispatch \/ EndIteration \/ DownNotified, UNCHANGED <<hosts, network, history>>
      PROVE  Safe(u)'
  <2>1. /\ pc \in {"starting", "wait", "run", "down"} /\ UNCHANGED <<left, isonline, sock>>
    BY <1>6 DEF EnterLoop, Dispatch, EndIteration, DownNotified, Return, timers, queue
  <2>2. Safe(u)
    BY <2>1 DEF AlarmInv, Gone
  <2>3. OnItsWay(u) => OnItsWay(u)'
    BY <1>6, <2>1 DEF OnItsWay, InFlight
  <2> QED
    BY <1>6, <2>1, <2>2, <2>3, Frame DEF Err, Poll
<1>7. ASSUME handle_answer \/ handle_answer_fails, UNCHANGED <<hosts, network, history>>
      PROVE  Safe(u)'
  <2>1. /\ pc = "recv" /\ UNCHANGED <<left, isonline>> /\ sock' = Tail(sock)
        /\ Head(sock) = None \/ (pc' = "get_target" /\ arg' = Head(sock))
    BY <1>7 DEF handle_answer, handle_answer_fails, timers
  <2>2. Safe(u)
    BY <2>1 DEF AlarmInv, Gone
  <2>3. InFlight(u) => InFlight(u)'
    BY <1>7 DEF InFlight
  <2>4. ASSUME NEW i \in 1..Len(sock), sock[i] \in Resolve[u] PROVE OnItsWay(u)'
    <3>0. sock \in Seq(Addr \cup {None}) /\ None \notin Resolve[u]
      BY ConstantsAssumption DEF Inv, TypeOK
    <3>1. CASE i = 1
      <4>1. sock # <<>> /\ Head(sock) = sock[1]
        BY <2>4, <3>0, <3>1
      <4>2. pc' = "get_target" /\ arg' = sock[1]
        BY <2>1, <2>4, <3>0, <3>1, <4>1
      <4> QED
        BY <2>4, <3>1, <4>2 DEF OnItsWay
    <3>2. CASE i # 1
      <4>1. sock # <<>> /\ i - 1 \in 1..(Len(sock) - 1)
        BY <2>4, <3>0, <3>2
      <4>2. i - 1 \in 1..Len(Tail(sock)) /\ Tail(sock)[i - 1] = sock[i]
        BY <3>0, <4>1
      <4> QED
        BY <2>1, <2>4, <4>2 DEF OnItsWay
    <3> QED
      BY <3>1, <3>2
  <2>5. OnItsWay(u) => OnItsWay(u)'
    BY <2>1, <2>3, <2>4 DEF OnItsWay
  <2> QED
    BY <1>7, <2>1, <2>2, <2>5, Frame DEF Err, Poll
<1>8. ASSUME NEW t \in Target, handle_poll_event(t) \/ handle_err_event(t), UNCHANGED <<hosts, network, history>>
      PROVE  Safe(u)'
  <2>1. PICK k \in {"poll", "err"} : /\ Callback(k, t)
                                    /\ \/ k = "poll" /\ handle_poll_event(t)
                                       \/ k = "err" /\ handle_err_event(t)
    BY <1>8 DEF handle_poll_event, handle_err_event
  <2>2. /\ pc = "run" /\ UNCHANGED sock /\ \A v \in Target \ {t} : isonline'[v] = isonline[v]
    BY <1>8, <2>1 DEF Callback, queue, handle_poll_event, handle_err_event, Inv, TypeOK
  <2>3. Safe(u)
    BY <2>2 DEF AlarmInv, Gone
  <2>4. <<k, t>> \in Timer /\ status[<<k, t>>] = "active" /\ Rearm(<<k, t>>)
    BY <2>1, TimerFacts DEF Callback, NextTimer, Timer
  <2>5. \A f \in Timer \ {<<k, t>>} : left'[f] = left[f]
    BY <2>4, RearmFacts DEF Inv
  <2>6. OnItsWay(u) => OnItsWay(u)'
    BY <1>8, <2>2 DEF OnItsWay, InFlight
  <2>7. CASE u # t
    <3>1. UNCHANGED <<Err(u), Poll(u)>>
      BY <2>5, <2>7, TimerFacts DEF Err, Poll
    <3> QED
      BY <1>8, <2>2, <2>3, <2>6, <2>7, <3>1, Frame
  <2>8. CASE u = t /\ k = "poll" /\ handle_poll_event(t)
    <3>1. Err(u)' = Err(u) /\ OnItsWay(u)' /\ isonline' = isonline
      BY <2>5, <2>8, TimerFacts DEF Err, OnItsWay, handle_poll_event
    <3> QED
      BY <1>8, <2>3, <3>1 DEF Safe
  <2>9. CASE u = t /\ handle_err_event(t)
    <3>1. ~isonline'[t]
      BY <2>9 DEF handle_err_event, Inv, TypeOK
    <3> QED
      BY <2>9, <3>1 DEF Safe
  <2> QED
    BY <2>1, <2>7, <2>8, <2>9
<1>9. CASE StopStart
  <2>1. Restart
    BY <1>9 DEF StopStart, handle_signal, Exit, Gone
  <2> QED
    BY <2>1 DEF Restart, Safe
<1>10. CASE HTick
  <2>1. Safe(u)
    BY <1>10 DEF AlarmInv, HTick, Tick, Blocking, Gone
  <2> QED
    BY <1>10, <2>1, TickSafe
<1>11. CASE SocketError \/ \E a \in Addr : Answer(a) \/ Recover(a) \/ Receive(a) \/ Deliver(a)
  <2>1. /\ UNCHANGED <<pc, arg, left, isonline, excused, delay>>
    BY <1>11 DEF SocketError, Answer, Recover, Receive, Deliver, Arrive, vars, loop, timers
  <2>2. Safe(u)
    BY <2>1 DEF AlarmInv
  <2>3. OnItsWay(u) => OnItsWay(u)'
    <3>1. ASSUME NEW a \in Addr \cup {None}, Arrive(a),
                 \A b \in Addr : b \in answers => b \in answers' \/ b = a, UNCHANGED <<hosts, bips>>
          PROVE  OnItsWay(u) => OnItsWay(u)'
      <4>1. sock \in Seq(Addr \cup {None}) /\ sock' = Append(sock, a) /\ Resolve[u] \subseteq Addr
        BY <3>1, ConstantsAssumption DEF Arrive, Inv, TypeOK
      <4>2. Len(sock') = Len(sock) + 1 /\ sock'[Len(sock) + 1] = a /\ Len(sock) \in Nat
            /\ \A i \in 1..Len(sock) : sock'[i] = sock[i]
        BY <4>1
      <4>3. Len(sock) + 1 \in 1..Len(sock') /\ \A i \in 1..Len(sock) : i \in 1..Len(sock')
        BY <4>2
      <4>4. a \in Resolve[u] => OnItsWay(u)'
        BY <4>2, <4>3 DEF OnItsWay
      <4>5. a \notin Resolve[u] /\ InFlight(u) => InFlight(u)'
        BY <3>1, <4>1 DEF InFlight
      <4> QED
        BY <2>1, <4>2, <4>3, <4>4, <4>5 DEF OnItsWay
    <3>2. CASE SocketError
      BY <3>1, <3>2 DEF SocketError
    <3>3. ASSUME NEW a \in Addr, Deliver(a) PROVE OnItsWay(u) => OnItsWay(u)'
      BY <3>1, <3>3 DEF Deliver
    <3>4. ASSUME NEW a \in Addr, Answer(a) \/ Recover(a) \/ Receive(a) PROVE OnItsWay(u) => OnItsWay(u)'
      <4>1. UNCHANGED sock
        BY <3>4 DEF Answer, Recover, Receive, vars
      <4>2. InFlight(u) => InFlight(u)'
        <5>1. Resolve[u] \subseteq Addr /\ HostMax \in Nat /\ waiting[a] \in 0..HostMax
          BY ConstantsAssumption, HeartbeatAssumption DEF HTypeOK
        <5>2. waiting \in [Addr -> 0..HostMax]
          BY DEF HTypeOK
        <5>3. CASE Answer(a)
          BY <5>1, <5>2, <5>3 DEF Answer, InFlight
        <5>4. CASE Recover(a)
          BY <5>4 DEF Recover, InFlight
        <5>5. CASE Receive(a)
          BY <5>1, <5>2, <5>5 DEF Receive, InFlight
        <5> QED
          BY <3>4, <5>3, <5>4, <5>5
      <4> QED
        BY <2>1, <4>1, <4>2 DEF OnItsWay
    <3> QED
      BY <1>11, <3>2, <3>3, <3>4
  <2> QED
    BY <2>1, <2>2, <2>3, Frame DEF Err, Poll
<1>12. ASSUME NEW a \in Addr, Crash(a) \/ Lose(a) PROVE Safe(u)'
  <2>1. UNCHANGED <<pc, arg, left, isonline, sock, delay>> /\ excused' = excused \cup At(a)
    BY <1>12 DEF Crash, Lose, Fault, vars
  <2>2. Safe(u)
    BY <2>1 DEF AlarmInv
  <2>3. CASE a \in Resolve[u]
    BY <2>1, <2>3 DEF Safe, At
  <2>4. CASE a \notin Resolve[u]
    <3>1. InFlight(u) => InFlight(u)'
      BY <1>12, <2>4, ConstantsAssumption DEF Crash, Lose, InFlight, HTypeOK
    <3>2. OnItsWay(u) => OnItsWay(u)'
      BY <2>1, <3>1 DEF OnItsWay
    <3> QED
      BY <2>1, <2>2, <3>2, Frame DEF Err, Poll
  <2> QED
    BY <2>3, <2>4
<1>13. CASE UNCHANGED hvars
  <2>1. Safe(u)
    BY <1>13 DEF AlarmInv, hvars, vars
  <2>2. OnItsWay(u) => OnItsWay(u)'
    BY <1>13 DEF hvars, vars, OnItsWay, InFlight
  <2> QED
    BY <1>13, <2>1, <2>2, Frame DEF hvars, vars, Err, Poll
<1>14. CASE OtherStep
  BY <1>6, <1>7, <1>8, <1>14 DEF OtherStep
<1> QED
  BY <1>1, <1>2, <1>3, <1>4, <1>5, <1>9, <1>10, <1>11, <1>12, <1>13, <1>14 DEF HNext, HStep

\* No false alarm: "down" takes a fault or err_interval - poll_interval of lost
\* time, for any targets, intervals and delays.
THEOREM Accuracy == HSpec => NoFalseAlarm
<1>1. HInit => AlarmInv
  BY DEF HInit, Init, AlarmInv, Safe
<1>2. Inv /\ AlarmInv /\ HTypeOK /\ [HNext]_hvars =>
        [\A t \in Target : told[t] = "up" /\ told'[t] = "down" =>
            t \in excused \/ delay[t] >= ErrInterval - PollInterval]_hvars
  <2> SUFFICES ASSUME Inv, AlarmInv, HTypeOK, HNext, NEW t \in Target,
                      told[t] = "up", told'[t] = "down",
                      t \notin excused, ~(delay[t] >= ErrInterval - PollInterval)
               PROVE  FALSE
    OBVIOUS
  <2>1. PICK u \in Target : handle_err_event(u) /\ isonline[u] /\ AnnounceDown(u)
    BY DEF HNext, HStep, SendBip, SendFails, Hear, Mishear, Welcome, OtherStep, StopStart, HTick,
           SocketError, Answer, Crash, Recover, Receive, Deliver, Lose, vars,
           EnterLoop, Dispatch, EndIteration, DownNotified, handle_poll_event, handle_err_event,
           handle_answer, handle_answer_fails, send_bip, send_bip_fails, get_target, Answered,
           get_target_null, UpNotified, handle_signal, Exit, Restart, Arrive, Tick, Inv, TypeOK
  <2>2. u = t
    BY <2>1 DEF AnnounceDown, Inv, TypeOK
  <2>3. pc = "run" /\ status[<<"err", t>>] = "active"
    BY <2>1, <2>2 DEF handle_err_event, Callback, NextTimer
  <2>4. Err(t) <= 0
    BY <2>3, TimerFacts DEF Inv, QueueInv, Err
  <2>5. Safe(t)
    BY <2>3 DEF AlarmInv, Gone
  <2>6. /\ Err(t) \in Int /\ delay[t] \in Nat /\ PollInterval \in Nat /\ ErrInterval \in Nat
    BY Numbers
  <2>7. Err(t) >= ErrInterval - PollInterval - delay[t]
    BY <2>1, <2>2, <2>5, <2>6 DEF Safe
  <2> QED
    BY <2>4, <2>6, <2>7
<1>3. HSpec => []AlarmInv
  BY <1>1, AlarmStep, MonitorInvariance, HTypeCorrect, PTL DEF HSpec
<1> QED
  BY <1>2, <1>3, MonitorInvariance, HTypeCorrect, PTL DEF HSpec, NoFalseAlarm
=============================================================================
