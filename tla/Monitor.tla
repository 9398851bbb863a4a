------------------------------- MODULE Monitor -------------------------------
(***************************************************************************)
(* The monitor process (src/src/monitor.c): a single-threaded libevent     *)
(* loop with two persistent timers per target (poll_ev, err_ev) and one    *)
(* UDP socket.  Callbacks run to completion, but getaddrinfo and the       *)
(* Telegram call block them; while they block, time passes, datagrams      *)
(* queue up in the socket and signals arrive.  Time is counted in ticks;   *)
(* left[e] is the time to the deadline of timer e, negative when overdue.  *)
(***************************************************************************)
EXTENDS Integers, Sequences

CONSTANTS
    N,             \* targets_length
    Name,          \* Name[t]: the configured name, several targets may share one
    Addr,          \* socket addresses datagrams come from
    Resolve,       \* Resolve[t]: addresses getaddrinfo may give for host:port of t
    PollInterval,  \* poll_interval, 0 when the configuration omits it
    ErrInterval,   \* err_interval, 0 when the configuration omits it
    MaxLag,        \* bound: ticks the callbacks of one loop iteration may block
    SockMax,       \* bound: datagrams the socket buffer holds, more are dropped
    None           \* no value

Target == 1..N

Timer == {"poll", "err"} \X Target

Names == {Name[t] : t \in Target}

Interval(e) == IF e[1] = "poll" THEN PollInterval ELSE ErrInterval

ASSUME ConstantsAssumption ==
    /\ N \in Nat
    /\ Name \in [Target -> STRING]
    /\ Resolve \in [Target -> SUBSET Addr]
    /\ PollInterval \in Nat
    /\ ErrInterval \in Nat
    /\ MaxLag \in Nat
    /\ SockMax \in Nat
    /\ None \notin Addr

VARIABLES
    pc,           \* where the process is
    arg,          \* the argument of the callback in progress
    lag,          \* now minus the time libevent cached for this iteration
    status,       \* status[e]: "pending" in the heap, "active" (expired, queued) or "off"
    left,         \* left[e]: deadline of e minus now
    isonline,     \* isonline[t]
    sock,         \* queue of udp_server_socket: source addresses, None for a socket error
    ready,        \* history: elements of sock that were there when the iteration began
    clocks,       \* names logtime has a departure time for
    rows,         \* names an interval was inserted for since the process started
    told,         \* history: last notification attempted about t
    quiet,        \* history: time since an answer of t was read, at most ErrInterval
    held          \* history: time since the datagram in hand was read

loop == <<pc, arg, lag>>
queue == <<sock, ready>>
timers == <<status, left>>
log == <<clocks, rows>>
vars == <<pc, arg, lag, status, left, isonline, sock, ready, clocks, rows, told, quiet, held>>

\* The process is in a call that may block, and so in code that must not be
\* re-entered by handle_signal.
Blocking == {"starting", "get_target", "up", "send_bip", "down"}

Gone == {"stopping", "hung", "exited"}

Saturate(d) == IF d < ErrInterval THEN d ELSE ErrInterval

-----------------------------------------------------------------------------
(* main up to event_base_dispatch: timers are armed before the blocking     *)
(* "Starting monitor" message.                                              *)

Init ==
    /\ pc = "starting" /\ arg = None /\ lag = 0
    /\ status = [e \in Timer |-> "pending"]
    /\ left = [e \in Timer |-> Interval(e)]
    /\ isonline = [t \in Target |-> FALSE]
    /\ sock = <<>> /\ ready = 0
    /\ clocks = {} /\ rows = {}
    /\ told = [t \in Target |-> "none"]
    /\ quiet = [t \in Target |-> ErrInterval] /\ held = 0

EnterLoop ==
    /\ pc = "starting"
    /\ pc' = "wait" /\ lag' = 0
    /\ UNCHANGED <<arg, timers, isonline, queue, log, told, quiet, held>>

-----------------------------------------------------------------------------
(* One iteration of event_base_dispatch.  The socket event is queued before *)
(* the expired timers, and those in the order of their deadlines.           *)

Expired == {e \in Timer : status[e] = "pending" /\ left[e] <= 0}

Dispatch ==
    /\ pc = "wait"
    /\ sock # <<>> \/ Expired # {}
    /\ pc' = IF sock # <<>> THEN "recv" ELSE "run"
    /\ lag' = 0
    /\ status' = [e \in Timer |-> IF e \in Expired THEN "active" ELSE status[e]]
    /\ ready' = Len(sock)
    /\ UNCHANGED <<arg, left, isonline, sock, log, told, quiet, held>>

EndIteration ==
    /\ pc = "run"
    /\ \A e \in Timer : status[e] # "active"
    /\ pc' = "wait" /\ lag' = 0 /\ ready' = 0
    /\ UNCHANGED <<arg, timers, isonline, sock, log, told, quiet, held>>

NextTimer(e) ==
    /\ status[e] = "active"
    /\ \A f \in Timer : status[f] = "active" => left[e] <= left[f]

\* Mutant: a timer is put back one interval after its last deadline, however long
\* that is past.
Rearm_behind(e) ==
    /\ status' = [status EXCEPT ![e] = IF Interval(e) > 0 THEN "pending" ELSE "off"]
    /\ left' = [left EXCEPT ![e] = @ + Interval(e)]

\* event_persist_closure: before the callback runs, a persistent timer is put
\* back one interval after its last deadline, or after the cached time when that
\* is already past; a timer with interval 0 is not put back.
Rearm(e) ==
    LET next == left[e] + Interval(e)
    IN /\ status' = [status EXCEPT ![e] = IF Interval(e) > 0 THEN "pending" ELSE "off"]
       /\ left' = [left EXCEPT ![e] = IF next < -lag THEN Interval(e) - lag ELSE next]

\* The callback of timer k of target t begins.
Callback(k, t) ==
    /\ pc = "run" /\ NextTimer(<<k, t>>)
    /\ Rearm(<<k, t>>)
    /\ UNCHANGED <<lag, queue, log, quiet, held>>

\* A call that may block returns and the loop goes on.
Return ==
    /\ pc' = "run" /\ arg' = None
    /\ UNCHANGED lag

-----------------------------------------------------------------------------
(* poll_ev                                                                  *)

\* Mutant: poll_ev is created without its target as argument.
handle_poll_event_null(t) ==
    Callback("poll", t) /\ pc' = "send_bip" /\ arg' = None /\ UNCHANGED <<isonline, told>>

\* Mutant: only targets that are online are polled.
handle_poll_event_online(t) ==
    /\ Callback("poll", t) /\ UNCHANGED <<isonline, told>>
    /\ IF isonline[t] THEN pc' = "send_bip" /\ arg' = t ELSE UNCHANGED <<pc, arg>>

handle_poll_event(t) ==
    Callback("poll", t) /\ pc' = "send_bip" /\ arg' = t /\ UNCHANGED <<isonline, told>>

\* The lookup or sendto fails: nothing is sent, no departure is noted.
send_bip_fails ==
    /\ pc = "send_bip"
    /\ Return
    /\ UNCHANGED <<timers, isonline, queue, log, told, quiet, held>>

send_bip ==
    /\ pc = "send_bip"
    /\ Resolve[arg] # {}
    /\ clocks' = clocks \cup {Name[arg]}
    /\ Return
    /\ UNCHANGED <<timers, isonline, queue, rows, told, quiet, held>>

-----------------------------------------------------------------------------
(* err_ev                                                                   *)

AnnounceDown(t) == pc' = "down" /\ arg' = t /\ told' = [told EXCEPT ![t] = "down"]

\* Mutant: the notification does not depend on isonline.
handle_err_event_always(t) ==
    Callback("err", t) /\ AnnounceDown(t) /\ isonline' = [isonline EXCEPT ![t] = FALSE]

\* Mutant: the target is announced as down but stays online.
handle_err_event_keeps(t) ==
    /\ Callback("err", t) /\ UNCHANGED isonline
    /\ IF isonline[t] THEN AnnounceDown(t) ELSE UNCHANGED <<pc, arg, told>>

handle_err_event(t) ==
    /\ Callback("err", t)
    /\ \/ isonline[t] /\ AnnounceDown(t) /\ isonline' = [isonline EXCEPT ![t] = FALSE]
       \/ ~isonline[t] /\ UNCHANGED <<pc, arg, isonline, told>>

\* telegram_send_message returns; whether Telegram took the message is ignored.
DownNotified ==
    /\ pc = "down"
    /\ Return
    /\ UNCHANGED <<timers, isonline, queue, log, told, quiet, held>>

-----------------------------------------------------------------------------
(* listen_ev: one datagram per iteration                                    *)

handle_answer ==
    /\ pc = "recv"
    /\ Head(sock) # None
    /\ sock' = Tail(sock) /\ ready' = ready - 1
    /\ held' = 0
    /\ pc' = "get_target" /\ arg' = Head(sock)
    /\ UNCHANGED <<lag, timers, isonline, log, told, quiet>>

\* recvfrom reports a socket error
handle_answer_fails ==
    /\ pc = "recv"
    /\ Head(sock) = None
    /\ sock' = Tail(sock) /\ ready' = ready - 1
    /\ pc' = "run"
    /\ UNCHANGED <<arg, lag, timers, isonline, log, told, quiet, held>>

\* What the lookups of get_target find: for every target one of its addresses,
\* or None when getaddrinfo fails.
Resolution == {r \in [Target -> Addr \cup {None}] : \A t \in Target : r[t] \in Resolve[t] \cup {None}}

\* isonline and the deadline of err_ev after reset_error_timer.
Online(t) == isonline' = [isonline EXCEPT ![t] = TRUE]
ErrTimer(t, st, l) ==
    status' = [status EXCEPT ![<<"err", t>>] = st] /\ left' = [left EXCEPT ![<<"err", t>>] = l]

\* Mutant: the error timer is not restarted.
reset_error_timer_runs_on(t) == Online(t) /\ UNCHANGED timers

\* Mutant: the error timer is stopped and not added again.
reset_error_timer_deleted(t) == Online(t) /\ ErrTimer(t, "off", left[<<"err", t>>])

\* Mutant: the error timer is restarted one tick too long.
reset_error_timer_late(t) == Online(t) /\ ErrTimer(t, "pending", ErrInterval + 1 - lag)

\* reset_error_timer after its notification: evtimer_del takes err_ev out of the
\* heap or out of the queue of active events, evtimer_add counts from the cached
\* time.
reset_error_timer(t) == Online(t) /\ ErrTimer(t, "pending", ErrInterval - lag)

\* Mutant: an interval is logged for a clock that was never started.
logtime_set_record_unstarted(t) == rows' = rows \cup {Name[t]}

logtime_set_record(t) == rows' = IF Name[t] \in clocks THEN rows \cup {Name[t]} ELSE rows

\* The datagram in hand is attributed to t.
Answered(t) ==
    /\ quiet' = [quiet EXCEPT ![t] = Saturate(held)]
    /\ \/ /\ ~isonline[t]
          /\ told' = [told EXCEPT ![t] = "up"]
          /\ pc' = "up" /\ arg' = t
          /\ UNCHANGED <<lag, timers, isonline, rows>>
       \/ /\ isonline[t]
          /\ reset_error_timer(t) /\ logtime_set_record(t)
          /\ Return
          /\ UNCHANGED told

\* The first target whose lookup gives the sender's address has answered.
get_target(t) ==
    /\ pc = "get_target"
    /\ \E r \in Resolution : r[t] = arg /\ \A u \in 1..(t - 1) : r[u] # arg
    /\ Answered(t)
    /\ held' = 0
    /\ UNCHANGED <<queue, clocks>>

\* No lookup gives the sender's address.
get_target_null ==
    /\ pc = "get_target"
    /\ \E r \in Resolution : \A t \in Target : r[t] # arg
    /\ Return
    /\ held' = 0
    /\ UNCHANGED <<timers, isonline, queue, log, told, quiet>>

UpNotified ==
    /\ pc = "up"
    /\ reset_error_timer(arg) /\ logtime_set_record(arg)
    /\ Return
    /\ UNCHANGED <<queue, clocks, told, quiet, held>>

-----------------------------------------------------------------------------
(* Signals, crashes and restarts (Restart=always in the unit file)          *)

\* handle_signal interrupts the process anywhere; interrupting a call that is
\* not async-signal-safe it may block on a lock that call holds.
handle_signal ==
    /\ pc \notin Gone
    /\ pc' \in IF pc \in Blocking THEN {"stopping", "hung"} ELSE {"stopping"}
    /\ arg' = None
    /\ UNCHANGED <<lag, timers, isonline, queue, log, told, quiet, held>>

\* The handler's message is out and it exits; or the process is killed, or
\* call_telegram_api exits because libcurl does not initialise.
Exit ==
    /\ pc # "exited"
    /\ pc' = "exited" /\ arg' = None /\ sock' = <<>> /\ ready' = 0
    /\ UNCHANGED <<lag, timers, isonline, log, told, quiet, held>>

Restart ==
    /\ pc = "exited"
    /\ pc' = "starting" /\ arg' = None /\ lag' = 0
    /\ status' = [e \in Timer |-> "pending"]
    /\ left' = [e \in Timer |-> Interval(e)]
    /\ isonline' = [t \in Target |-> FALSE]
    /\ sock' = <<>> /\ ready' = 0
    /\ clocks' = {} /\ rows' = {}
    /\ told' = [t \in Target |-> "none"]
    /\ quiet' = [t \in Target |-> ErrInterval] /\ held' = 0

-----------------------------------------------------------------------------
(* Environment                                                              *)

\* A datagram from a, or an error (None), reaches the socket; what arrives after
\* a stop signal is never read.
Arrive(a) ==
    /\ pc \notin Gone
    /\ Len(sock) < SockMax
    /\ sock' = Append(sock, a)
    /\ UNCHANGED <<loop, ready, timers, isonline, log, told, quiet, held>>

\* Time passes while the loop waits with nothing to do, in a blocking call, and
\* while callbacks run.
Tick ==
    /\ \/ pc = "wait" /\ sock = <<>> /\ Expired = {} /\ UNCHANGED lag
       \/ pc \in Blocking \cup {"run"} /\ lag < MaxLag /\ lag' = lag + 1
    /\ left' = [e \in Timer |-> IF status[e] = "off" THEN left[e] ELSE left[e] - 1]
    /\ quiet' = [t \in Target |-> Saturate(quiet[t] + 1)]
    /\ held' = IF pc = "get_target" THEN held + 1 ELSE held
    /\ UNCHANGED <<pc, arg, status, isonline, queue, log, told>>

-----------------------------------------------------------------------------
\* The monitor's own steps.
Step ==
    \/ EnterLoop \/ Dispatch \/ EndIteration
    \/ \E t \in Target : handle_poll_event(t) \/ handle_err_event(t) \/ get_target(t)
    \/ send_bip \/ send_bip_fails \/ DownNotified
    \/ handle_answer \/ handle_answer_fails \/ get_target_null \/ UpNotified

Next ==
    \/ Step
    \/ handle_signal \/ Exit \/ Restart
    \/ \E a \in Addr \cup {None} : Arrive(a)
    \/ Tick

Spec == Init /\ [][Next]_vars

\* Calls return and the loop goes on (WF); time does not stop, however many
\* datagrams arrive (SF: Tick is disabled whenever the loop is busy).
Fairness == WF_vars(Step) /\ SF_vars(Tick)

LiveSpec == Spec /\ Fairness

-----------------------------------------------------------------------------
(* Properties                                                               *)

\* Every variable has its type; a callback in progress has the argument its
\* registration in main gives it.
TypeOK ==
    /\ pc \in Blocking \cup Gone \cup {"wait", "recv", "run"}
    /\ pc = "get_target" => arg \in Addr
    /\ pc \in {"up", "down", "send_bip"} => arg \in Target
    /\ lag \in 0..MaxLag
    /\ status \in [Timer -> {"pending", "active", "off"}]
    /\ left \in [Timer -> Int]
    /\ isonline \in [Target -> BOOLEAN]
    /\ sock \in Seq(Addr \cup {None})
    /\ ready \in 0..Len(sock)
    /\ pc = "recv" => ready > 0
    /\ clocks \subseteq Names
    /\ rows \subseteq Names
    /\ told \in [Target -> {"none", "up", "down"}]
    /\ quiet \in [Target -> 0..ErrInterval]
    /\ held \in Nat

\* No target drops out of monitoring: while the monitor runs, poll_ev and
\* err_ev of every target stay scheduled, whatever order of expiry, deletion
\* and re-adding, and are due within one interval of the cached time.
Watched ==
    pc \notin Gone =>
        \A e \in Timer : Interval(e) > 0 => status[e] # "off" /\ left[e] <= Interval(e)

\* Lateness does not pile up: however often lookups and notifications block the
\* loop, no callback runs later than twice what one iteration may block.  With
\* TimerMeasuresSilence: a silent target is declared down in bounded time.
Prompt == pc \notin Gone => \A e \in Timer : status[e] # "off" => left[e] >= -(2 * MaxLag)

\* reset_error_timer makes err_ev of an online target measure its silence: its
\* deadline is ErrInterval after the target's last answer was read, no matter
\* how long lookups and notifications blocked the loop in between.
TimerMeasuresSilence ==
    pc \notin Gone =>
        \A t \in Target : isonline[t] =>
            /\ status[<<"err", t>>] # "off"
            /\ quiet[t] = Saturate(ErrInterval - left[<<"err", t>>])

\* Whenever the loop waits with no timer due, a target it believes online has
\* answered within the last ErrInterval: no silent target goes unnoticed.
NoStaleOnline ==
    pc = "wait" /\ Expired = {} =>
        \A t \in Target : isonline[t] => quiet[t] < ErrInterval

\* The user's picture and the monitor's agree: the last notification about t is
\* "up" exactly when t is online, or about to be (reset_error_timer notifies
\* before it sets isonline, handle_err_event after it clears it).
ToldIsOnline ==
    pc \notin Gone =>
        \A t \in Target : told[t] = "up" <=> isonline[t] \/ (pc = "up" /\ arg = t)

\* handle_answer logs an interval for a name only after a bip was sent to a
\* target of that name and a target of that name was announced as up.
LogSound == rows \subseteq clocks \cap {Name[t] : t \in {u \in Target : told[u] # "none"}}

\* The monitor implements the detector: notifications alternate, starting with
\* "up", and "down" is only announced after ErrInterval without an answer read.
D == INSTANCE Detector

DetectorSpec == D!Spec

\* Unless the process is stopped again and again, handle_poll_event runs for
\* every target again and again.
PolledForever ==
    \/ []<>(pc \in Gone)
    \/ \A t \in Target : []<>(pc = "send_bip" /\ arg = t)

\* Unless the process is stopped again and again, a target whose answers cease
\* for good is eventually offline for good.
SilenceDetected ==
    \/ []<>(pc \in Gone)
    \/ \A t \in Target : <>[](quiet[t] = ErrInterval) => <>[]~isonline[t]

-----------------------------------------------------------------------------
(* Statements of the documentation that the code does not keep              *)

\* README: a target that does not answer gets a "Host down" notification.
SilentIsReported ==
    \/ []<>(pc \in Gone)
    \/ \A t \in Target : <>[](quiet[t] = ErrInterval) => <>(told[t] = "down")

\* README: every response resets the timer, so a target is not declared down
\* while one of its responses has been waiting in the socket since before the
\* loop noticed that the timer ran out.
ResponseResetsTimer ==
    [][\A t \in Target : told[t] # "down" /\ told'[t] = "down" =>
          \A i \in 1..ready : sock[i] \notin Resolve[t]]_vars
=============================================================================
