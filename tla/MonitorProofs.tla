--------------------------- MODULE MonitorProofs ---------------------------
(***************************************************************************)
(* Proofs about the monitor process, for any number of targets, any        *)
(* addresses and any intervals.                                            *)
(***************************************************************************)
EXTENDS Monitor, TLAPS

\* No timer is queued while the loop waits; a queued timer is due.
QueueInv ==
    /\ pc \in {"starting", "wait"} => \A e \in Timer : status[e] # "active"
    /\ \A e \in Timer : status[e] = "active" => left[e] <= 0

\* The time since a datagram was read is the lag of the iteration that reads
\* it: the socket event runs before every timer of its iteration.
HandInv ==
    /\ pc = "recv" => lag = 0
    /\ pc = "get_target" => held = lag /\ \A t \in Target : Saturate(held) <= quiet[t]
    /\ pc = "up" => quiet[arg] = Saturate(lag)

\* The inductive invariant.
Inv ==
    /\ TypeOK
    /\ QueueInv
    /\ HandInv
    /\ Watched
    /\ TimerMeasuresSilence
    /\ ToldIsOnline
    /\ LogSound

-----------------------------------------------------------------------------
(* Types                                                                    *)

\* Intervals are natural numbers, and both timers of a target are timers.
LEMMA TimerFacts ==
    /\ \A e \in Timer : Interval(e) \in Nat
    /\ \A t \in Target : <<"poll", t>> \in Timer /\ <<"err", t>> \in Timer
    /\ \A t \in Target : Name[t] \in Names
BY ConstantsAssumption DEF Timer, Interval, Names

\* Re-arming a persistent timer keeps the timers well-typed.
LEMMA RearmType ==
    ASSUME TypeOK, NEW e \in Timer, Rearm(e)
    PROVE  /\ status' \in [Timer -> {"pending", "active", "off"}]
           /\ left' \in [Timer -> Int]
BY TimerFacts DEF TypeOK, Rearm

\* Restarting err_ev and logging the interval keep the state well-typed.
LEMMA ResetType ==
    ASSUME TypeOK, NEW t \in Target, reset_error_timer(t), logtime_set_record(t)
    PROVE  /\ status' \in [Timer -> {"pending", "active", "off"}]
           /\ left' \in [Timer -> Int]
           /\ isonline' \in [Target -> BOOLEAN]
           /\ rows' \subseteq Names
<1> USE TimerFacts, ConstantsAssumption DEF TypeOK, reset_error_timer, Online, ErrTimer, logtime_set_record
<1>1. status' \in [Timer -> {"pending", "active", "off"}]
  OBVIOUS
<1>2. left' \in [Timer -> Int]
  <2>1. ErrInterval - lag \in Int
    OBVIOUS
  <2> QED
    BY <2>1
<1>3. isonline' \in [Target -> BOOLEAN]
  OBVIOUS
<1>4. rows' \subseteq Names
  OBVIOUS
<1> QED
  BY <1>1, <1>2, <1>3, <1>4

\* Every step of the monitor and of its environment keeps the types.
LEMMA TypeStep == TypeOK /\ [Next]_vars => TypeOK'
<1> SUFFICES ASSUME TypeOK, [Next]_vars PROVE TypeOK'
  OBVIOUS
<1> USE ConstantsAssumption DEF Blocking, Gone, loop, timers, queue, log
<1>1. CASE EnterLoop
  BY <1>1 DEF TypeOK, EnterLoop
<1>2. CASE Dispatch
  BY <1>2 DEF TypeOK, Dispatch
<1>3. CASE EndIteration
  BY <1>3 DEF TypeOK, EndIteration
<1>4. ASSUME NEW t \in Target, handle_poll_event(t) PROVE TypeOK'
  BY <1>4, RearmType, TimerFacts DEF TypeOK, handle_poll_event, Callback
<1>5. ASSUME NEW t \in Target, handle_err_event(t) PROVE TypeOK'
  BY <1>5, RearmType, TimerFacts DEF TypeOK, handle_err_event, Callback, AnnounceDown
<1>6. CASE send_bip
  BY <1>6, TimerFacts DEF TypeOK, send_bip, Return, Return
<1>7. CASE send_bip_fails
  BY <1>7 DEF TypeOK, send_bip_fails, Return
<1>8. CASE DownNotified
  BY <1>8 DEF TypeOK, DownNotified, Return
<1>9. CASE handle_answer
  BY <1>9 DEF TypeOK, handle_answer
<1>10. CASE handle_answer_fails
  BY <1>10 DEF TypeOK, handle_answer_fails
<1>11. ASSUME NEW t \in Target, get_target(t) PROVE TypeOK'
  <2>1. held' \in Nat /\ UNCHANGED <<lag, sock, ready, clocks>>
    BY <1>11 DEF get_target, Answered, Return
  <2>2. quiet' \in [Target -> 0..ErrInterval]
    BY <1>11 DEF TypeOK, get_target, Answered, Saturate
  <2>3. CASE isonline[t]
    <3>1. reset_error_timer(t) /\ logtime_set_record(t) /\ pc' = "run" /\ UNCHANGED told
      BY <1>11, <2>3 DEF get_target, Answered, Return
    <3> QED
      BY <2>1, <2>2, <3>1, ResetType DEF TypeOK
  <2>4. CASE ~isonline[t]
    <3>1. /\ told' = [told EXCEPT ![t] = "up"]
          /\ pc' = "up" /\ arg' = t
          /\ UNCHANGED <<timers, isonline, rows>>
      BY <1>11, <2>4 DEF get_target, Answered
    <3> QED
      BY <2>1, <2>2, <3>1 DEF TypeOK
  <2> QED
    BY <2>3, <2>4
<1>11a. CASE get_target_null
  BY <1>11a DEF TypeOK, get_target_null, Return
<1>12. CASE UpNotified
  BY <1>12, ResetType DEF TypeOK, UpNotified, Return
<1>13. CASE handle_signal
  BY <1>13 DEF TypeOK, handle_signal
<1>14. CASE Exit
  BY <1>14 DEF TypeOK, Exit
<1>15. CASE Restart
  BY <1>15, TimerFacts DEF TypeOK, Restart
<1>16. ASSUME NEW a \in Addr \cup {None}, Arrive(a) PROVE TypeOK'
  BY <1>16 DEF TypeOK, Arrive
<1>17. CASE Tick
  BY <1>17 DEF TypeOK, Tick, Saturate
<1>18. CASE UNCHANGED vars
  BY <1>18 DEF TypeOK, vars
<1> QED
  BY <1>1, <1>2, <1>3, <1>4, <1>5, <1>6, <1>7, <1>8, <1>9, <1>10, <1>11,
     <1>12, <1>13, <1>14, <1>15, <1>16, <1>17, <1>18, <1>11a DEF Next, Step

\* Type correctness of the monitor process.
THEOREM TypeCorrect == Spec => []TypeOK
<1>1. Init => TypeOK
  BY ConstantsAssumption, TimerFacts DEF Init, TypeOK, Blocking
<1> QED
  BY <1>1, TypeStep, PTL DEF Spec

-----------------------------------------------------------------------------
(* The inductive invariant                                                  *)

\* What re-arming the due timer e does: it leaves the queue, it is due within its
\* interval, and no other timer is touched.
LEMMA RearmFacts ==
    ASSUME TypeOK, QueueInv, NEW e \in Timer, status[e] = "active", Rearm(e)
    PROVE  /\ \A f \in Timer \ {e} : status'[f] = status[f] /\ left'[f] = left[f]
           /\ status'[e] # "active"
           /\ Interval(e) > 0 => status'[e] # "off" /\ left'[e] <= Interval(e)
<1>1. \A f \in Timer \ {e} : status'[f] = status[f] /\ left'[f] = left[f]
  BY DEF TypeOK, Rearm
<1>2. status'[e] = IF Interval(e) > 0 THEN "pending" ELSE "off"
  BY DEF TypeOK, Rearm
<1>3. left[e] <= 0 /\ left[e] \in Int /\ lag \in Nat /\ Interval(e) \in Nat
  BY TimerFacts, ConstantsAssumption DEF TypeOK, QueueInv
<1>4. left'[e] = IF left[e] + Interval(e) < -lag THEN Interval(e) - lag ELSE left[e] + Interval(e)
  BY DEF TypeOK, Rearm
<1>5. left'[e] <= Interval(e)
  BY <1>3, <1>4
<1> QED
  BY <1>1, <1>2, <1>5

\* What reset_error_timer does to the timers of the other targets and to its own.
LEMMA ResetFacts ==
    ASSUME TypeOK, NEW t \in Target, reset_error_timer(t), logtime_set_record(t)
    PROVE  /\ \A f \in Timer \ {<<"err", t>>} : status'[f] = status[f] /\ left'[f] = left[f]
           /\ status'[<<"err", t>>] = "pending"
           /\ left'[<<"err", t>>] = ErrInterval - lag
           /\ isonline'[t]
           /\ \A u \in Target \ {t} : isonline'[u] = isonline[u]
           /\ rows' \subseteq rows \cup (clocks \cap {Name[t]})
BY TimerFacts DEF TypeOK, reset_error_timer, Online, ErrTimer, logtime_set_record

\* reset_error_timer keeps the invariant when the target is announced as up and
\* its answer was read lag ticks ago.
LEMMA ResetInv ==
    ASSUME Inv, TypeOK', NEW t \in Target, reset_error_timer(t), logtime_set_record(t),
           pc \in {"get_target", "up"}, pc = "up" => arg = t, pc' = "run",
           told[t] = "up", UNCHANGED <<lag, clocks, told>>,
           quiet'[t] = Saturate(lag), \A u \in Target \ {t} : quiet'[u] = quiet[u]
    PROVE  Inv'
<1> USE TimerFacts DEF Inv, Gone
<1>1. /\ \A f \in Timer \ {<<"err", t>>} : status'[f] = status[f] /\ left'[f] = left[f]
      /\ status'[<<"err", t>>] = "pending"
      /\ left'[<<"err", t>>] = ErrInterval - lag
      /\ isonline'[t]
      /\ \A u \in Target \ {t} : isonline'[u] = isonline[u]
      /\ rows' \subseteq rows \cup (clocks \cap {Name[t]})
  BY ResetFacts
<1>2. lag \in Nat /\ ErrInterval \in Nat
  BY ConstantsAssumption DEF TypeOK
<1>3. QueueInv'
  BY <1>1 DEF QueueInv
<1>4. HandInv'
  BY DEF HandInv
<1>5. Watched'
  <2>1. Interval(<<"err", t>>) = ErrInterval
    BY DEF Interval
  <2> QED
    BY <1>1, <1>2, <2>1 DEF Watched
<1>6. TimerMeasuresSilence'
  <2>1. \A u \in Target \ {t} : <<"err", u>> \in Timer \ {<<"err", t>>}
    OBVIOUS
  <2>2. lag = ErrInterval - left'[<<"err", t>>]
    BY <1>1, <1>2
  <2> QED
    BY <1>1, <2>1, <2>2 DEF TimerMeasuresSilence
<1>7. ToldIsOnline'
  BY <1>1 DEF ToldIsOnline
<1>8. LogSound'
  BY <1>1 DEF LogSound
<1> QED
  BY <1>3, <1>4, <1>5, <1>6, <1>7, <1>8

\* Every step keeps the inductive invariant.
LEMMA InvStep == Inv /\ [Next]_vars => Inv'
<1> SUFFICES ASSUME Inv, [Next]_vars PROVE Inv'
  OBVIOUS
<1> TypeOK'
  BY TypeStep DEF Inv
<1> SUFFICES QueueInv' /\ HandInv' /\ Watched' /\ TimerMeasuresSilence' /\ ToldIsOnline' /\ LogSound'
  BY DEF Inv
<1> USE ConstantsAssumption, TimerFacts DEF Inv, Blocking, Gone, loop, timers, queue, log
<1>1. CASE EnterLoop
  BY <1>1 DEF TypeOK, EnterLoop, QueueInv, HandInv, Watched, TimerMeasuresSilence, ToldIsOnline, LogSound
<1>2. CASE Dispatch
  <2> USE <1>2 DEF TypeOK, Dispatch, Expired
  <2>1. QueueInv'
    BY DEF QueueInv
  <2>2. HandInv'
    BY DEF HandInv
  <2>3. Watched'
    BY DEF Watched
  <2>4. TimerMeasuresSilence'
    BY DEF TimerMeasuresSilence
  <2>5. ToldIsOnline' /\ LogSound'
    BY DEF ToldIsOnline, LogSound
  <2> QED
    BY <2>1, <2>2, <2>3, <2>4, <2>5
<1>3. CASE EndIteration
  BY <1>3 DEF TypeOK, EndIteration, QueueInv, HandInv, Watched, TimerMeasuresSilence, ToldIsOnline, LogSound
<1>4. ASSUME NEW t \in Target, handle_poll_event(t) PROVE Inv'
  <2>1. <<"poll", t>> \in Timer /\ status[<<"poll", t>>] = "active" /\ Rearm(<<"poll", t>>)
    BY <1>4 DEF handle_poll_event, Callback, NextTimer
  <2>2. /\ pc = "run" /\ pc' = "send_bip"
        /\ UNCHANGED <<lag, isonline, clocks, rows, told, quiet, held>>
    BY <1>4 DEF handle_poll_event, Callback
  <2>3. /\ \A f \in Timer \ {<<"poll", t>>} : status'[f] = status[f] /\ left'[f] = left[f]
        /\ status'[<<"poll", t>>] # "active"
        /\ Interval(<<"poll", t>>) > 0 =>
              status'[<<"poll", t>>] # "off" /\ left'[<<"poll", t>>] <= Interval(<<"poll", t>>)
    BY <2>1, RearmFacts
  <2>4. QueueInv'
    BY <2>2, <2>3 DEF QueueInv
  <2>5. HandInv' /\ ToldIsOnline' /\ LogSound'
    BY <2>2 DEF HandInv, ToldIsOnline, LogSound
  <2>6. Watched'
    BY <2>2, <2>3 DEF Watched
  <2>7. TimerMeasuresSilence'
    <3>1. \A u \in Target : <<"err", u>> \in Timer \ {<<"poll", t>>}
      OBVIOUS
    <3> QED
      BY <2>2, <2>3, <3>1 DEF TimerMeasuresSilence
  <2> QED
    BY <2>4, <2>5, <2>6, <2>7
<1>5. ASSUME NEW t \in Target, handle_err_event(t) PROVE Inv'
  <2>1. <<"err", t>> \in Timer /\ status[<<"err", t>>] = "active" /\ Rearm(<<"err", t>>)
    BY <1>5 DEF handle_err_event, Callback, NextTimer
  <2>2. /\ pc = "run" /\ pc' \in {"run", "down"}
        /\ UNCHANGED <<lag, clocks, rows, quiet, held>>
    BY <1>5 DEF handle_err_event, Callback, AnnounceDown
  <2>3. /\ ~isonline'[t]
        /\ told'[t] # "up"
        /\ told[t] # "none" => told'[t] # "none"
        /\ \A u \in Target \ {t} : isonline'[u] = isonline[u] /\ told'[u] = told[u]
    BY <1>5 DEF handle_err_event, Callback, AnnounceDown, TypeOK, ToldIsOnline
  <2>4. /\ \A f \in Timer \ {<<"err", t>>} : status'[f] = status[f] /\ left'[f] = left[f]
        /\ status'[<<"err", t>>] # "active"
        /\ Interval(<<"err", t>>) > 0 =>
              status'[<<"err", t>>] # "off" /\ left'[<<"err", t>>] <= Interval(<<"err", t>>)
    BY <2>1, RearmFacts
  <2>5. QueueInv'
    BY <2>2, <2>4 DEF QueueInv
  <2>6. HandInv'
    BY <2>2 DEF HandInv
  <2>7. Watched'
    BY <2>2, <2>4 DEF Watched
  <2>8. TimerMeasuresSilence'
    <3>1. \A u \in Target \ {t} : <<"err", u>> \in Timer \ {<<"err", t>>}
      OBVIOUS
    <3> QED
      BY <2>2, <2>3, <2>4, <3>1 DEF TimerMeasuresSilence
  <2>9. ToldIsOnline'
    BY <2>2, <2>3 DEF ToldIsOnline
  <2>10. LogSound'
    BY <2>2, <2>3 DEF LogSound
  <2> QED
    BY <2>5, <2>6, <2>7, <2>8, <2>9, <2>10
<1>6. CASE send_bip
  BY <1>6 DEF TypeOK, send_bip, Return, QueueInv, HandInv, Watched, TimerMeasuresSilence, ToldIsOnline, LogSound
<1>7. CASE send_bip_fails
  BY <1>7 DEF TypeOK, send_bip_fails, Return, QueueInv, HandInv, Watched, TimerMeasuresSilence, ToldIsOnline, LogSound
<1>8. CASE DownNotified
  BY <1>8 DEF TypeOK, DownNotified, Return, QueueInv, HandInv, Watched, TimerMeasuresSilence, ToldIsOnline, LogSound
<1>9. CASE handle_answer
  BY <1>9 DEF TypeOK, handle_answer, QueueInv, HandInv, Watched, TimerMeasuresSilence, ToldIsOnline, LogSound, Saturate
<1>10. CASE handle_answer_fails
  BY <1>10 DEF TypeOK, handle_answer_fails, QueueInv, HandInv, Watched, TimerMeasuresSilence, ToldIsOnline, LogSound
<1>11. ASSUME NEW t \in Target, get_target(t) PROVE Inv'
  <2>1. /\ pc = "get_target" /\ held = lag /\ Answered(t)
        /\ UNCHANGED <<lag, clocks>>
    BY <1>11 DEF get_target, Answered, Return, HandInv
  <2>2. quiet'[t] = Saturate(lag) /\ \A u \in Target \ {t} : quiet'[u] = quiet[u]
    BY <2>1 DEF TypeOK, Answered
  <2>3. CASE isonline[t]
    <3>1. reset_error_timer(t) /\ logtime_set_record(t) /\ pc' = "run" /\ UNCHANGED told
      BY <2>1, <2>3 DEF Answered, Return
    <3>2. told[t] = "up"
      BY <2>1, <2>3 DEF ToldIsOnline
    <3> QED
      BY <2>1, <2>2, <3>1, <3>2, ResetInv
  <2>4. CASE ~isonline[t]
    <3>1. /\ UNCHANGED <<status, left, isonline, rows>>
          /\ pc' = "up" /\ arg' = t
          /\ told'[t] = "up"
          /\ \A u \in Target \ {t} : told'[u] = told[u]
      BY <2>1, <2>4 DEF TypeOK, Answered
    <3> USE <2>1, <2>2, <2>4, <3>1 DEF TypeOK
    <3>2. QueueInv'
      BY DEF QueueInv
    <3>3. HandInv'
      BY DEF HandInv
    <3>4. Watched'
      BY DEF Watched
    <3>5. TimerMeasuresSilence'
      BY DEF TimerMeasuresSilence
    <3>6. ToldIsOnline'
      BY DEF ToldIsOnline
    <3>7. LogSound'
      BY DEF LogSound
    <3> QED
      BY <3>2, <3>3, <3>4, <3>5, <3>6, <3>7
  <2> QED
    BY <2>3, <2>4
<1>11a. CASE get_target_null
  BY <1>11a DEF TypeOK, get_target_null, Return, QueueInv, HandInv, Watched, TimerMeasuresSilence, ToldIsOnline, LogSound
<1>12. CASE UpNotified
  <2>1. arg \in Target /\ reset_error_timer(arg) /\ logtime_set_record(arg)
    BY <1>12 DEF TypeOK, UpNotified
  <2>2. /\ pc = "up" /\ pc' = "run"
        /\ quiet[arg] = Saturate(lag)
        /\ told[arg] = "up"
        /\ UNCHANGED <<lag, clocks, told, quiet>>
    BY <1>12, <2>1 DEF UpNotified, Return, HandInv, ToldIsOnline
  <2>3. quiet'[arg] = Saturate(lag) /\ \A u \in Target \ {arg} : quiet'[u] = quiet[u]
    BY <2>2
  <2> QED
    BY <2>1, <2>2, <2>3, ResetInv
<1>13. CASE handle_signal
  BY <1>13 DEF TypeOK, handle_signal, QueueInv, HandInv, Watched, TimerMeasuresSilence, ToldIsOnline, LogSound
<1>14. CASE Exit
  BY <1>14 DEF TypeOK, Exit, QueueInv, HandInv, Watched, TimerMeasuresSilence, ToldIsOnline, LogSound
<1>15. CASE Restart
  BY <1>15 DEF TypeOK, Restart, QueueInv, HandInv, Watched, TimerMeasuresSilence, ToldIsOnline, LogSound
<1>16. ASSUME NEW a \in Addr \cup {None}, Arrive(a) PROVE Inv'
  BY <1>16 DEF TypeOK, Arrive, QueueInv, HandInv, Watched, TimerMeasuresSilence, ToldIsOnline, LogSound
<1>17. CASE Tick
  <2>1. /\ pc \notin Gone /\ pc # "recv"
        /\ UNCHANGED <<pc, arg, status, isonline, clocks, rows, told>>
        /\ \A e \in Timer : left'[e] = IF status[e] = "off" THEN left[e] ELSE left[e] - 1
        /\ \A t \in Target : quiet'[t] = Saturate(quiet[t] + 1)
        /\ pc # "wait" => lag' = lag + 1
        /\ pc = "get_target" => held' = held + 1
    BY <1>17 DEF TypeOK, Tick
  <2>2. QueueInv'
    <3>1. \A e \in Timer : left[e] \in Int
      BY DEF TypeOK
    <3>2. \A e \in Timer : status[e] = "active" => left'[e] = left[e] - 1
      BY <2>1
    <3> QED
      BY <2>1, <3>1, <3>2 DEF QueueInv
  <2>3. HandInv'
    BY <2>1 DEF TypeOK, HandInv, Saturate
  <2>4. Watched'
    BY <2>1 DEF TypeOK, Watched
  <2>5. TimerMeasuresSilence'
    <3> SUFFICES ASSUME NEW t \in Target, isonline[t]
                 PROVE  /\ status[<<"err", t>>] # "off"
                        /\ quiet'[t] = Saturate(ErrInterval - left'[<<"err", t>>])
      BY <2>1 DEF TimerMeasuresSilence
    <3>1. status[<<"err", t>>] # "off" /\ quiet[t] = Saturate(ErrInterval - left[<<"err", t>>])
      BY <2>1 DEF TimerMeasuresSilence
    <3>2. left'[<<"err", t>>] = left[<<"err", t>>] - 1 /\ left[<<"err", t>>] \in Int
      BY <2>1, <3>1 DEF TypeOK
    <3>3. quiet'[t] = Saturate(quiet[t] + 1)
      BY <2>1
    <3> QED
      BY <3>1, <3>2, <3>3 DEF Saturate
  <2>6. ToldIsOnline' /\ LogSound'
    BY <2>1 DEF ToldIsOnline, LogSound
  <2> QED
    BY <2>2, <2>3, <2>4, <2>5, <2>6
<1>18. CASE UNCHANGED vars
  BY <1>18 DEF TypeOK, vars, QueueInv, HandInv, Watched, TimerMeasuresSilence, ToldIsOnline, LogSound
<1> QED
  BY <1>1, <1>2, <1>3, <1>4, <1>5, <1>6, <1>7, <1>8, <1>9, <1>10, <1>11,
     <1>12, <1>13, <1>14, <1>15, <1>16, <1>17, <1>18, <1>11a DEF Next, Step

\* The inductive invariant holds in every behaviour of the monitor.
THEOREM Invariance == Spec => []Inv
<1>1. Init => Inv
  <2> SUFFICES ASSUME Init PROVE Inv
    OBVIOUS
  <2> USE ConstantsAssumption, TimerFacts
  <2>1. TypeOK
    BY DEF Init, TypeOK, Blocking
  <2>2. QueueInv /\ HandInv /\ Watched
    BY DEF Init, QueueInv, HandInv, Watched
  <2>3. TimerMeasuresSilence /\ ToldIsOnline /\ LogSound
    BY DEF Init, TimerMeasuresSilence, ToldIsOnline, LogSound
  <2> QED
    BY <2>1, <2>2, <2>3 DEF Inv
<1> QED
  BY <1>1, InvStep, PTL DEF Spec

\* What the user was told last about a target is what the monitor believes.
THEOREM UserPicture == Spec => []ToldIsOnline
BY Invariance, PTL DEF Inv

\* An interval is only logged for a name that was polled and announced.
THEOREM LogFollowsPoll == Spec => []LogSound
BY Invariance, PTL DEF Inv

\* Monitoring never stops for any target: poll_ev and err_ev stay scheduled.
THEOREM AlwaysWatched == Spec => []Watched
<1>1. Inv => Watched
  BY DEF Inv
<1> QED
  BY <1>1, Invariance, PTL

\* err_ev of an online target measures the target's silence.
THEOREM SilenceMeasured == Spec => []TimerMeasuresSilence
<1>1. Inv => TimerMeasuresSilence
  BY DEF Inv
<1> QED
  BY <1>1, Invariance, PTL

\* A loop with nothing due has no target online that has been silent for
\* ErrInterval.
THEOREM OnlineIsFresh == Spec => []NoStaleOnline
<1>1. Inv => NoStaleOnline
  <2> SUFFICES ASSUME Inv, pc = "wait", Expired = {}, NEW t \in Target, isonline[t]
               PROVE  quiet[t] < ErrInterval
    BY DEF NoStaleOnline
  <2>1. <<"err", t>> \in Timer /\ left[<<"err", t>>] \in Int
    BY TimerFacts DEF Inv, TypeOK
  <2>2. /\ status[<<"err", t>>] # "off"
        /\ quiet[t] = Saturate(ErrInterval - left[<<"err", t>>])
    BY DEF Inv, TimerMeasuresSilence, Gone
  <2>3. status[<<"err", t>>] = "pending"
    BY <2>1, <2>2 DEF Inv, QueueInv, TypeOK
  <2>4. left[<<"err", t>>] > 0
    BY <2>1, <2>3 DEF Expired
  <2> QED
    BY <2>1, <2>2, <2>4, ConstantsAssumption DEF Saturate
<1> QED
  BY <1>1, Invariance, PTL

-----------------------------------------------------------------------------
(* Lateness                                                                 *)

\* In terms of the time cached for the iteration, a timer that is not queued was
\* not due when the iteration began, and one that is queued became due in the
\* iteration before.
LateInv ==
    /\ pc = "wait" => lag = 0
    /\ pc \notin Gone =>
          \A e \in Timer :
             /\ status[e] = "pending" => left[e] + lag >= IF pc = "wait" THEN -MaxLag ELSE 0
             /\ status[e] = "active" => left[e] + lag >= -MaxLag

\* Every step keeps it: ticks move deadlines and the cached time apart alike, and
\* both ways of putting a timer back count from the cached time at the earliest.
LEMMA LateStep == Inv /\ LateInv /\ [Next]_vars => LateInv'
<1> SUFFICES ASSUME Inv, LateInv, [Next]_vars PROVE LateInv'
  OBVIOUS
<1>0. /\ pc \in Blocking \cup Gone \cup {"wait", "recv", "run"}
      /\ lag \in 0..MaxLag /\ MaxLag \in Nat /\ ErrInterval \in Nat
      /\ status \in [Timer -> {"pending", "active", "off"}]
      /\ \A e \in Timer : left[e] \in Int /\ Interval(e) \in Nat
  BY TimerFacts, ConstantsAssumption DEF Inv, TypeOK
<1> USE DEF Blocking, Gone, loop, timers, queue, log
<1>1. CASE EnterLoop
  BY <1>0, <1>1 DEF EnterLoop, LateInv, Inv, QueueInv
<1>2. CASE Dispatch
  BY <1>0, <1>2 DEF Dispatch, Expired, LateInv
<1>3. CASE EndIteration
  BY <1>0, <1>3 DEF EndIteration, LateInv
<1>4. ASSUME NEW e \in Timer, status[e] = "active", Rearm(e), pc = "run", pc' \notin Gone \cup {"wait"}, UNCHANGED lag
      PROVE  LateInv'
  <2>1. \A f \in Timer \ {e} : status'[f] = status[f] /\ left'[f] = left[f]
    BY <1>4, RearmFacts DEF Inv
  <2>2. /\ status'[e] # "active"
        /\ left'[e] = IF left[e] + Interval(e) < -lag THEN Interval(e) - lag ELSE left[e] + Interval(e)
    BY <1>4 DEF Inv, TypeOK, Rearm
  <2>3. left'[e] + lag >= 0
    BY <1>0, <2>2
  <2> QED
    BY <1>4, <2>1, <2>2, <2>3 DEF LateInv
<1>5. ASSUME NEW t \in Target, handle_poll_event(t) \/ handle_err_event(t) PROVE LateInv'
  BY <1>4, <1>5, TimerFacts DEF handle_poll_event, handle_err_event, Callback, NextTimer, AnnounceDown
<1>6. ASSUME NEW t \in Target, reset_error_timer(t), logtime_set_record(t), pc \in {"get_target", "up"},
             pc' = "run", UNCHANGED lag
      PROVE  LateInv'
  <2>1. /\ \A f \in Timer \ {<<"err", t>>} : status'[f] = status[f] /\ left'[f] = left[f]
        /\ status'[<<"err", t>>] = "pending" /\ left'[<<"err", t>>] = ErrInterval - lag
    BY <1>6, ResetFacts DEF Inv
  <2>2. left'[<<"err", t>>] + lag >= 0
    BY <1>0, <2>1
  <2> QED
    BY <1>6, <2>1, <2>2 DEF LateInv
<1>7. ASSUME NEW t \in Target, get_target(t) PROVE LateInv'
  <2>1. pc = "get_target" /\ Answered(t)
    BY <1>7 DEF get_target
  <2>2. CASE isonline[t]
    BY <1>6, <2>1, <2>2 DEF Answered, Return
  <2>3. CASE ~isonline[t]
    BY <2>1, <2>3 DEF Answered, LateInv
  <2> QED
    BY <2>2, <2>3
<1>8. CASE UpNotified
  BY <1>6, <1>8 DEF UpNotified, Return, Inv, TypeOK
<1>9. CASE send_bip \/ send_bip_fails \/ DownNotified \/ get_target_null
  BY <1>9 DEF send_bip, send_bip_fails, DownNotified, get_target_null, Return, LateInv
<1>10. CASE handle_answer \/ handle_answer_fails
  BY <1>10 DEF handle_answer, handle_answer_fails, LateInv
<1>11. CASE handle_signal \/ Exit
  BY <1>11 DEF handle_signal, Exit, LateInv
<1>12. CASE Restart
  BY <1>0, <1>12 DEF Restart, LateInv
<1>13. ASSUME NEW a \in Addr \cup {None}, Arrive(a) PROVE LateInv'
  BY <1>13 DEF Arrive, LateInv
<1>14. CASE Tick
  <2>1. /\ pc \notin Gone /\ UNCHANGED <<pc, status>>
        /\ \A e \in Timer : status[e] # "off" => left'[e] = left[e] - 1
    BY <1>0, <1>14 DEF Tick
  <2>2. CASE pc = "wait"
    <3>1. Expired = {} /\ UNCHANGED lag
      BY <1>14, <2>2 DEF Tick
    <3>2. \A e \in Timer : status[e] = "pending" => left[e] > 0
      BY <1>0, <3>1 DEF Expired
    <3>3. \A e \in Timer : status[e] # "active"
      BY <2>2 DEF Inv, QueueInv
    <3> QED
      BY <1>0, <2>1, <2>2, <3>1, <3>2, <3>3 DEF LateInv
  <2>3. CASE pc # "wait"
    <3>1. lag' = lag + 1
      BY <1>14, <2>3 DEF Tick
    <3> QED
      BY <1>0, <2>1, <2>3, <3>1 DEF LateInv
  <2> QED
    BY <2>2, <2>3
<1>15. CASE UNCHANGED vars
  BY <1>15 DEF vars, LateInv
<1> QED
  BY <1>1, <1>2, <1>3, <1>5, <1>7, <1>8, <1>9, <1>10, <1>11, <1>12, <1>13, <1>14, <1>15 DEF Next, Step

\* No callback of the monitor runs later than twice what one iteration may block,
\* for any number of targets: the bounded form of what the liveness properties say.
THEOREM BoundedLateness == Spec => []Prompt
<1>1. Init => LateInv
  BY ConstantsAssumption, TimerFacts DEF Init, LateInv
<1>2. Inv /\ LateInv => Prompt
  <2> SUFFICES ASSUME Inv, LateInv, pc \notin Gone, NEW e \in Timer, status[e] # "off"
               PROVE  left[e] >= -(2 * MaxLag)
    BY DEF Prompt
  <2>1. status[e] \in {"pending", "active"} /\ left[e] \in Int /\ lag \in 0..MaxLag /\ MaxLag \in Nat
    BY ConstantsAssumption DEF Inv, TypeOK
  <2>2. left[e] + lag >= -MaxLag
    BY <2>1 DEF LateInv
  <2> QED
    BY <2>1, <2>2
<1> QED
  BY <1>1, <1>2, LateStep, Invariance, PTL DEF Spec

-----------------------------------------------------------------------------
(* The monitor implements the detector                                      *)

\* A step of the monitor is a step of the detector or leaves it alone.
LEMMA DetectorStep == Inv /\ [Next]_vars => [D!Next]_(D!vars)
<1> SUFFICES ASSUME Inv, [Next]_vars PROVE D!Next \/ UNCHANGED D!vars
  OBVIOUS
<1> USE DEF D!Next, D!vars
<1>1. CASE UNCHANGED <<told, quiet>>
  BY <1>1
<1>2. ASSUME NEW t \in Target, handle_err_event(t) PROVE D!Next \/ UNCHANGED D!vars
  <2>1. CASE ~isonline[t]
    BY <1>2, <2>1, <1>1 DEF handle_err_event, Callback
  <2>2. CASE isonline[t]
    <3>1. /\ pc = "run" /\ status[<<"err", t>>] = "active"
          /\ told' = [told EXCEPT ![t] = "down"] /\ UNCHANGED quiet
      BY <1>2, <2>2 DEF handle_err_event, Callback, AnnounceDown, NextTimer
    <3>2. told[t] = "up"
      BY <2>2, <3>1 DEF Inv, ToldIsOnline, Gone
    <3>3. left[<<"err", t>>] <= 0 /\ left[<<"err", t>>] \in Int
      BY <3>1, TimerFacts DEF Inv, QueueInv, TypeOK
    <3>4. quiet[t] = Saturate(ErrInterval - left[<<"err", t>>])
      BY <2>2, <3>1 DEF Inv, TimerMeasuresSilence, Gone
    <3>5. quiet[t] = ErrInterval
      BY <3>3, <3>4, ConstantsAssumption DEF Saturate
    <3> QED
      BY <3>1, <3>2, <3>5 DEF D!Declare
  <2> QED
    BY <2>1, <2>2
<1>3. ASSUME NEW t \in Target, get_target(t) PROVE D!Next
  <2>1. pc = "get_target" /\ Answered(t)
    BY <1>3 DEF get_target
  <2>2. quiet' = [quiet EXCEPT ![t] = Saturate(held)]
    BY <2>1 DEF Answered
  <2>3. Saturate(held) \in 0..quiet[t]
    BY <2>1, ConstantsAssumption DEF Inv, HandInv, TypeOK, Saturate
  <2>4. told' = [told EXCEPT ![t] = "up"]
    <3>1. CASE isonline[t]
      <4>1. told[t] = "up" /\ told' = told
        BY <2>1, <3>1 DEF Answered, Inv, ToldIsOnline, Gone
      <4> QED
        BY <4>1 DEF Inv, TypeOK
    <3>2. CASE ~isonline[t]
      BY <2>1, <3>2 DEF Answered
    <3> QED
      BY <3>1, <3>2
  <2> QED
    BY <2>2, <2>3, <2>4 DEF D!Hear
<1>4. CASE Tick
  <2>1. UNCHANGED told /\ quiet' = [t \in Target |-> Saturate(quiet[t] + 1)]
    BY <1>4 DEF Tick
  <2>2. \A t \in Target : Saturate(quiet[t] + 1) = IF quiet[t] < ErrInterval THEN quiet[t] + 1 ELSE quiet[t]
    BY ConstantsAssumption DEF Inv, TypeOK, Saturate
  <2> QED
    BY <2>1, <2>2 DEF D!Pass
<1>5. CASE Restart
  BY <1>5 DEF Restart, D!Forget
<1>6. CASE \/ EnterLoop \/ Dispatch \/ EndIteration
           \/ \E t \in Target : handle_poll_event(t)
           \/ send_bip \/ send_bip_fails \/ DownNotified
           \/ handle_answer \/ handle_answer_fails \/ get_target_null \/ UpNotified
           \/ handle_signal \/ Exit
           \/ \E a \in Addr \cup {None} : Arrive(a)
           \/ UNCHANGED vars
  BY <1>1, <1>6 DEF EnterLoop, Dispatch, EndIteration, handle_poll_event, Callback, send_bip,
     send_bip_fails, DownNotified, handle_answer, handle_answer_fails, get_target_null, UpNotified,
     handle_signal, Exit, Arrive, vars
<1> QED
  BY <1>2, <1>3, <1>4, <1>5, <1>6 DEF Next, Step

\* The monitor implements the detector: for every target notifications alternate
\* starting with "up", and a target is declared down only after ErrInterval in
\* which none of its answers was read.
THEOREM Refinement == Spec => DetectorSpec
<1>1. Init => D!Init
  BY DEF Init, D!Init
<1> QED
  BY <1>1, DetectorStep, Invariance, PTL DEF Spec, DetectorSpec, D!Spec
=============================================================================
