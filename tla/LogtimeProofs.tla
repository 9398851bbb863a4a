---------------------------- MODULE LogtimeProofs ----------------------------
(***************************************************************************)
(* Proofs about Logtime for every set of names and every clock.  The       *)
(* invariants of the database are not inductive: what execute_insert_query *)
(* found out by one statement must still be true at the next one, which    *)
(* CallInv says for each point between them.  IntervalExact rests on       *)
(* SinceInv: the reading kept for a departure is as far behind the clock   *)
(* as the time that passed since.                                          *)
(***************************************************************************)
EXTENDS Logtime, TLAPS

\* What the call in progress relies on: nobody else inserts the name it did not
\* find, and the id it holds is the one of its name or no id at all.
CallInv ==
    /\ pc = "insert_target" => \A t \in targets : t.name # call.name
    /\ pc = "insert_clock" /\ id > 0 => [id |-> id, name |-> call.name] \in targets
    /\ ~failed /\ pc = "reselect" => \E t \in targets : t.name = call.name
    /\ ~failed /\ pc = "insert_clock" => \E t \in targets : t.id = id

Inv == TypeOK /\ NamesUnique /\ RowsAttributed /\ OrphansNeedFailure /\ CallInv

-----------------------------------------------------------------------------
\* timespec_diff of two normalised times is normalised and stands for exactly
\* the time between them, whichever is the later.
LEMMA TimespecDiff ==
    ASSUME NEW start \in Timespec, NEW stop \in Timespec
    PROVE  /\ timespec_diff(start, stop) \in Timespec
           /\ Nanoseconds(timespec_diff(start, stop)) = Nanoseconds(stop) - Nanoseconds(start)
<1> DEFINE a == start.tv_sec
           b == stop.tv_sec
           d == stop.tv_nsec - start.tv_nsec
<1>1. /\ NSEC \in Nat /\ NSEC > 0 /\ a \in Int /\ b \in Int /\ d \in Int
      /\ start.tv_nsec \in 0..(NSEC - 1) /\ stop.tv_nsec \in 0..(NSEC - 1)
  BY LogtimeAssumption DEF Timespec
<1>2. /\ (b - a) * NSEC = b * NSEC - a * NSEC
      /\ (b - a - 1) * NSEC = b * NSEC - a * NSEC - NSEC
      /\ a * NSEC \in Int /\ b * NSEC \in Int
  BY <1>1, SMT
<1>3. CASE d < 0
  <2>1. timespec_diff(start, stop) = [tv_sec |-> b - a - 1, tv_nsec |-> d + NSEC]
    BY <1>3 DEF timespec_diff
  <2>2. d + NSEC \in 0..(NSEC - 1)
    BY <1>1, <1>3
  <2> QED
    BY <1>1, <1>2, <2>1, <2>2 DEF Timespec, Nanoseconds
<1>4. CASE ~(d < 0)
  <2>1. timespec_diff(start, stop) = [tv_sec |-> b - a, tv_nsec |-> d]
    BY <1>4 DEF timespec_diff
  <2>2. d \in 0..(NSEC - 1)
    BY <1>1, <1>4
  <2> QED
    BY <1>1, <1>2, <2>1, <2>2 DEF Timespec, Nanoseconds
<1> QED
  BY <1>3, <1>4

\* Readings of the clock are normalised times.
LEMMA NowTimespec == \A u \in Now : u \in Timespec
<1> SUFFICES ASSUME NEW u \in Now PROVE u \in Timespec
  OBVIOUS
<1>1. u = [tv_sec |-> u.tv_sec, tv_nsec |-> u.tv_nsec] /\ u.tv_sec \in Seconds /\ u.tv_nsec \in 0..(NSEC - 1)
  BY DEF Now
<1>2. u.tv_sec \in Int
  BY <1>1, LogtimeAssumption
<1> QED
  BY <1>1, <1>2 DEF Timespec

\* A reading stands for a number of nanoseconds.
LEMMA NanosecondsInt == ASSUME NEW u \in Now PROVE Nanoseconds(u) \in Int
BY NowTimespec, LogtimeAssumption DEF Timespec, Nanoseconds

\* What reaches the database is an int, and the nanoseconds survive.
LEMMA ToIntRange ==
    /\ \A x \in Int : ToInt(x) \in (-IntHalf)..(IntHalf - 1)
    /\ \A x \in 0..(NSEC - 1) : ToInt(x) = x
<1> DEFINE m == 2 * IntHalf
<1>1. NSEC \in Nat /\ IntHalf \in Nat /\ NSEC > 0 /\ NSEC <= IntHalf /\ m \in Nat /\ m > 0
  BY LogtimeAssumption
<1>2. ASSUME NEW y \in Int PROVE y % m \in 0..(m - 1)
  BY <1>1
<1>3. ASSUME NEW y \in 0..(m - 1) PROVE y % m = y
  BY <1>1
<1>4. ASSUME NEW x \in Int PROVE ToInt(x) \in (-IntHalf)..(IntHalf - 1)
  <2>1. (x + IntHalf) % m \in 0..(m - 1)
    BY <1>1, <1>2
  <2> QED
    BY <1>1, <2>1 DEF ToInt
<1>5. ASSUME NEW x \in 0..(NSEC - 1) PROVE ToInt(x) = x
  <2>1. x + IntHalf \in 0..(m - 1)
    BY <1>1
  <2>2. (x + IntHalf) % m = x + IntHalf
    BY <1>3, <2>1
  <2> QED
    BY <1>1, <2>2 DEF ToInt
<1> QED
  BY <1>4, <1>5

-----------------------------------------------------------------------------
\* Every statement of a call keeps the types.
LEMMA TypeStep == TypeOK /\ [Next]_vars => TypeOK'
<1> SUFFICES ASSUME TypeOK, [Next]_vars PROVE TypeOK'
  OBVIOUS
<1> USE DEF TypeOK, Recording, memory, database, wall
<1>1. CASE logtime_init
  BY <1>1 DEF logtime_init, create_table
<1>2. ASSUME NEW n \in Name, logtime_set_start(n) PROVE TypeOK'
  BY <1>2 DEF logtime_set_start
<1>3. ASSUME NEW n \in Name, logtime_set_record(n) PROVE TypeOK'
  <2>1. clocks[n] \in Now
    BY <1>3 DEF logtime_set_record
  <2>2. timespec_diff(clocks[n], now) \in Timespec
    BY <2>1, NowTimespec, TimespecDiff
  <2> QED
    BY <1>3, <2>2 DEF logtime_set_record
<1>4. ASSUME NEW at, NEW missing, at \in {"select", "reselect"},
             missing \in {"insert_target", "insert_clock"}, SelectTarget(at, missing)
      PROVE  TypeOK'
  BY <1>4 DEF SelectTarget, Outcomes
<1>5. CASE InsertTarget
  BY <1>5 DEF InsertTarget, InsertTargetThen, Outcomes
<1>6. CASE InsertClock
  <2> DEFINE R == [target : -1..MaxId, name : Name, s : (-IntHalf)..(IntHalf - 1), ns : 0..(NSEC - 1)]
  <2>1. PICK ok \in Outcomes("clocks") :
           rows' = (IF ok THEN Append(rows, Row) ELSE rows) /\ failed' = (failed \/ ~ok)
    BY <1>6 DEF InsertClock
  <2>2. call.name \in Name /\ call.interval.tv_sec \in Int /\ call.interval.tv_nsec \in 0..(NSEC - 1)
    BY <1>6 DEF InsertClock, Timespec
  <2>3. /\ ToInt(call.interval.tv_sec) \in (-IntHalf)..(IntHalf - 1)
        /\ ToInt(call.interval.tv_nsec) \in 0..(NSEC - 1)
    BY <2>2, ToIntRange
  <2>4. Row \in R
    BY <2>2, <2>3 DEF Row
  <2>5. rows' \in Seq(R)
    <3> HIDE DEF R
    <3>1. rows \in Seq(R)
      BY DEF R
    <3> QED
      BY <2>1, <2>4, <3>1
  <2>6. failed' \in BOOLEAN
    BY <2>1 DEF Outcomes
  <2> QED
    BY <1>6, <2>5, <2>6, LogtimeAssumption DEF InsertClock
<1>7. CASE Restart
  BY <1>7, LogtimeAssumption DEF Restart
<1>8. CASE Pass \/ SetClock
  <2>1. now' \in Now /\ since' \in [Name -> Int]
    <3>1. Nanoseconds(now) \in Int
      BY NanosecondsInt
    <3>2. now' \in Now => Nanoseconds(now') \in Int
      BY NanosecondsInt
    <3>3. \A n \in Name : since[n] \in Int
      OBVIOUS
    <3> QED
      BY <1>8, <3>1, <3>2, <3>3 DEF Pass, SetClock
  <2>2. steady' \subseteq Name
    BY <1>8 DEF Pass, SetClock
  <2> QED
    BY <1>8, <2>1, <2>2 DEF Pass, SetClock
<1>9. CASE UNCHANGED vars
  BY <1>9 DEF vars
<1> HIDE DEF TypeOK, Recording, memory, database, wall
<1> QED
  BY <1>1, <1>2, <1>3, <1>4, <1>5, <1>6, <1>7, <1>8, <1>9 DEF Next, execute_insert_query

-----------------------------------------------------------------------------
\* A lookup that answers with a positive id answers with the id of its name.
LEMMA LookupSound ==
    ASSUME TypeOK, NEW name, NEW ok, NEW i, get_target_id(name, ok, i)
    PROVE  /\ i > 0 => [id |-> i, name |-> name] \in targets
           /\ i = -1 => \A t \in targets : t.name # name
           /\ ok /\ (\E t \in targets : t.name = name) => \E t \in targets : t.id = i
           /\ ok /\ i # -1 => \E t \in targets : t.id = i
<1>1. \A t \in targets : t.id \in 1..MaxId /\ t = [id |-> t.id, name |-> t.name]
  BY DEF TypeOK
<1> QED
  BY <1>1, LogtimeAssumption DEF get_target_id

\* The rows after an insertion are those before it and the new one, in that order.
LEMMA Inserted ==
    ASSUME TypeOK, rows' = Append(rows, Row)
    PROVE  /\ DOMAIN rows = 1..Len(rows) /\ Len(rows) \in Nat
           /\ DOMAIN rows' = DOMAIN rows \cup {Len(rows) + 1}
           /\ \A i \in DOMAIN rows : rows'[i] = rows[i] /\ i < Len(rows) + 1
           /\ rows'[Len(rows) + 1] = Row
<1>1. PICK R : rows \in Seq(R)
  BY DEF TypeOK
<1>2. DOMAIN rows = 1..Len(rows) /\ Len(rows) \in Nat
  BY <1>1
<1>3. DOMAIN rows' = 1..(Len(rows) + 1)
  BY <1>1, <1>2
<1>4. rows'[Len(rows) + 1] = Row /\ \A i \in 1..Len(rows) : rows'[i] = rows[i]
  BY <1>1, <1>2
<1> QED
  BY <1>2, <1>3, <1>4

LEMMA InvStep == Inv /\ [Next]_vars => Inv'
<1> SUFFICES ASSUME Inv, [Next]_vars PROVE Inv'
  OBVIOUS
<1>0. TypeOK /\ TypeOK'
  BY TypeStep DEF Inv
<1> USE DEF Inv, NamesUnique, RowsAttributed, OrphansNeedFailure, ForeignKey, CallInv
<1>1. CASE logtime_init
  BY <1>0, <1>1 DEF logtime_init, create_table, memory
<1>2. ASSUME NEW n \in Name, logtime_set_start(n) PROVE Inv'
  BY <1>0, <1>2 DEF logtime_set_start, database
<1>3. ASSUME NEW n \in Name, logtime_set_record(n) PROVE Inv'
  BY <1>0, <1>3 DEF logtime_set_record, database
<1>4. ASSUME NEW at, NEW missing, SelectTarget(at, missing),
             \/ at = "select" /\ missing = "insert_target"
             \/ at = "reselect" /\ missing = "insert_clock"
      PROVE  Inv'
  <2>1. PICK ok \in Outcomes("targets"), i \in -1..MaxId :
           /\ get_target_id(call.name, ok, i)
           /\ id' = i
           /\ pc' = IF i = -1 THEN missing ELSE "insert_clock"
           /\ failed' = (failed \/ ~ok)
    BY <1>4 DEF SelectTarget
  <2>2. /\ i > 0 => [id |-> i, name |-> call.name] \in targets
        /\ i = -1 => \A t \in targets : t.name # call.name
        /\ ok /\ (\E t \in targets : t.name = call.name) => \E t \in targets : t.id = i
        /\ ok /\ i # -1 => \E t \in targets : t.id = i
    BY <1>0, <2>1, LookupSound
  <2>3. pc = at /\ UNCHANGED <<targets, rows, call>>
    BY <1>4 DEF SelectTarget, memory, database
  <2>5. ok \in BOOLEAN /\ failed \in BOOLEAN
    BY <1>0 DEF Outcomes, TypeOK
  <2>6. CallInv'
    BY <1>4, <2>1, <2>2, <2>3, <2>5
  <2> QED
    BY <1>0, <2>1, <2>3, <2>5, <2>6
<1>5. CASE InsertTarget
  <2>1. PICK ok \in Outcomes("targets"), i \in 1..MaxId :
           /\ NewId(i)
           /\ targets' = IF ok THEN targets \cup {[id |-> i, name |-> call.name]} ELSE targets
           /\ failed' = (failed \/ ~ok)
    BY <1>5 DEF InsertTarget, InsertTargetThen
  <2>2. pc = "insert_target" /\ pc' = "reselect" /\ UNCHANGED <<call, id, rows>>
    BY <1>5 DEF InsertTarget, InsertTargetThen, memory
  <2>3. \A t \in targets : t.id \in Int /\ t.id < i /\ t.name # call.name
    BY <1>0, <2>1, <2>2 DEF TypeOK, NewId
  <2>4. NamesUnique'
    BY <2>1, <2>3
  <2>5. RowsAttributed' /\ OrphansNeedFailure'
    BY <2>1, <2>2
  <2>6. ok \in BOOLEAN /\ failed \in BOOLEAN
    BY <1>0 DEF Outcomes, TypeOK
  <2>7. ok => [id |-> i, name |-> call.name] \in targets'
    BY <2>1
  <2>8. ok => \E t \in targets' : t.name = call'.name
    BY <2>2, <2>7
  <2>9. CallInv'
    BY <2>1, <2>2, <2>6, <2>8
  <2> QED
    BY <1>0, <2>4, <2>5, <2>9
<1>6. CASE InsertClock
  <2>1. pc = "insert_clock" /\ pc' = "idle" /\ UNCHANGED targets
    BY <1>6 DEF InsertClock
  <2>2. /\ rows' = rows \/ rows' = Append(rows, Row)
        /\ Row.target = id /\ Row.name = call.name
    BY <1>6 DEF InsertClock, Row
  <2>3. failed \in BOOLEAN /\ (~failed' => ~failed)
    BY <1>0, <1>6 DEF InsertClock, Outcomes, TypeOK
  <2>4. \A i \in DOMAIN rows' : (i \in DOMAIN rows /\ rows'[i] = rows[i]) \/ rows'[i] = Row
    BY <1>0, <2>2, Inserted
  <2>5. id \in Int
    BY <1>0 DEF TypeOK
  <2>6. RowsAttributed' /\ OrphansNeedFailure'
    BY <2>1, <2>2, <2>3, <2>4, <2>5
  <2> QED
    BY <1>0, <2>1, <2>6
<1>7. CASE Restart
  BY <1>0, <1>7 DEF Restart, database
<1>8. CASE Pass \/ SetClock
  BY <1>0, <1>8 DEF Pass, SetClock, memory, database
<1>9. CASE UNCHANGED vars
  BY <1>0, <1>9 DEF vars
<1> QED
  BY <1>1, <1>2, <1>3, <1>4, <1>5, <1>6, <1>7, <1>8, <1>9 DEF Next, execute_insert_query

-----------------------------------------------------------------------------
\* The database file starts empty and no clock runs.
LEMMA InitType == Init => TypeOK
<1> SUFFICES ASSUME Init PROVE TypeOK
  OBVIOUS
<1>1. clocks \in [Name -> Now \cup {Unstarted}]
  BY DEF Init
<1>2. id \in -1..MaxId /\ now \in Now /\ steady \subseteq Name /\ since \in [Name -> Int]
  BY LogtimeAssumption DEF Init
<1>3. tables \subseteq {"targets", "clocks"} /\ targets \subseteq [id : 1..MaxId, name : Name]
  BY DEF Init
<1>4. rows \in Seq([target : -1..MaxId, name : Name, s : (-IntHalf)..(IntHalf - 1), ns : 0..(NSEC - 1)])
  BY DEF Init
<1>5. pc = "create_targets" /\ call = NoCall /\ failed \in BOOLEAN
  BY DEF Init
<1> QED
  BY <1>1, <1>2, <1>3, <1>4, <1>5 DEF TypeOK, Recording

\* The state of logtime keeps its types: what timespec_diff computes stays
\* normalised, and what is stored fits an int.
THEOREM TypeCorrect == Spec => []TypeOK
BY InitType, TypeStep, PTL DEF Spec

\* The inductive invariant holds in every reachable state.
THEOREM Invariance == Spec => []Inv
<1>1. Init => Inv
  BY InitType DEF Init, Inv, NamesUnique, RowsAttributed, OrphansNeedFailure, ForeignKey, CallInv
<1> QED
  BY <1>1, InvStep, PTL DEF Spec

\* execute_insert_query keeps names and ids of targets one to one, through
\* failing statements and crashes.
THEOREM OneIdPerName == Spec => []NamesUnique
BY Invariance, PTL DEF Inv

\* No logged time is attributed to a target it was not measured for.
THEOREM Attribution == Spec => []RowsAttributed
BY Invariance, PTL DEF Inv

\* Orphaned rows need a failed statement; a crash alone does not make one.
THEOREM NoOrphans == Spec => []OrphansNeedFailure
BY Invariance, PTL DEF Inv

\* The departure kept for a steady name is a reading as far behind the clock as the
\* time that passed since.
SinceInv ==
    \A n \in steady : clocks[n] \in Now /\ since[n] = Nanoseconds(now) - Nanoseconds(clocks[n])

LEMMA SinceStep == TypeOK /\ SinceInv /\ IntervalExact /\ [Next]_vars => SinceInv' /\ IntervalExact'
<1> SUFFICES ASSUME TypeOK, SinceInv, IntervalExact, [Next]_vars PROVE SinceInv' /\ IntervalExact'
  OBVIOUS
<1> USE DEF SinceInv, IntervalExact, Recording, memory, database, wall
<1>0. /\ Nanoseconds(now) \in Int
      /\ \A n \in steady : Nanoseconds(clocks[n]) \in Int
      /\ clocks \in [Name -> Now \cup {Unstarted}] /\ since \in [Name -> Int] /\ steady \subseteq Name
  BY NanosecondsInt DEF TypeOK
<1>1. ASSUME NEW n \in Name, logtime_set_record(n) PROVE SinceInv' /\ IntervalExact'
  <2>1. call'.name = n /\ call'.interval = timespec_diff(clocks[n], now) /\ UNCHANGED <<clocks, now, steady, since>>
    BY <1>1 DEF logtime_set_record
  <2>2. clocks[n] \in Timespec /\ now \in Timespec
    BY <1>1, NowTimespec DEF logtime_set_record, TypeOK
  <2>3. Nanoseconds(call'.interval) = Nanoseconds(now) - Nanoseconds(clocks[n])
    BY <2>1, <2>2, TimespecDiff
  <2> QED
    BY <2>1, <2>3
<1>2. ASSUME NEW n \in Name, logtime_set_start(n) PROVE SinceInv' /\ IntervalExact'
  <2>1. /\ pc = "idle" /\ pc' = "idle" /\ now' = now /\ steady' = steady \cup {n}
        /\ clocks' = [clocks EXCEPT ![n] = now] /\ since' = [since EXCEPT ![n] = 0]
    BY <1>2 DEF logtime_set_start
  <2>2. clocks'[n] = now /\ since'[n] = 0 /\ now \in Now
    BY <1>0, <2>1 DEF TypeOK
  <2>3. ASSUME NEW k \in steady', k # n PROVE k \in steady /\ clocks'[k] = clocks[k] /\ since'[k] = since[k]
    BY <1>0, <2>1, <2>3
  <2>4. ASSUME NEW k \in steady' PROVE clocks'[k] \in Now /\ since'[k] = Nanoseconds(now) - Nanoseconds(clocks'[k])
    <3>1. CASE k = n
      BY <1>0, <2>2, <3>1
    <3>2. CASE k # n
      BY <2>3, <3>2
    <3> QED
      BY <3>1, <3>2
  <2> QED
    BY <2>1, <2>4
<1>3. CASE Pass
  <2>1. pc = "idle" /\ pc' = "idle" /\ UNCHANGED <<clocks, steady>> /\ now' \in Now
    BY <1>3 DEF Pass
  <2>2. Nanoseconds(now') \in Int
    BY <2>1, NanosecondsInt
  <2>3. \A n \in steady : since'[n] = since[n] + (Nanoseconds(now') - Nanoseconds(now))
    BY <1>0, <1>3 DEF Pass
  <2>4. ASSUME NEW n \in steady PROVE since'[n] = Nanoseconds(now') - Nanoseconds(clocks[n])
    <3>1. since[n] = Nanoseconds(now) - Nanoseconds(clocks[n])
      OBVIOUS
    <3> QED
      BY <1>0, <2>2, <2>3, <3>1
  <2> QED
    BY <2>1, <2>4
<1>4. CASE SetClock \/ Restart
  BY <1>4 DEF SetClock, Restart
<1>5. CASE logtime_init
  BY <1>5 DEF logtime_init, create_table
<1>6. CASE SelectTarget("select", "insert_target") \/ SelectTarget("reselect", "insert_clock")
  BY <1>6 DEF SelectTarget, Nanoseconds
<1>7. CASE InsertTarget
  BY <1>7 DEF InsertTarget, InsertTargetThen, Nanoseconds
<1>8. CASE InsertClock
  BY <1>8 DEF InsertClock
<1>9. CASE UNCHANGED vars
  BY <1>9 DEF vars, Nanoseconds
<1> QED
  BY <1>1, <1>2, <1>3, <1>4, <1>5, <1>6, <1>7, <1>8, <1>9 DEF Next, execute_insert_query

\* As long as nobody sets the wall clock, the interval that is recorded is the time
\* that passed since the last departure of its name.
THEOREM Exactness == Spec => []IntervalExact
<1>1. Init => SinceInv /\ IntervalExact
  BY DEF Init, SinceInv, Recording, IntervalExact
<1> QED
  BY <1>1, SinceStep, TypeCorrect, PTL DEF Spec

-----------------------------------------------------------------------------
(* Logtime implements the journal                                           *)

\* A multiple of m leaves no remainder.
LEMMA MultipleMod == ASSUME NEW m \in Nat \ {0}, NEW k \in Int PROVE (k * m) % m = 0
BY Z3

\* What the int conversion does to the seconds, it does to the whole time: it adds
\* a multiple of the range.
LEMMA StoredTime ==
    ASSUME NEW x \in Int, NEW ns \in 0..(NSEC - 1)
    PROVE  /\ ToInt(x) * NSEC + ns \in (-(IntHalf * NSEC))..(IntHalf * NSEC - 1)
           /\ ((ToInt(x) * NSEC + ns) - (x * NSEC + ns)) % (2 * (IntHalf * NSEC)) = 0
<1> DEFINE m == 2 * IntHalf
           y == x + IntHalf
           q == y \div m
           s == ToInt(x)
           h == IntHalf * NSEC
<1>1. NSEC \in Nat /\ NSEC > 0 /\ IntHalf \in Nat /\ IntHalf > 0 /\ m \in Nat /\ m > 0 /\ y \in Int
  BY LogtimeAssumption
<1>2. q \in Int /\ y = m * q + (y % m)
  BY <1>1
<1>3. s \in (-IntHalf)..(IntHalf - 1)
  BY ToIntRange
<1>4. s = x - m * q
  BY <1>1, <1>2 DEF ToInt
<1> HIDE DEF q, y, s
<1>5. h \in Nat /\ h > 0
  BY <1>1, SMT
<1>6. s * NSEC + ns \in (-h)..(h - 1)
  <2>1. -IntHalf <= s /\ s <= IntHalf - 1 /\ s \in Int
    BY <1>1, <1>3
  <2>2. (s + IntHalf) * NSEC >= 0 /\ (IntHalf - 1 - s) * NSEC >= 0
    BY <1>1, <2>1, SMT
  <2>3. (s + IntHalf) * NSEC = s * NSEC + h /\ (IntHalf - 1 - s) * NSEC = h - NSEC - s * NSEC
    BY <1>1, <2>1, SMT
  <2> HIDE DEF h
  <2>4. s * NSEC \in Int /\ h \in Int
    BY <1>1, <1>5, <2>1
  <2> QED
    BY <1>1, <2>2, <2>3, <2>4
<1>7. (s * NSEC + ns) - (x * NSEC + ns) = (-q) * (2 * h)
  <2>1. s * NSEC = x * NSEC - q * (2 * h)
    BY <1>1, <1>2, <1>3, <1>4, SMT
  <2> HIDE DEF h
  <2>2. s * NSEC \in Int /\ x * NSEC \in Int /\ q * (2 * h) \in Int /\ (-q) * (2 * h) = -(q * (2 * h))
    BY <1>1, <1>2, <1>3, <1>5
  <2> QED
    BY <2>1, <2>2
<1>8. ((-q) * (2 * h)) % (2 * h) = 0
  BY <1>2, <1>5, MultipleMod
<1> QED
  BY <1>6, <1>7, <1>8 DEF s

\* A record in progress is not the absence of one.
LEMMA Busy == ASSUME NEW name, NEW time PROVE [name |-> name, time |-> time] # NoCall
<1>1. "interval" \notin DOMAIN [name |-> name, time |-> time] /\ "interval" \in DOMAIN NoCall
  BY DEF NoCall
<1> QED
  BY <1>1

\* The rows that belong to a target.
Pairs == {q \in (DOMAIN rows) \X targets : rows[q[1]].target = q[2].id}

\* A step of logtime is a step of the journal or leaves it alone.
LEMMA JournalStep == Inv /\ [Next]_vars => [J!Next]_(J!vars)
<1> SUFFICES ASSUME Inv, [Next]_vars PROVE J!Next \/ UNCHANGED J!vars
  OBVIOUS
<1> USE DEF J!Next, J!vars
<1>0. TypeOK /\ TypeOK'
  BY TypeStep DEF Inv
<1>1. ASSUME UNCHANGED <<rows, targets>> PROVE UNCHANGED Joined
  BY <1>1 DEF Joined
<1>2. ASSUME UNCHANGED call, pc \in Recording <=> pc' \in Recording PROVE UNCHANGED Measured
  BY <1>2 DEF Measured, Nanoseconds
<1>3. CASE logtime_init
  BY <1>1, <1>2, <1>3 DEF logtime_init, create_table, memory, Recording
<1>4. ASSUME NEW n \in Name, logtime_set_start(n) PROVE UNCHANGED J!vars
  BY <1>1, <1>2, <1>4 DEF logtime_set_start, database
<1>5. ASSUME NEW n \in Name, logtime_set_record(n) PROVE J!Measure
  <2>1. pc = "idle" /\ pc' = "select" /\ UNCHANGED <<rows, targets>>
    BY <1>5 DEF logtime_set_record, database
  <2>2. Measured = NoCall /\ Measured' = [name |-> call'.name, time |-> Nanoseconds(call'.interval)]
    BY <2>1 DEF Measured, Recording, Nanoseconds
  <2>3. call'.name \in Name /\ Nanoseconds(call'.interval) \in Int
    BY <1>0, <2>1, LogtimeAssumption DEF TypeOK, Recording, Timespec, Nanoseconds
  <2> QED
    BY <1>1, <2>1, <2>2, <2>3 DEF J!Measure
<1>6. CASE SelectTarget("select", "insert_target") \/ SelectTarget("reselect", "insert_clock")
  BY <1>1, <1>2, <1>6 DEF SelectTarget, memory, database, Recording
<1>7. CASE InsertTarget
  <2>1. PICK ok \in Outcomes("targets"), i \in 1..MaxId :
           NewId(i) /\ targets' = IF ok THEN targets \cup {[id |-> i, name |-> call.name]} ELSE targets
    BY <1>7 DEF InsertTarget, InsertTargetThen
  <2>2. pc = "insert_target" /\ pc' = "reselect" /\ UNCHANGED <<call, rows>>
    BY <1>7 DEF InsertTarget, InsertTargetThen, memory
  <2>3. \A k \in DOMAIN rows : rows[k].target # i
    <3> SUFFICES ASSUME NEW k \in DOMAIN rows, rows[k].target = i PROVE FALSE
      OBVIOUS
    <3>1. [id |-> i, name |-> rows[k].name] \in targets
      BY DEF Inv, RowsAttributed
    <3> QED
      BY <2>1, <3>1 DEF NewId
  <2>4. UNCHANGED Pairs
    <3>1. targets \subseteq targets' /\ \A t \in targets' : t \in targets \/ t.id = i
      BY <2>1
    <3>2. \A q \in (DOMAIN rows) \X targets' : rows[q[1]].target = q[2].id => q \in (DOMAIN rows) \X targets
      BY <2>3, <3>1
    <3> QED
      BY <2>2, <3>1, <3>2 DEF Pairs
  <2>5. UNCHANGED Joined
    BY <2>2, <2>4 DEF Joined, Pairs
  <2> QED
    BY <1>2, <2>2, <2>5 DEF Recording
<1>8. CASE InsertClock
  <2> DEFINE v == call.interval
             k == Len(rows) + 1
             entry == [row |-> k, name |-> call.name, time |-> ToInt(v.tv_sec) * NSEC + v.tv_nsec]
  <2>1. pc = "insert_clock" /\ pc' = "idle" /\ UNCHANGED targets /\ (rows' = rows \/ rows' = Append(rows, Row))
    BY <1>8 DEF InsertClock
  <2>2. /\ Measured = [name |-> call.name, time |-> v.tv_sec * NSEC + v.tv_nsec]
        /\ Measured' = NoCall /\ Measured # NoCall
    BY <2>1, Busy DEF Measured, Recording, Nanoseconds
  <2>3. v.tv_sec \in Int /\ v.tv_nsec \in 0..(NSEC - 1) /\ ToInt(v.tv_nsec) = v.tv_nsec
    BY <1>0, <2>1, ToIntRange DEF TypeOK, Recording, Timespec
  <2>4. CASE rows' = rows
    BY <1>1, <2>1, <2>2, <2>4 DEF J!Lose
  <2>5. ASSUME rows' = Append(rows, Row)
        PROVE  /\ DOMAIN rows' = DOMAIN rows \cup {k}
               /\ \A i \in DOMAIN rows : rows'[i] = rows[i] /\ i < k
               /\ rows'[k] = Row
    BY <1>0, <2>5, Inserted
  <2>6. Row.target = id /\ Row.s * NSEC + Row.ns = ToInt(v.tv_sec) * NSEC + v.tv_nsec
    BY <2>3 DEF Row
  <2>7. CASE rows' = Append(rows, Row) /\ id <= 0
    <3>1. \A t \in targets : t.id > 0 /\ t.id \in Int
      BY <1>0 DEF TypeOK
    <3>2. \A t \in targets : Row.target # t.id
      BY <1>0, <2>6, <2>7, <3>1 DEF TypeOK
    <3> HIDE DEF k
    <3>3. UNCHANGED Pairs
      BY <2>1, <2>5, <2>7, <3>2 DEF Pairs
    <3>4. \A q \in Pairs : rows'[q[1]] = rows[q[1]]
      BY <2>5, <2>7 DEF Pairs
    <3>5. UNCHANGED Joined
      BY <3>3, <3>4 DEF Joined, Pairs
    <3> QED
      BY <2>2, <3>5 DEF J!Lose
  <2>8. CASE rows' = Append(rows, Row) /\ id > 0
    <3>1. [id |-> id, name |-> call.name] \in targets
      BY <2>1, <2>8 DEF Inv, CallInv
    <3>2. \A t \in targets : t.id = id => t.name = call.name
      BY <3>1 DEF Inv, NamesUnique
    <3>3. Joined' = Joined \cup {entry}
      <4> HIDE DEF v, k
      <4>1. ASSUME NEW e \in Joined' PROVE e \in Joined \cup {entry}
        <5>1. PICK p \in Pairs' :
                 e = [row |-> p[1], name |-> p[2].name, time |-> rows'[p[1]].s * NSEC + rows'[p[1]].ns]
          BY <4>1 DEF Joined, Pairs
        <5>2. p \in (DOMAIN rows') \X targets /\ rows'[p[1]].target = p[2].id
          BY <2>1, <5>1 DEF Pairs
        <5>3. CASE p[1] = k
          BY <2>5, <2>6, <2>8, <3>2, <5>1, <5>2, <5>3
        <5>4. CASE p[1] \in DOMAIN rows
          <6>1. p \in Pairs /\ rows'[p[1]] = rows[p[1]]
            BY <2>5, <2>8, <5>2, <5>4 DEF Pairs
          <6> QED
            BY <5>1, <6>1 DEF Joined, Pairs
        <5> QED
          BY <2>5, <2>8, <5>2, <5>3, <5>4
      <4>2. ASSUME NEW e \in Joined PROVE e \in Joined'
        <5>1. PICK p \in Pairs :
                 e = [row |-> p[1], name |-> p[2].name, time |-> rows[p[1]].s * NSEC + rows[p[1]].ns]
          BY <4>2 DEF Joined, Pairs
        <5>2. p \in Pairs' /\ rows'[p[1]] = rows[p[1]]
          BY <2>1, <2>5, <2>8 DEF Pairs
        <5> QED
          BY <5>1, <5>2 DEF Joined, Pairs
      <4>3. entry \in Joined'
        <5> DEFINE p == <<k, [id |-> id, name |-> call.name]>>
        <5>1. /\ p \in (DOMAIN rows') \X targets' /\ p[1] = k
              /\ p[2].id = id /\ p[2].name = call.name /\ rows'[p[1]] = Row
          BY <2>1, <2>5, <2>8, <3>1
        <5> HIDE DEF p
        <5>2. entry = [row |-> p[1], name |-> p[2].name, time |-> rows'[p[1]].s * NSEC + rows'[p[1]].ns]
          BY <2>6, <5>1
        <5>3. p \in Pairs'
          BY <2>6, <5>1 DEF Pairs
        <5> QED
          BY <5>2, <5>3 DEF Joined, Pairs
      <4> QED
        BY <4>1, <4>2, <4>3
    <3>4. \A e \in Joined : e.row < entry.row
      <4> SUFFICES ASSUME NEW e \in Joined PROVE e.row < k
        OBVIOUS
      <4>1. PICK p \in Pairs :
               e = [row |-> p[1], name |-> p[2].name, time |-> rows[p[1]].s * NSEC + rows[p[1]].ns]
        BY DEF Joined, Pairs
      <4>2. p[1] \in DOMAIN rows
        BY DEF Pairs
      <4> QED
        BY <2>5, <2>8, <4>1, <4>2
    <3>5. /\ entry.time \in (-(IntHalf * NSEC))..(IntHalf * NSEC - 1)
          /\ (entry.time - Measured.time) % (2 * (IntHalf * NSEC)) = 0
      BY <2>2, <2>3, StoredTime
    <3>6. entry.name = Measured.name
      BY <2>2
    <3> HIDE DEF entry
    <3> QED
      BY <2>2, <3>3, <3>4, <3>5, <3>6 DEF J!Commit
  <2>9. id \in Int
    BY <1>0 DEF TypeOK
  <2> QED
    BY <2>1, <2>4, <2>7, <2>8, <2>9
<1>9. CASE Restart
  <2>1. Measured' = NoCall /\ UNCHANGED <<rows, targets>>
    BY <1>9 DEF Restart, database, Measured, Recording
  <2>2. CASE pc \in Recording
    BY <1>1, <2>1, <2>2, Busy DEF J!Lose, Measured
  <2>3. CASE pc \notin Recording
    BY <1>1, <2>1, <2>3 DEF Measured
  <2> QED
    BY <2>2, <2>3
<1>10. CASE Pass \/ SetClock
  BY <1>1, <1>2, <1>10 DEF Pass, SetClock, memory, database
<1>11. CASE UNCHANGED vars
  BY <1>1, <1>2, <1>11 DEF vars
<1> QED
  BY <1>3, <1>4, <1>5, <1>6, <1>7, <1>8, <1>9, <1>10, <1>11 DEF Next, execute_insert_query

\* Logtime implements the journal: whatever fails and whenever the process dies, a
\* reader who joins the tables finds each measured interval in one row at most,
\* under the name it was measured for, as far as an int holds it; and what he found
\* once he finds for ever.
THEOREM Refinement == Spec => JournalSpec
<1>1. Init => J!Init
  BY DEF Init, J!Init, Measured, Joined, Recording
<1> QED
  BY <1>1, JournalStep, Invariance, PTL DEF Spec, JournalSpec, J!Spec
=============================================================================
