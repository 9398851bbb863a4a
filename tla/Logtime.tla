------------------------------- MODULE Logtime -------------------------------
(***************************************************************************)
(* The log of response times (src/src/logtime.c): clocks in memory, two    *)
(* tables in a database file that other programs may lock.  Results of     *)
(* SQLite calls are not checked; the process may die between any two       *)
(* statements and starts again on the same file.                           *)
(***************************************************************************)
EXTENDS Integers, Sequences

CONSTANTS
    Name,      \* names of targets
    NSEC,      \* nanoseconds in a second: 1000000000 in the code
    IntHalf,   \* half the range of an int: 2^31 in the code
    Seconds,   \* tv_sec of the values CLOCK_REALTIME takes
    MaxId,     \* bound: largest row id
    MaxRows    \* bound: rows of the table clocks

ASSUME LogtimeAssumption ==
    /\ NSEC \in Nat \ {0}
    /\ IntHalf \in Nat /\ NSEC <= IntHalf
    /\ Seconds \subseteq Nat
    /\ MaxId \in Nat
    /\ MaxRows \in Nat

Timespec == [tv_sec : Int, tv_nsec : 0..(NSEC - 1)]

\* What clock_gettime may return.
Now == [tv_sec : Seconds, tv_nsec : 0..(NSEC - 1)]

Unstarted == [tv_sec |-> 0, tv_nsec |-> -1]

NoCall == [name |-> "", interval |-> Unstarted]

VARIABLES
    pc,        \* the statement that is executed next
    clocks,    \* clocks[n]: departure of the clock named n, or Unstarted
    call,      \* name and interval of the record in progress
    id,        \* local variable id of execute_insert_query
    tables,    \* tables that exist
    targets,   \* rows of the table targets
    rows,      \* rows of the table clocks by row id; name is the one they were recorded for
    failed,    \* history: a statement failed
    now,       \* CLOCK_REALTIME
    steady,    \* history: names that departed since that clock was last set
    since      \* since[n]: nanoseconds that passed since n departed, for n in steady

vars == <<pc, clocks, call, id, tables, targets, rows, failed, now, steady, since>>
memory == <<clocks, call>>
wall == <<now, steady, since>>
database == <<tables, targets, rows>>

-----------------------------------------------------------------------------
(* Pure parts                                                               *)

\* Mutant: no borrow.
timespec_diff_plain(start, stop) ==
    [tv_sec |-> stop.tv_sec - start.tv_sec, tv_nsec |-> stop.tv_nsec - start.tv_nsec]

timespec_diff(start, stop) ==
    IF stop.tv_nsec - start.tv_nsec < 0
    THEN [tv_sec |-> stop.tv_sec - start.tv_sec - 1, tv_nsec |-> stop.tv_nsec - start.tv_nsec + NSEC]
    ELSE [tv_sec |-> stop.tv_sec - start.tv_sec, tv_nsec |-> stop.tv_nsec - start.tv_nsec]

Nanoseconds(t) == t.tv_sec * NSEC + t.tv_nsec

\* The conversion of tv_sec to the int that sqlite3_bind_int takes.
ToInt(x) == ((x + IntHalf) % (2 * IntHalf)) - IntHalf

-----------------------------------------------------------------------------
(* SQLite: a statement on a table that exists succeeds or finds the         *)
(* database locked; without the table it is not even prepared.              *)

Outcomes(table) == IF table \in tables THEN {TRUE, FALSE} ELSE {FALSE}

\* Mutant: everything but a row means that the name is unknown.
get_target_id_strict(name, ok, result) ==
    IF ok /\ \E t \in targets : t.name = name THEN [id |-> result, name |-> name] \in targets ELSE result = -1

\* Mutant: the query has no WHERE clause.
get_target_id_any(name, ok, result) ==
    IF ok THEN IF targets = {} THEN result = -1 ELSE \E t \in targets : t.id = result ELSE result = 0

\* result is -1 only if the query ran and found nothing; column 0 of a statement
\* that failed reads as 0.
get_target_id(name, ok, result) ==
    \/ ok /\ \E t \in targets : t.name = name /\ t.id = result
    \/ ok /\ (\A t \in targets : t.name # name) /\ result = -1
    \/ ~ok /\ result = 0

\* The row id SQLite gives to a new row: one more than the largest.
NewId(i) ==
    /\ \A t \in targets : t.id < i
    /\ i = 1 \/ \E t \in targets : t.id = i - 1

-----------------------------------------------------------------------------
Init ==
    /\ pc = "create_targets"
    /\ clocks = [n \in Name |-> Unstarted]
    /\ call = NoCall /\ id = 0
    /\ tables = {} /\ targets = {} /\ rows = <<>>
    /\ failed = FALSE
    /\ now \in Now /\ steady = {} /\ since = [n \in Name |-> 0]

\* logtime_init
create_table(table, at, next) ==
    /\ pc = at
    /\ \E ok \in BOOLEAN :
          /\ tables' = IF ok THEN tables \cup {table} ELSE tables
          /\ failed' = (failed \/ ~ok)
    /\ pc' = next
    /\ UNCHANGED <<memory, id, targets, rows, wall>>

logtime_init ==
    \/ create_table("targets", "create_targets", "create_clocks")
    \/ create_table("clocks", "create_clocks", "idle")

\* Mutant: a clock that runs is not started again.
logtime_set_start_once(n) ==
    /\ pc = "idle"
    /\ clocks' = [clocks EXCEPT ![n] = IF @ = Unstarted THEN now ELSE @]
    /\ steady' = steady \cup {n} /\ since' = [since EXCEPT ![n] = 0]
    /\ UNCHANGED <<pc, call, id, database, failed, now>>

logtime_set_start(n) ==
    /\ pc = "idle"
    /\ clocks' = [clocks EXCEPT ![n] = now]
    /\ steady' = steady \cup {n} /\ since' = [since EXCEPT ![n] = 0]
    /\ UNCHANGED <<pc, call, id, database, failed, now>>

\* Without a departure there is only a message.
logtime_set_record(n) ==
    /\ pc = "idle"
    /\ clocks[n] # Unstarted
    /\ Len(rows) < MaxRows
    /\ call' = [name |-> n, interval |-> timespec_diff(clocks[n], now)]
    /\ pc' = "select"
    /\ UNCHANGED <<clocks, id, database, failed, wall>>

-----------------------------------------------------------------------------
(* execute_insert_query                                                     *)

SelectTarget(at, missing) ==
    /\ pc = at
    /\ \E ok \in Outcomes("targets"), i \in -1..MaxId :
          /\ get_target_id(call.name, ok, i)
          /\ id' = i
          /\ pc' = IF i = -1 THEN missing ELSE "insert_clock"
          /\ failed' = (failed \/ ~ok)
    /\ UNCHANGED <<memory, database, wall>>

InsertTargetThen(next) ==
    /\ pc = "insert_target" /\ pc' = next
    /\ \E ok \in Outcomes("targets"), i \in 1..MaxId :
          /\ NewId(i)
          /\ targets' = IF ok THEN targets \cup {[id |-> i, name |-> call.name]} ELSE targets
          /\ failed' = (failed \/ ~ok)
    /\ UNCHANGED <<memory, id, tables, rows, wall>>

\* Mutant: the id of the new row is not looked up.
InsertTargetBlind == InsertTargetThen("insert_clock")

InsertTarget == InsertTargetThen("reselect")

Row == [target |-> id, name |-> call.name,
        s |-> ToInt(call.interval.tv_sec), ns |-> ToInt(call.interval.tv_nsec)]

\* Mutant: the insertion is repeated although it succeeded.
InsertClockTwice ==
    /\ pc = "insert_clock" /\ pc' = "idle"
    /\ rows' \in {rows, rows \o <<Row, Row>>}
    /\ call' = NoCall /\ id' = 0
    /\ UNCHANGED <<clocks, tables, targets, failed, wall>>

InsertClock ==
    /\ pc = "insert_clock" /\ pc' = "idle"
    /\ \E ok \in Outcomes("clocks") :
          /\ rows' = IF ok THEN Append(rows, Row) ELSE rows
          /\ failed' = (failed \/ ~ok)
    /\ call' = NoCall /\ id' = 0
    /\ UNCHANGED <<clocks, tables, targets, wall>>

execute_insert_query ==
    \/ SelectTarget("select", "insert_target")
    \/ InsertTarget
    \/ SelectTarget("reselect", "insert_clock")
    \/ InsertClock

\* The monitor dies, or stops with logtime_close, and is started again.
Restart ==
    /\ pc' = "create_targets"
    /\ clocks' = [n \in Name |-> Unstarted]
    /\ call' = NoCall /\ id' = 0
    /\ steady' = {} /\ since' = [n \in Name |-> 0]
    /\ UNCHANGED <<database, failed, now>>

-----------------------------------------------------------------------------
(* The wall clock.  A call in progress has read it already: time that       *)
(* passes during a statement may as well pass after the call.               *)

Pass ==
    /\ pc = "idle"
    /\ now' \in Now /\ Nanoseconds(now) < Nanoseconds(now')
    /\ since' = [n \in Name |-> IF n \in steady THEN since[n] + (Nanoseconds(now') - Nanoseconds(now)) ELSE 0]
    /\ UNCHANGED <<pc, memory, id, database, failed, steady>>

\* Somebody sets the clock, forth or back: nothing is known any more of the time
\* since an earlier departure.
SetClock ==
    /\ pc = "idle"
    /\ now' \in Now
    /\ steady' = {} /\ since' = [n \in Name |-> 0]
    /\ UNCHANGED <<pc, memory, id, database, failed>>

-----------------------------------------------------------------------------
Next ==
    \/ logtime_init
    \/ \E n \in Name : logtime_set_start(n) \/ logtime_set_record(n)
    \/ execute_insert_query
    \/ Restart
    \/ Pass \/ SetClock

Spec == Init /\ [][Next]_vars

-----------------------------------------------------------------------------
(* Properties                                                               *)

Recording == {"select", "insert_target", "reselect", "insert_clock"}

\* Every variable has its type; an interval being recorded is normalised.
TypeOK ==
    /\ pc \in Recording \cup {"create_targets", "create_clocks", "idle"}
    /\ clocks \in [Name -> Now \cup {Unstarted}]
    /\ IF pc \in Recording THEN call \in [name : Name, interval : Timespec] ELSE call = NoCall
    /\ id \in -1..MaxId
    /\ tables \subseteq {"targets", "clocks"}
    /\ targets \subseteq [id : 1..MaxId, name : Name]
    /\ rows \in Seq([target : -1..MaxId, name : Name, s : (-IntHalf)..(IntHalf - 1), ns : 0..(NSEC - 1)])
    /\ failed \in BOOLEAN
    /\ now \in Now
    /\ steady \subseteq Name
    /\ since \in [Name -> Int]

\* execute_insert_query keeps one id per name and one name per id, although the
\* table has no such constraint, the lookup and the insertion are separate
\* statements, either may fail and the process may die in between.
NamesUnique ==
    \A t, u \in targets : t.name = u.name \/ t.id = u.id => t = u

\* A logged time is never attributed to another target: it has the id of the
\* name it was recorded for, or an id no target has.
RowsAttributed ==
    \A i \in DOMAIN rows : rows[i].target > 0 => [id |-> rows[i].target, name |-> rows[i].name] \in targets

\* The interval being recorded is the time that passed since the last departure of
\* its own name, however often this and other clocks were started and read before.
\* It is said only for a wall clock that nobody set in between: logtime_set_record
\* has no other clock, and what it logs across a set clock may even be negative.
IntervalExact ==
    pc \in Recording /\ call.name \in steady => Nanoseconds(call.interval) = since[call.name]

\* FOREIGN KEY(target) REFERENCES targets(id) in the schema of logtime_init:
\* every logged time belongs to a target.
ForeignKey == \A i \in DOMAIN rows : \E t \in targets : t.id = rows[i].target

\* As long as no statement fails, crashes at any point leave no orphan.
OrphansNeedFailure == ~failed => ForeignKey

-----------------------------------------------------------------------------
\* The record in progress, and the rows and names a reader finds by joining the
\* two tables on the id.
Measured == IF pc \in Recording THEN [name |-> call.name, time |-> Nanoseconds(call.interval)] ELSE NoCall

Joined ==
    {[row |-> p[1], name |-> p[2].name, time |-> rows[p[1]].s * NSEC + rows[p[1]].ns] :
        p \in {q \in (DOMAIN rows) \X targets : rows[q[1]].target = q[2].id}}

J == INSTANCE Journal WITH
         measured <- Measured, journal <- Joined, Half <- IntHalf * NSEC, None <- NoCall

\* execute_insert_query implements the journal: through failing statements and
\* crashes between any two of them a measured interval is logged in one row at
\* most, under the name it was measured for, and rows without a target never turn
\* up under a name that is inserted later.
JournalSpec == J!Spec
=============================================================================
