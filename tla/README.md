# Verification of hearthbeat

TLA+ models of hearthbeat's two programs, `beat` (a server that answers every
connection and datagram) and `monitor` (a client that polls targets and sends
Telegram notifications), checked with TLC on small instances and, where the
prover reaches, proved with TLAPS for every instance.

## 1. Inventory

| Component | Source | State | Operations | Hard part |
|---|---|---|---|---|
| monitor event loop | `monitor.c` | per target: `poll_ev`, `err_ev`, `isonline`; one UDP socket | callbacks `handle_poll_event`, `handle_err_event`, `handle_answer`; `handle_signal`; start, restart | lookups and Telegram calls block the single thread; libevent caches the time per iteration; one datagram per iteration; timers expire while answers queue |
| logtime | `logtime.c` | clocks in memory; tables `targets`, `clocks` | `logtime_init`, `_set_start`, `_set_record`, `_close` | no result of SQLite is checked; crash between statements; wall clock |
| telegram | `telegram.c` | user id, token | `telegram_init`, `telegram_send_message` | blocks without timeout, result ignored, exits when libcurl fails to start |
| argparse | `argparse.c` | registered callbacks and pointers | register, `argparse_read_properties` | two users share global registrations; fixed line buffer |
| target definitions | `monitor.c` `init` | list of strings to `struct target` | split at first and last colon | definitions with one colon |
| beat serving loop | `beat.c` 140-204 | descriptors, `tcp_sock` | poll, accept, send, close, recvfrom/sendto | clients act between the calls; every failure is reported and then ignored |
| beat process life | `beat.c` 52-138, 205-208 | pid file, ports, `fork_pid` | fork, write pid file, bind, stop | overlapping instances, crash and restart, signals at any point |
| command line of beat | `beat.c` 30-50 | port, fork | `parse_opt` | port wider than 16 bits |
| installation | `configure` | unit files | - | `Restart=always`, `Type=forking` |
| SQLite, cJSON | `libs/` | - | - | third party |

How they interact: `monitor` sends a datagram to a target's `beat` (or to any
other UDP service); `beat` answers to the sender; `handle_answer` looks up which
target has the sender's address.  Within `monitor`, `main` calls `init`
(argparse), `logtime_init` and `telegram_init` (argparse again), then runs the
libevent loop; `send_bip` calls `logtime_set_start`; `handle_answer` calls
`reset_error_timer`, which may notify, and then `logtime_set_record`.  All of it
is one thread; concurrency comes from the network, from the blocking calls, from
signals, from other users of the database file and from other instances of
`beat`.

What makes each part correct:

- monitor: no target drops out of polling; `err_ev` measures the silence of an
  online target; "up" and "down" alternate and "down" needs `err_interval` of
  silence; a target believed online has answered recently; silence is noticed.
- logtime: a logged time belongs to the target it was measured for and, unless
  somebody sets the clock, is the time since the departure; the log survives
  crashes.
- beat loop: the only descriptors left between turns are the server sockets;
  clients are served, and a datagram is answered once and to its sender.
- beat process: one daemon per port, the pid file names it, a process that is
  launched comes up whatever the ones before it left behind.
- argparse, target definitions, start: a file that follows the rules of the
  repository's README is understood as written; nothing is left over from one
  file for the next.
- telegram: whatever step of a call fails, nothing is left in use, and a call does
  not report a success the server did not have.
- the whole: a live host is not declared down without a fault or lost time, a dead
  one is noticed, a live one is found again.

## 2. Modules

| Module | What it is |
|---|---|
| `Detector` | abstract specification: what the monitor promises its user about a target |
| `Monitor` | the monitor's event loop; states its refinement of `Detector` |
| `MonitorProofs` | its proofs |
| `Host` | abstract specification: what a host promises those who send it datagrams |
| `BeatLoop`, `BeatLoopProofs` | the serving loop of beat, with its clients; refines `Host` |
| `BeatDaemon`, `BeatDaemonProofs` | life of beat processes: fork, pid file, ports, signals, restart |
| `Journal` | abstract specification: what the log promises a reader of the database |
| `Logtime`, `LogtimeProofs` | clocks and database of response times; refines `Journal` |
| `ArgParse` | registrations and the configuration reader, with the README's reading of a file as reference |
| `Telegram` | the steps of a call of the Telegram API |
| `Startup`, `StartupProofs` | `main` around the loop: composes `ArgParse` and `Telegram` with `init`, `telegram_init` and `handle_signal` |
| `ConfigurationProofs` | the proof that regular files are read as documented |
| `Heartbeat`, `HeartbeatProofs` | the whole system: `Monitor`, a host behind every address, the network between them |
| `MCMonitor`, `MCBeatLoop`, `MCBeatDaemon`, `MCLogtime`, `MCStartup`, `MCHeartbeat` | constants for the runs |

`Heartbeat` extends `Monitor`: every step of the monitor in it is a step of
`Monitor` (theorem `Composition`).  Its hosts are written after `Host`, which
`BeatLoop` implements (theorem `Refinement`), with the monitor as their only peer:
the datagrams that wait are counted instead of named, an answer that beat fails to
send is an answer followed by its loss, and an error of the host's socket, which
the monitor cannot cause, is left out.  No property relates the two modules.

Operators keep the names of the C functions they model (`handle_answer`,
`reset_error_timer`, `signal_handler`, `timespec_diff`, ...).  Definitions under
a comment that begins with "Mutant" are not used by any specification: each is
the definition below it with one plausible slip, and TLC finds a property
violated when it takes that definition's place.

### Monitor

A callback is split at its blocking calls; everything between two of them is one
action.  `pc` says where the thread is: `wait` (in the loop, nothing to do),
`recv` and `run` (handling the socket event, running expired timers),
`get_target`, `up`, `send_bip`, `down` (inside a lookup or a Telegram call),
`starting` (the "Starting monitor" message before the loop), `stopping`, `hung`,
`exited`.

- Time is counted in ticks.  `left[e]` is the time to the deadline of timer `e`;
  `lag` is the time since libevent read the clock in this iteration.  `Tick` can
  happen while the loop waits and nothing is due, inside blocking calls and while
  callbacks run.
- libevent is external.  `Dispatch` activates the socket event and every expired
  timer; the socket comes first, timers follow by deadline.  `Rearm` is what a
  persistent timer does before its callback: one interval after its last
  deadline, or after the cached time if that is past, and not at all if the
  interval is 0.  `reset_error_timer` takes `err_ev` out of the heap or the active
  queue (`evtimer_del`) and counts from the cached time (`evtimer_add`).
- Lookups: `Resolve[t]` is the set of addresses `getaddrinfo` may give; every
  answer picks one for every target, or a failure; the first match wins.
- `handle_signal` may come at any point; interrupting a blocking call, it may
  also hang.  `Exit` is the end of the handler, a kill, or the `exit(-1)` of
  `call_telegram_api`; `Restart` is the unit file's.
- History variables: `told` (last notification attempted), `quiet` (time since an
  answer was read), `held` (age of the datagram in hand), `ready` (datagrams that
  were in the socket when the iteration began).  Whether Telegram takes a
  notification does not matter here, because `telegram_send_message` drops the
  result.

`Detector` keeps only `told` and `quiet`, under the same names, so the mapping is
the identity on them and forgets everything else.

### BeatLoop

One action per system call of a turn, because clients connect, reset and send
between any two of them.  `poll` reports what is readable; when it fails
(`PollFails`), the code goes by what the last successful call left in `revents`, so
that `recvfrom` may wait for a datagram that is not there (`Blocked`).  `accept`
takes the lowest free descriptor; a failing `accept` leaves -1 in `tcp_sock` and the
turn goes on; a failing `send` closes the descriptor and `Close` closes the number
again.  In the UDP branch `recvfrom` puts the sender into `client_addr` and `sendto`
answers it or fails; after an error of `recvfrom` (an entry `None` in the queue)
`client_addr` is not initialised and the answer goes anywhere.  `Die` stands for a
stop signal and for SIGPIPE; `Restart` starts over with fresh sockets.

`Host` is what is left of it for the senders of datagrams: a flag, the datagrams
that wait, by sender, and the answers on their way.  The mapping is
`up <- pc # "dead"`, `waiting <- Unanswered` (the queue and the datagram in hand),
`replies` itself; everything about TCP and the reading of a datagram is a stutter.

### BeatDaemon

Process ids are reused.  `Launch` is `main` up to the fork, for any combination
of options; a failing fork changes nothing (the parent branch exits with success).
The pid file is a pair of what it holds and its length, because `fopen` truncates,
the digits are written by `fclose` at offset 0, and two writers may overlay each
other ("garbled").  `signal_handler` has two steps: TCP closed, then UDP closed and
exit.  `die` is any failing call of the start-up; `Kill` is SIGKILL or a signal
that arrives before the handlers are installed.  A port is bound only if nobody
has it and none of its connections is in TIME_WAIT, for the code does not set
`SO_REUSEADDR` and closes its connections first.  Ports that are multiples of
65536 (the kernel then picks any port) are left out.

### Logtime

One action per SQL statement.  A statement succeeds or fails (locked database); a
statement on a missing table always fails.  `get_target_id` relates a name and the
success of its query to the result, with the code's reading of failures: -1 only
when the query ran and found nothing, 0 when it failed.  `Restart` keeps the file
and loses the memory.  `now` is `CLOCK_REALTIME`; it goes on between calls (`Pass`)
and may be set to any value (`SetClock`).  `since` counts the time that passed since
the last departure of a name, step by step, for the names in `steady`, which departed
after the clock was last set.  The rows of the table `clocks` are a sequence, so that
a row that is inserted twice is two rows.

`Journal` keeps the measurement in progress and the entries a reader sees.
`Measured` maps to the former the name and interval of the call while its statements
run, `Joined` to the latter the rows, with their numbers, joined with their targets on the
id: one measurement makes one entry at most, in a row after all others, and a row whose
target was never inserted is invisible, and must stay so.  Stored times wrap around
at the range of the seconds (`Half <- IntHalf * NSEC`).  Measuring is a step of its
own, so everything before it and every statement but the last is a stutter.

### ArgParse, Telegram and Startup

A file is the sequence of pieces `fgets` cuts it into.  A piece knows how it begins
(`#`, newline, or neither), whether it has an `=` and whether its newline is in it;
a value is the sequence of its colon-separated fields, which is what `init` splits,
and `atoi` gives the number its first field begins with.  `fgets` is one turn of the
loop of `argparse_read_properties`; `EndOfFile` frees the registrations, the early
return of `fopen` does not.  `mem[k]` is the variable registered for key `k`; `dead`
holds the keys whose variable was a local of a function that has returned
(`target`, after `init`), and `wild` records a store through such a pointer.

`Lines` and `Documented` are the reference: the lines that begin in the first pieces
of a file and give a key a value by the rules of the repository's README, and what the
variable of the key should hold after them (all the values of a list, in order; the
last value of anything else, or its default).  They are defined by the file alone,
without the reader's state, and know no length of a line.  `Regular` says for which
files the reader can be held to them: those in which only comments do not fit the
buffer and no end of such a comment looks like a property.  An overlong property, or a
last line without its newline (which the README rules out), makes a file irregular.  `Rejoin` is the definition of a target that `Split` took
apart.

A call of the API is split where it may fail: `curl_global_init` (the process
exits: `Exit`), `curl_easy_init`, the `malloc` of `init_string`, the server, each
piece of the answer, `realloc`, and `curl_easy_perform` as a whole.  An answer
parses only when it is complete.  `globals`, `handles`, `posted`, `buffers` count
what is in use.  `handle_signal` starts a message of its own in the middle of
anything and does not go back.

### Heartbeat

`bips` and `answers` are the addresses a datagram is on its way to or from.  A
datagram that arrives may stay on its way (a duplicate), be overtaken by a later
one, or be lost (`Lose`).  A host answers one datagram at a time, crashes with its
queue and recovers.  An unreachable host may put an error into the monitor's
socket.  Two histories make false alarms precise: `excused` holds the targets with
a fault (loss, crash, failed lookup or send) since they were last heard, and
`delay` counts the time lost since then: ticks in which the loop was not waiting,
or in which a datagram of the target was on its way.

## 3. Runs

| Run | Checks | Shows |
|---|---|---|
| `monitor` | `TypeOK`, `Watched`, `TimerMeasuresSilence`, `NoStaleOnline`, `ToldIsOnline`, `LogSound`, `Prompt`, `DetectorSpec` | the safety of the monitor, 2.5 million states |
| `monitor_live` | `PolledForever`, `SilenceDetected` | under `LiveSpec` |
| `monitor_silent` | `SilentIsReported` violated | a target that never answered is never reported |
| `monitor_queued` | `ResponseResetsTimer` violated | declared down with its answer in the socket |
| `beat_loop` | `TypeOK`, `NothingLeaks`, `TcpServed`, `UdpServed`, `HostSpec` | descriptors and service under any failing call; beat is a host; under `LiveSpec` |
| `beat_daemon` | `TypeOK`, `ServesAlone`, `PidfileNamesDaemon`, `ServiceResumes` | ports, pid file and restarts, three overlapping processes, under `LiveSpec` |
| `beat_daemon_stale` | `PidfileRemoved` violated | the pid file always stays |
| `beat_daemon_stolen` | `PidfileOfOnlyDaemon` violated | an instance that fails on its sockets leaves its pid to the daemon that serves |
| `logtime` | `TypeOK`, `NamesUnique`, `RowsAttributed`, `IntervalExact`, `OrphansNeedFailure`, `JournalSpec` | the log through failures, crashes and a clock that is set |
| `startup` | `TypeOK`, `AsDocumented`, `NoWildWrite`, `Balanced`, `SuccessIsReal` | configuration and API calls, 2550 pairs of files |
| `heartbeat` | `HTypeOK`, `NoFalseAlarm`, `DeadNoticed`, `AliveNoticed` | the whole system, under `HLiveSpec` |
| `logtime_orphan` | `ForeignKey` violated | rows without a target |

A run that ends in a violation checks a statement of the repository (its README, a
message or the schema) that the code does not keep; PROJECT.json quotes it.  More
disagreements that have no run of their own:

- README.md:13 names `/etc/hearthbeat/pid`, the code and the unit file use
  `/var/hearthbeat/pid`.
- `argparse.h`:33 says that reading frees all the resources; the early return at
  `argparse.c`:118 does not.  `NoWildWrite` therefore needs the monitor's file to be
  readable: otherwise a `target=` line in telegram's file is stored through a pointer
  to a local of `init`.  `AsDocumented` says what is set after an unreadable file as
  long as that did not happen, and leaves `myname` out, which telegram's file can then
  set.
- README.md:21-24 makes every `<key>=<value>` line a property and gives no length.
  `argparse.c`:121-130 reads a line that does not fit 255 characters in pieces: a
  property that long is dropped, and the last piece of any long line is looked at as a
  line of its own.  `AsDocumented` therefore says nothing of such files (`Regular`):
  it covers overlong comments, not overlong properties nor ends that look like one.
- README.md:66 says of the unit file that one "can forget about it and just let it do
  its job".  It has `Restart=always` with systemd's default start limit (five starts in
  ten seconds, 100 ms apart), and a restarted beat fails on bind as long as the port has
  connections in TIME_WAIT, which is longer: the unit may end as failed.
  `ServiceResumes` therefore says only that service comes back as long as beat keeps
  being launched.
- `logtime.c` measures with `CLOCK_REALTIME`: across a clock that is set, what it logs
  is not the time between departure and arrival.  `IntervalExact` excepts that case.
- README.md:9 says that a datagram is answered; connections that keep coming leave
  it unread, which is why `UdpServed` has an exception.  It says the same of connections;
  one that arrives while the loop waits in `recvfrom` after a failing `poll` is not
  accepted, the exception of `TcpServed`.
- README.md:17 says that a notification is sent; one that Telegram does not take is
  not repeated, because `telegram_send_message` drops the result.

Bounds, and why they are enough:

- Monitor: two targets that may have an address in common and have different
  names, `PollInterval` 1, `ErrInterval` 2, a blocking of at most `MaxLag` = 2
  ticks per iteration (as long as the error interval, so a timer can expire
  during it), two datagrams in the socket (one in front of another).  The liveness
  run uses one datagram and a lag of 1; the proofs have no bounds.
- BeatLoop: two clients, a backlog of two, one descriptor to spare (a leak shows
  at once).
- BeatDaemon: three process ids, of one and of two digits, with one port between
  them, given as 48807 + 65536; two processes in the runs that end in a violation.
  Two values that mean one port are left to the proofs: with them the liveness check
  takes too long.
- Logtime: two names, two "nanoseconds" to a second, a clock that shows the seconds 0
  and 2, an int of four values (so that the seconds overflow), two rows, ids up to three
  (one more than names).
- Startup: the monitor's file has up to three pieces out of seven (comment, the
  beginning of an overlong comment, an interval, definitions with two, three and
  four fields, one without its newline) with up to one piece in telegram's file, or
  up to one with up to two; either file may be unreadable.  Three pieces are the
  beginning of an overlong line, its end and a line after it.  An answer has two
  pieces, a process makes two calls and the one of `handle_signal`.
- Heartbeat: one target with one address, `PollInterval` 1, `ErrInterval` 3, one tick
  of blocking per iteration, one datagram in the socket and one at the host;
  `ErrInterval - PollInterval` = 2, so a false alarm takes more than one delay to
  excuse.  The inductive invariant behind `NoFalseAlarm` was also checked with two
  ticks of blocking and two datagrams in the socket; the proof has no bounds.

Deadlock is checked in every run; none of the systems stops for good.

## 4. Fairness

- Monitor: weak fairness of the monitor's own steps says that blocking calls
  return and that the loop goes on.  For Telegram this is an assumption: the code
  sets no timeout.  Strong fairness of `Tick` says that time passes although
  datagrams may keep the loop busy.  Nothing is assumed of signals, restarts,
  answers or deliveries; the properties except a process that is stopped again
  and again.
- BeatLoop: weak fairness of the loop's steps (after a successful `poll` no call
  blocks), strong fairness of `Poll` (it does not fail for ever) and of `Accept` (the
  system is not out of descriptors whenever accept is tried).  Nothing is assumed of
  restarts and of clients.
- BeatDaemon: TIME_WAIT ends; a start-up call that cannot succeed fails; strong
  fairness of every start-up step says that neither kills nor failures hit the same
  step for ever.  Nothing is assumed of `Launch`, because systemd stops restarting a
  unit that fails quickly: `ServiceResumes` has the launches as its premise.

- Heartbeat: the monitor and time as above.  A live host answers (weak fairness of
  `Answer`: the loop of beat, by `UdpServed`).  Nothing travels for ever, and a
  datagram that is sent again and again gets through (strong fairness of `Receive`
  and `Deliver`); lookups and sends of the monitor do not fail for ever (`SendBip`,
  `Hear`).  Nothing is assumed of crashes, recoveries, losses and duplicates beyond
  that.  Startup states no liveness.

## 5. Proofs

All theorems are checked by TLAPS and hold for all constants that satisfy the
assumptions next to their declaration.

- `MonitorProofs`: `TypeCorrect`, `Invariance`, `AlwaysWatched`, `SilenceMeasured`,
  `OnlineIsFresh`, `UserPicture`, `LogFollowsPoll`, `BoundedLateness`, `Refinement`.  The invariants are
  not inductive.  `QueueInv` adds that an active timer is overdue and that none is
  active while the loop waits; `HandInv` adds that the age of the answer in hand is
  the time since the iteration began, because the socket event runs before the
  timers, so that counting from the cached time counts from the reading.  `Refinement`
  follows because a "down" step needs an active `err_ev` of an online target, hence
  `quiet = ErrInterval` by `TimerMeasuresSilence`.  `BoundedLateness` rests on
  `LateInv`: counted from the cached time, a timer that is not active was not overdue
  when the iteration began, and an active one became due in the iteration before; so
  lateness is what two iterations may block and does not accumulate.  It is the
  part of "silence is noticed" that is a safety property: with `TimerMeasuresSilence`,
  as long as time passes, a silent target is declared down within
  `ErrInterval + 2 * MaxLag`.  `MaxLag` is an assumption on the blocking calls, not
  something the code enforces.
- `BeatLoopProofs`: `TypeCorrect`, `NoLeak`, `Refinement`.  `DescInv` says which
  descriptors are open at each point of a turn and that `tcp_sock` is never a server
  socket.  The refinement of `Host` rests on `OneEach`: no sender is in the queue twice or
  both in the queue and in hand, so that reading moves a datagram and answering removes
  it from `Unanswered`.
- `BeatDaemonProofs`: `TypeCorrect`, `ServingAlone`, `PidfileNames`.  `SockInv` ties
  sockets to progress; that a port is split only while the holder of the UDP side is
  stopping follows from it.  `PidInv` says that an uncontested daemon is the only
  one and what the file holds at each point of its start.
- `LogtimeProofs`: `TypeCorrect`, `OneIdPerName`, `Attribution`, `NoOrphans`,
  `Exactness`.  The last one rests on the lemma `TimespecDiff` about the borrow and on
  `SinceInv`: the reading kept for a steady name is as far behind the clock as the time
  that passed since its departure.  `CallInv` says that what one statement found out is
  still true at the next.  `Refinement` (of `Journal`)
  needs that an insert of a target shows no old row: an orphan has the id 0 or -1 and
  `NewId` is larger than every id of a target, while rows with a positive id have
  their target by `RowsAttributed`.  `StoredTime` says that the conversion to int adds
  a multiple of the range, so that a logged time is the measured one modulo it.

- `StartupProofs`: `TypeCorrect`, `PointersAlive`, `OneLeakPerCall`, `Success`.
  `RegisteredInv` says that the key of `init`'s list is registered only while the
  list lives; `Ledger` says what a call has in use at each of its steps; `AnswerInv`
  says that what has arrived in a call came from this call.
- `ConfigurationProofs`: `Understood`, that is `AsDocumented` for regular files with any number
  of lines, readable or not.
  The invariant `CInv` says that what is left to read is a suffix of the file and that
  every registered variable agrees with the reference over the pieces before it
  (`MonitorInv`, `TelegramInv`), which keys are registered in each stage (`StageInv`),
  and that the targets split so far rejoin to the list that was read, or are none if the
  file was not readable (`TargetInv`).
  No induction over sequences is needed: `LinesStep` says what one more piece adds to
  the reference, and each turn of the reader adds the same (`DocumentedSkip`,
  `DocumentedStore`); the end of an overlong comment is skipped because it does not look
  like a property.
- `HeartbeatProofs`: `Composition`, `HTypeCorrect`, `Accuracy`.  The argument for
  `NoFalseAlarm` is a budget: as long as nothing of an online target got lost and
  `d` ticks were lost, at least `err_interval - poll_interval - d` is left on
  `err_ev`, and if nothing of the target is on its way, also the time to its next
  poll (`Safe`).  A tick without loss spends the latter; `handle_poll_event` replaces
  it by a datagram on its way; an answer that is heard restores everything.

Only model-checked: the liveness properties `PolledForever`, `SilenceDetected`,
`TcpServed`, `UdpServed`, `ServiceResumes`, `DeadNoticed` and `AliveNoticed`; fairness is
out of the prover's reach.

## 6. Not modelled

- SQLite and cJSON (`libs/`, 229932 of the repository's 231095 lines) are
  third-party code that the repository vendors unchanged; modelling them would say
  nothing about hearthbeat.  They appear by the results `logtime.c` and `telegram.c`
  see.  libevent and libcurl are external and modelled in the same way.
- argp and `atoi` of beat's command line; the options themselves are modelled.
- Memory safety of the C buffers, for example `buffer[count]` in `handle_answer`, and
  the variable arguments of `die`.
- Negative intervals, which `atoi` accepts and libevent does not document.
- Wording of messages and of the JSON request; the file layout `configure` installs.

Left for later: several targets in the run `heartbeat`, whose liveness is checked
with one; `Accuracy` already covers any number.
