------------------------------- MODULE Startup -------------------------------
(***************************************************************************)
(* The monitor process before and around its event loop: init reads the    *)
(* configuration and splits target definitions, telegram_init reads its    *)
(* own file with the same reader, and then messages are sent from the      *)
(* loop's callbacks and from handle_signal.                                *)
(***************************************************************************)
EXTENDS ArgParse, Telegram

CONSTANTS
    Configuration,   \* pairs of files: [monitor, telegram], None if not readable
    MaxCalls         \* bound: API calls of one process

ASSUME ConfigurationAssumption ==
    /\ MaxCalls \in Nat
    /\ \A c \in Configuration :
          /\ DOMAIN c = {"monitor", "telegram"}
          /\ c.monitor \in {None} \cup Seq(Piece) /\ c.telegram \in {None} \cup Seq(Piece)

VARIABLES
    pc,        \* the call of main that comes next, or is in progress
    conf,      \* the files; a process reads each of them once
    targets,   \* the targets split so far
    tv         \* poll_tv and err_tv

vars == <<pc, conf, targets, tv, argparse, telegram>>

MonitorKeys == {"target", "myname", "poll_interval", "err_interval"}
TelegramKeys == {"user_id", "token"}

Init ==
    /\ pc = "init" /\ conf \in Configuration
    /\ targets = <<>> /\ tv = <<0, 0>>
    /\ ArgInit /\ TelegramInit

\* The process ends and its memory goes with it.
Die ==
    /\ pc' = "exited" /\ targets' = <<>> /\ tv' = <<0, 0>>
    /\ registered' = {} /\ mem' = Zeroed /\ dead' = {} /\ wild' = FALSE /\ open' = FALSE /\ input' = <<>>
    /\ call' = "none" /\ data' = FALSE /\ out' = NULL /\ says' = FALSE /\ ok' = FALSE /\ result' = FALSE
    /\ globals' = 0 /\ handles' = 0 /\ posted' = 0 /\ buffers' = 0 /\ calls' = 0
    /\ UNCHANGED conf

-----------------------------------------------------------------------------
(* init                                                                     *)

init ==
    /\ pc = "init"
    /\ register_pointer(MonitorKeys, [k \in {"myname"} |-> <<"myself">>])
    /\ fopen(conf.monitor)
    /\ pc' = "targets"
    /\ UNCHANGED <<conf, targets, tv, dead, wild, telegram>>

ReadProperties ==
    /\ pc \in {"targets", "validate_token"}
    /\ fgets \/ EndOfFile
    /\ UNCHANGED <<pc, conf, targets, tv, telegram>>

Definition == mem["target"][Len(targets) + 1]

\* The name ends at the first colon and the port begins after the last one.
Split(d) == [name |-> Head(d), host |-> SubSeq(d, 2, Len(d) - 1), port |-> <<d[Len(d)]>>]

AddTarget ==
    /\ pc = "targets" /\ ~open
    /\ Len(targets) < Len(mem["target"]) /\ Len(Definition) >= 3
    /\ targets' = Append(targets, Split(Definition))
    /\ UNCHANGED <<pc, conf, tv, argparse, telegram>>

\* Without a colon init dies; with one, the host's length is -1 and strncpy
\* writes until the process is killed for it.
BadTarget ==
    /\ pc = "targets" /\ ~open
    /\ Len(targets) < Len(mem["target"]) /\ Len(Definition) < 3
    /\ Die

\* The timevals are set, the socket is bound, and the local list goes away.
InitReturns ==
    /\ pc = "targets" /\ ~open /\ Len(targets) = Len(mem["target"])
    /\ tv' = <<mem["poll_interval"], mem["err_interval"]>>
    /\ dead' = {"target"}
    /\ pc' = "telegram_init"
    /\ UNCHANGED <<conf, targets, registered, mem, wild, open, input, telegram>>

-----------------------------------------------------------------------------
(* telegram_init, whose result main ignores, and the messages               *)

telegram_init ==
    /\ pc = "telegram_init"
    /\ register_pointer(TelegramKeys, <<>>)
    /\ fopen(conf.telegram)
    /\ pc' = "validate_token"
    /\ UNCHANGED <<conf, targets, tv, dead, wild, telegram>>

validate_token ==
    /\ pc = "validate_token" /\ ~open
    /\ IF mem["user_id"] # 0 /\ mem["token"] # None THEN call_telegram_api(FALSE) ELSE UNCHANGED telegram
    /\ pc' = "starting"
    /\ UNCHANGED <<conf, targets, tv, argparse>>

\* "Starting monitor", and then whatever the loop's callbacks have to say.
telegram_send_message ==
    /\ pc \in {"starting", "running"} /\ calls < MaxCalls
    /\ call_telegram_api(TRUE)
    /\ pc' = "running"
    /\ UNCHANGED <<conf, targets, tv, argparse>>

CallStep == ApiStep /\ UNCHANGED <<pc, conf, targets, tv, argparse>>

\* handle_signal sends its own message, in the middle of another one or not, and
\* does not return to it.
handle_signal ==
    /\ pc \notin {"init", "stopping", "exited"}
    /\ pc' = "stopping"
    /\ call' = "easy_init" /\ data' = TRUE /\ ok' = FALSE /\ globals' = globals + 1
    /\ UNCHANGED <<conf, targets, tv, argparse, out, says, result, handles, posted, buffers, calls>>

\* The handler is done, a call died or the process was killed.
Exit == pc # "exited" /\ Die

Restart == pc = "exited" /\ pc' = "init" /\ UNCHANGED <<conf, targets, tv, argparse, telegram>>

Next ==
    \/ init \/ ReadProperties \/ AddTarget \/ BadTarget \/ InitReturns
    \/ telegram_init \/ validate_token \/ telegram_send_message \/ CallStep
    \/ handle_signal \/ Exit \/ Restart

Spec == Init /\ [][Next]_vars

-----------------------------------------------------------------------------
(* Properties                                                               *)

\* Every variable has its type.
TypeOK ==
    /\ pc \in {"init", "targets", "telegram_init", "validate_token", "starting", "running", "stopping", "exited"}
    /\ conf \in Configuration /\ {tv[1], tv[2]} \subseteq Int
    /\ targets \in Seq([name : Field, host : Seq(Field), port : Seq(Field)])
    /\ registered \subseteq Key /\ dead \subseteq {"target"}
    /\ DOMAIN mem = Key /\ \A k \in Key : mem[k] \in Contents(k)
    /\ {wild, open} \subseteq BOOLEAN /\ input \in Seq(Piece)
    /\ call \in {"none", "easy_init", "perform", "cleanup"}
    /\ out \in 0..Size \cup {NULL}
    /\ {data, says, ok, result} \subseteq BOOLEAN
    /\ {globals, handles, posted, buffers, calls} \subseteq Nat

\* The definition a target came from.
Rejoin(t) == <<t.name>> \o t.host \o t.port

\* What can be read of a file.
Text(file) == IF file = None THEN <<>> ELSE file

\* init and telegram_init understand regular files as the README describes them,
\* each file sets its own variables only, and every target is its definition cut
\* at the first and the last colon.  A file that cannot be read leaves defaults
\* behind, except for myname, which telegram's file can then set.
AsDocumented ==
    LET M == Text(conf.monitor)
        T == Text(conf.telegram)
    IN pc \in {"starting", "running"} /\ ~wild =>
         /\ Regular(M, MonitorKeys) =>
               /\ Documented(M, Len(M), "target", <<>>, [i \in 1..Len(targets) |-> Rejoin(targets[i])])
               /\ Documented(M, Len(M), "poll_interval", 0, tv[1])
               /\ Documented(M, Len(M), "err_interval", 0, tv[2])
               /\ conf.monitor # None => Documented(M, Len(M), "myname", <<"myself">>, mem["myname"])
         /\ Regular(T, TelegramKeys) =>
               /\ Documented(T, Len(T), "user_id", 0, mem["user_id"])
               /\ Documented(T, Len(T), "token", None, mem["token"])

\* Reading telegram's file never stores through the pointer to init's local list,
\* unless the monitor's file was not readable.
NoWildWrite == wild => conf.monitor = None

\* Between two calls of the API, unless a signal cut one off, nothing is in use, and a call leaks at most one
\* thing: its response buffer, or libcurl's globals if there was no handle.
Balanced ==
    pc # "stopping" /\ call = "none" => handles = 0 /\ posted = 0 /\ globals + buffers <= calls

\* A call only reports success if the server did what this call asked for, also
\* if the answer is cut off or memory runs out while it arrives.
SuccessIsReal == call = "none" /\ result => ok
=============================================================================
