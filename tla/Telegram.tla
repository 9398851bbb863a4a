------------------------------- MODULE Telegram -------------------------------
(***************************************************************************)
(* Calls of the Telegram API (src/src/telegram.c).  libcurl and the server *)
(* are external: any step may fail, the answer comes in pieces, and the    *)
(* connection may break before or after the server has acted.              *)
(***************************************************************************)
EXTENDS Integers

CONSTANTS
    Size,    \* pieces of a complete answer
    NULL     \* a null pointer

ASSUME SizeAssumption == Size \in Nat \ {0} /\ NULL \notin Nat

VARIABLES
    call,      \* where call_telegram_api is, "none" between calls
    data,      \* the call posts a message (sendMessage), otherwise getMe
    out,       \* pieces of the answer in out, NULL if out.ptr is null
    says,      \* what the "ok" of the answer in out is
    ok,        \* history: the server did what it was asked in this call
    result,    \* result of the last validate_token or send_message
    globals,   \* curl_global_init without curl_global_cleanup
    handles,   \* easy handles in use
    posted,    \* jsondata and headers in use
    buffers,   \* allocated response buffers
    calls      \* history: calls that returned

telegram == <<call, data, out, says, ok, result, globals, handles, posted, buffers, calls>>
resources == <<globals, handles, posted, buffers>>

TelegramInit ==
    /\ call = "none" /\ data = FALSE /\ out = NULL /\ says = FALSE /\ ok = FALSE /\ result = FALSE
    /\ globals = 0 /\ handles = 0 /\ posted = 0 /\ buffers = 0 /\ calls = 0

-----------------------------------------------------------------------------
\* call_telegram_api begins; if curl_global_init fails the process exits.
call_telegram_api(post) ==
    /\ call = "none"
    /\ call' = "easy_init" /\ data' = post /\ ok' = FALSE
    /\ globals' = globals + 1
    /\ UNCHANGED <<out, says, result, handles, posted, buffers, calls>>

\* NULL is returned; cJSON_GetObjectItem finds no "ok" in it.
easy_init_fails ==
    /\ call = "easy_init"
    /\ call' = "none" /\ calls' = calls + 1 /\ result' = FALSE
    /\ UNCHANGED <<data, out, says, ok, resources>>

\* Mutant: out is not initialised and still holds the last answer.
easy_init_stale ==
    /\ call = "easy_init" /\ call' = "perform" /\ handles' = handles + 1
    /\ posted' = posted + (IF data THEN 1 ELSE 0)
    /\ UNCHANGED <<data, out, says, ok, result, globals, buffers, calls>>

\* The request is prepared; the malloc of init_string may fail.
easy_init ==
    /\ call = "easy_init"
    /\ call' = "perform"
    /\ handles' = handles + 1
    /\ posted' = posted + (IF data THEN 1 ELSE 0)
    /\ \/ out' = 0 /\ buffers' = buffers + 1
       \/ out' = NULL /\ UNCHANGED buffers
    /\ UNCHANGED <<data, says, ok, result, globals, calls>>

\* The server does what it is asked, before it answers; or it never does.
Accept ==
    /\ call = "perform" /\ out \in {0, NULL} /\ ~ok
    /\ ok' = TRUE
    /\ UNCHANGED <<call, data, out, says, result, resources, calls>>

Received == IF out = NULL THEN 0 ELSE out

write_to_string ==
    /\ call = "perform" /\ Received < Size
    /\ out' = Received + 1 /\ says' = ok
    /\ buffers' = IF out = NULL THEN buffers + 1 ELSE buffers
    /\ UNCHANGED <<call, data, ok, result, globals, handles, posted, calls>>

\* realloc fails: the old block is lost and the transfer ends.
write_to_string_fails ==
    /\ call = "perform" /\ Received < Size
    /\ out' = NULL /\ call' = "cleanup"
    /\ UNCHANGED <<data, says, ok, result, resources, calls>>

\* curl_easy_perform returns, with or without an error, which is only printed.
Performed ==
    /\ call = "perform"
    /\ call' = "cleanup"
    /\ UNCHANGED <<data, out, says, ok, result, resources, calls>>

\* Mutant: the request is only freed after a transfer without error.
Cleanup_unfreed ==
    /\ call = "cleanup" /\ call' = "none" /\ calls' = calls + 1
    /\ posted' = IF data /\ out = Size THEN posted - 1 ELSE posted
    /\ handles' = handles - 1 /\ globals' = globals - 1
    /\ result' = (out = Size /\ says)
    /\ UNCHANGED <<data, out, says, ok, buffers>>

\* Mutant: a request is freed for every call, also if there was none.
Cleanup_always ==
    /\ call = "cleanup" /\ call' = "none" /\ calls' = calls + 1
    /\ posted' = posted - 1 /\ handles' = handles - 1 /\ globals' = globals - 1
    /\ result' = (out = Size /\ says)
    /\ UNCHANGED <<data, out, says, ok, buffers>>

\* Everything but out.ptr is freed.  Only a complete answer parses.
Cleanup ==
    /\ call = "cleanup"
    /\ call' = "none" /\ calls' = calls + 1
    /\ posted' = posted - (IF data THEN 1 ELSE 0)
    /\ handles' = handles - 1 /\ globals' = globals - 1
    /\ result' = (out = Size /\ says)
    /\ UNCHANGED <<data, out, says, ok, buffers>>

ApiStep ==
    \/ easy_init_fails \/ easy_init \/ Accept \/ write_to_string \/ write_to_string_fails
    \/ Performed \/ Cleanup
=============================================================================
