------------------------------ MODULE BeatLoop ------------------------------
(***************************************************************************)
(* The serving loop of the beat process (src/src/beat.c): poll on a TCP    *)
(* and a UDP socket, one request per turn, TCP first.  Clients connect,    *)
(* reset their connections and send datagrams between any two system calls *)
(* of the loop.                                                            *)
(***************************************************************************)
EXTENDS Integers, SequencesExt

CONSTANTS
    Client,    \* peers; each has at most one connection and one datagram outstanding
    Backlog,   \* second argument of listen
    MaxFd,     \* largest descriptor the process may open
    None       \* no value

ASSUME BeatLoopAssumption ==
    /\ Backlog \in Nat \ {0}
    /\ MaxFd \in Nat /\ MaxFd >= 4
    /\ None \notin Client

VARIABLES
    pc,         \* where the process is
    revents,    \* what the last poll reported: a subset of {"tcp", "udp"}
    open,       \* open descriptors besides standard input and outputs
    tcp_sock,   \* the variable tcp_sock: 0 at start, -1 when accept failed
    conn,       \* the client behind tcp_sock, while its connection is open
    tcpq,       \* connections waiting to be accepted
    udpq,       \* datagrams waiting to be read, None for one recvfrom fails on
    reset,      \* clients that reset the connection they have open
    client_addr,   \* the variable client_addr of the UDP branch, None if not set
    replies     \* clients an answer to a datagram is on its way to

vars == <<pc, revents, open, tcp_sock, conn, tcpq, udpq, reset, client_addr, replies>>
queues == <<tcpq, udpq, reset>>
answer == <<client_addr, replies>>

tcp_server_socket == 3
udp_server_socket == 4

Free == {f \in 3..MaxFd : f \notin open}

Init ==
    /\ pc = "poll" /\ revents = {}
    /\ open = {tcp_server_socket, udp_server_socket}
    /\ tcp_sock = 0 /\ conn = None
    /\ tcpq = <<>> /\ udpq = <<>> /\ reset = {}
    /\ client_addr = None /\ replies = {}

-----------------------------------------------------------------------------
(* One turn of the loop                                                     *)

Readable == (IF tcpq # <<>> THEN {"tcp"} ELSE {}) \cup (IF udpq # <<>> THEN {"udp"} ELSE {})

PollReports(what) ==
    /\ pc = "poll" /\ pc' = "ready"
    /\ revents' = what
    /\ UNCHANGED <<open, tcp_sock, conn, queues, answer>>

\* Mutant: the UDP branch comes first.
PollUdpFirst == Readable # {} /\ PollReports(IF udpq # <<>> THEN {"udp"} ELSE {"tcp"})

Poll == Readable # {} /\ PollReports(Readable)

\* The result of poll is not looked at: after a failure the turn goes by what the
\* last successful call reported.
PollFails == PollReports(revents)

\* Neither socket was reported.
NothingReported ==
    /\ pc = "ready" /\ revents = {} /\ pc' = "poll"
    /\ UNCHANGED <<revents, open, tcp_sock, conn, queues, answer>>

Accept ==
    /\ pc = "ready" /\ "tcp" \in revents
    /\ tcpq # <<>>
    /\ \E f \in Free :
          /\ \A g \in Free : f <= g
          /\ tcp_sock' = f /\ open' = open \cup {f}
    /\ conn' = Head(tcpq) /\ tcpq' = Tail(tcpq)
    /\ pc' = "accepted"
    /\ UNCHANGED <<revents, udpq, reset, answer>>

\* Mutant: a failing accept leaves tcp_sock as it was.
AcceptFailsKeeps ==
    /\ pc = "ready" /\ "tcp" \in revents /\ pc' = "accepted"
    /\ UNCHANGED <<revents, open, tcp_sock, conn, queues, answer>>

\* The connection is gone again (the socket does not block), or the system is
\* short of descriptors or memory; the code goes on with descriptor -1.
AcceptFails ==
    /\ pc = "ready" /\ "tcp" \in revents
    /\ tcp_sock' = -1
    /\ pc' = "accepted"
    /\ UNCHANGED <<revents, open, conn, queues, answer>>

Send ==
    /\ pc = "accepted"
    /\ tcp_sock # -1 /\ conn \notin reset
    /\ pc' = "close"
    /\ UNCHANGED <<revents, open, tcp_sock, conn, queues, answer>>

Hangup ==
    /\ conn' = None /\ reset' = reset \ {conn}
    /\ UNCHANGED <<revents, tcp_sock, tcpq, udpq, answer>>

\* Mutant: the connection is not closed when send fails, and the rest of the
\* turn is skipped.
SendFailsLeaking ==
    pc = "accepted" /\ (tcp_sock = -1 \/ conn \in reset) /\ pc' = "poll" /\ Hangup /\ UNCHANGED open

\* send fails: tcp_sock is closed here, and closed again by Close.
SendFails ==
    /\ pc = "accepted" /\ pc' = "close"
    /\ tcp_sock = -1 \/ conn \in reset
    /\ open' = open \ {tcp_sock}
    /\ Hangup

Close ==
    /\ pc = "close" /\ pc' = "poll"
    /\ open' = open \ {tcp_sock}
    /\ Hangup

\* The UDP branch of a turn, taken only when the TCP socket was not reported.
\* recvfrom blocks if no datagram is there after all.
ReadDatagram(rest) ==
    /\ pc = "ready" /\ "tcp" \notin revents /\ "udp" \in revents
    /\ udpq # <<>>
    /\ client_addr' = Head(udpq) /\ udpq' = rest
    /\ pc' = "answer"
    /\ UNCHANGED <<revents, open, tcp_sock, conn, tcpq, reset, replies>>

\* Mutant: the datagram stays in the socket.
recvfrom_peek == ReadDatagram(udpq)

\* Mutant: everything that waits is read for one answer.
recvfrom_all == ReadDatagram(<<>>)

recvfrom == ReadDatagram(Tail(udpq))

SendDatagram(to) ==
    /\ pc = "answer" /\ pc' = "poll"
    /\ client_addr' = None
    /\ replies' = replies \cup to
    /\ UNCHANGED <<revents, open, tcp_sock, conn, queues>>

\* After an error of recvfrom client_addr is not initialised: the answer goes to
\* whoever it happens to name.
sendto == \E c \in Client : client_addr \in {c, None} /\ SendDatagram({c})

sendto_fails == SendDatagram({})

-----------------------------------------------------------------------------
(* Death and restart (Restart=always in the unit file)                      *)

\* signal_handler at any point, or SIGPIPE from a send on a reset connection.
Die ==
    /\ pc # "dead"
    /\ pc' = "dead"
    /\ open' = {} /\ conn' = None
    /\ tcpq' = <<>> /\ udpq' = <<>> /\ reset' = {} /\ client_addr' = None
    /\ UNCHANGED <<revents, tcp_sock, replies>>

Restart ==
    /\ pc = "dead"
    /\ pc' = "poll" /\ revents' = {}
    /\ open' = {tcp_server_socket, udp_server_socket}
    /\ tcp_sock' = 0
    /\ UNCHANGED <<conn, queues, answer>>

-----------------------------------------------------------------------------
(* Clients                                                                  *)

Connect(c) ==
    /\ pc # "dead"
    /\ c \notin Range(tcpq) /\ conn # c
    /\ Len(tcpq) < Backlog
    /\ tcpq' = Append(tcpq, c)
    /\ UNCHANGED <<pc, revents, open, tcp_sock, conn, udpq, reset, answer>>

\* A client resets its connection: a waiting one disappears from the queue or
\* stays there as a dead one, depending on the system.
Reset(c) ==
    \/ /\ \E i \in 1..Len(tcpq) : tcpq[i] = c /\ tcpq' = RemoveAt(tcpq, i)
       /\ reset' = reset \ {c}
       /\ UNCHANGED <<pc, revents, open, tcp_sock, conn, udpq, answer>>
    \/ /\ c \in Range(tcpq) \/ conn = c
       /\ c \notin reset
       /\ reset' = reset \cup {c}
       /\ UNCHANGED <<pc, revents, open, tcp_sock, conn, tcpq, udpq, answer>>

\* Senders of the datagrams that are not answered yet, None for a socket error.
Unanswered == Range(udpq) \cup (IF pc = "answer" THEN {client_addr} ELSE {})

\* A datagram of c, or a socket error (None), reaches the UDP socket.
Datagram(c) ==
    /\ pc # "dead"
    /\ c \notin Unanswered
    /\ udpq' = Append(udpq, c)
    /\ UNCHANGED <<pc, revents, open, tcp_sock, conn, tcpq, reset, answer>>

Take(c) ==
    /\ c \in replies /\ replies' = replies \ {c}
    /\ UNCHANGED <<pc, revents, open, tcp_sock, conn, queues, client_addr>>

-----------------------------------------------------------------------------
Turn ==
    \/ Poll \/ NothingReported
    \/ Accept \/ AcceptFails \/ Send \/ SendFails \/ Close
    \/ recvfrom \/ sendto \/ sendto_fails

Next ==
    \/ Turn \/ PollFails \/ Die \/ Restart
    \/ \E c \in Client : Connect(c) \/ Reset(c) \/ Take(c)
    \/ \E c \in Client \cup {None} : Datagram(c)

Spec == Init /\ [][Next]_vars

\* The loop goes on (WF); poll does not fail for ever, and the system is not short
\* of descriptors whenever accept is tried (SF).
LiveSpec == Spec /\ WF_vars(Turn) /\ SF_vars(Poll) /\ SF_vars(Accept)

-----------------------------------------------------------------------------
(* Properties                                                               *)

\* Every variable has its type, and there is a connection behind tcp_sock exactly
\* if accept succeeded.
TypeOK ==
    /\ pc \in {"poll", "ready", "accepted", "close", "answer", "dead"}
    /\ revents \subseteq {"tcp", "udp"}
    /\ open \subseteq 3..MaxFd
    /\ tcp_sock \in {-1, 0} \cup 3..MaxFd
    /\ conn \in Client \cup {None}
    /\ conn # None => pc \in {"accepted", "close"}
    /\ pc = "accepted" => (conn = None <=> tcp_sock = -1)
    /\ tcpq \in Seq(Client) /\ Len(tcpq) <= Backlog
    /\ udpq \in Seq(Client \cup {None})
    /\ reset \subseteq Client
    /\ client_addr \in Client \cup {None}
    /\ replies \subseteq Client

\* README: the connection is killed after the answer.  Whatever fails in a turn
\* (accept, send, close twice on the same number), between turns the server
\* sockets, and nothing else, are open.
NothingLeaks ==
    /\ pc = "poll" => open = {tcp_server_socket, udp_server_socket}
    /\ pc # "dead" => {tcp_server_socket, udp_server_socket} \subseteq open

\* recvfrom waits for a datagram that poll did not report.
Blocked == pc = "ready" /\ revents = {"udp"} /\ udpq = <<>>

\* A waiting connection is taken from the queue, unless it stops existing: also
\* when poll fails now and then, except that the loop may then wait in recvfrom
\* for a datagram that never comes.
TcpServed ==
    \/ <>[]Blocked
    \/ \A c \in Client : c \in Range(tcpq) ~> c \notin Range(tcpq)

\* A waiting datagram is read and its answer sent, or tried to send, unless
\* connections keep arriving for ever.
UdpServed ==
    \/ []<>(tcpq # <<>>)
    \/ \A c \in Client : c \in Unanswered ~> c \notin Unanswered

\* The loop implements a host: a datagram that reached the socket is answered once
\* and to its sender, however connections, resets, failing calls and stale results
\* of poll are mixed with it, and only a crash or a failing sendto loses an answer.
H == INSTANCE Host WITH Peer <- Client, up <- pc # "dead", waiting <- Unanswered

HostSpec == H!Spec
=============================================================================
