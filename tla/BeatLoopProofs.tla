--------------------------- MODULE BeatLoopProofs ---------------------------
(***************************************************************************)
(* Proofs about the serving loop of beat, for any clients and any backlog: *)
(* types, no descriptor leaks and no server socket is closed, and the loop *)
(* implements a host.                                                      *)
(***************************************************************************)
EXTENDS BeatLoop, TLAPS, SequenceTheorems

Servers == {tcp_server_socket, udp_server_socket}

\* What is open at each point of a turn: besides the server sockets at most the
\* connection behind tcp_sock, which is -1 or a number of its own.
DescInv ==
    /\ pc \in {"poll", "ready", "answer"} => open = Servers
    /\ pc = "accepted" => IF tcp_sock = -1 THEN open = Servers ELSE open = Servers \cup {tcp_sock}
    /\ pc = "close" => open \in {Servers, Servers \cup {tcp_sock}}
    /\ pc \in {"accepted", "close"} => tcp_sock \notin Servers

\* The invariant is inductive; Accept takes a free number, and closing tcp_sock
\* twice leaves the others alone.
LEMMA DescStep == DescInv /\ [Next]_vars => DescInv'
<1> SUFFICES ASSUME DescInv, [Next]_vars PROVE DescInv'
  OBVIOUS
<1> USE DEF DescInv, Servers, tcp_server_socket, udp_server_socket, queues
<1>1. CASE Poll \/ PollFails \/ NothingReported \/ AcceptFails \/ recvfrom \/ sendto \/ sendto_fails
  BY <1>1 DEF Poll, PollFails, PollReports, NothingReported, AcceptFails,
              recvfrom, ReadDatagram, sendto, sendto_fails, SendDatagram
<1>2. CASE Accept
  BY <1>2 DEF Accept, Free
<1>3. CASE Send
  BY <1>3 DEF Send
<1>4. CASE SendFails
  BY <1>4 DEF SendFails, Hangup
<1>5. CASE Close
  BY <1>5 DEF Close, Hangup
<1>6. CASE Die \/ Restart
  BY <1>6 DEF Die, Restart
<1>7. ASSUME NEW c, Connect(c) \/ Reset(c) \/ Datagram(c) \/ Take(c) PROVE DescInv'
  BY <1>7 DEF Connect, Reset, Datagram, Take
<1>8. CASE UNCHANGED vars
  BY <1>8 DEF vars
<1> QED
  BY <1>1, <1>2, <1>3, <1>4, <1>5, <1>6, <1>7, <1>8 DEF Next, Turn

\* Between turns exactly the server sockets are open, and they stay open as long
\* as the process lives, whichever calls of a turn fail.
THEOREM NoLeak == Spec => []NothingLeaks
<1> DEFINE Inv == DescInv /\ pc \in {"poll", "ready", "accepted", "close", "answer", "dead"}
<1>1. Init => Inv
  BY DEF Init, DescInv, Servers
<1>2. Inv /\ [Next]_vars => Inv'
  <2> SUFFICES ASSUME Inv, [Next]_vars PROVE pc' \in {"poll", "ready", "accepted", "close", "answer", "dead"}
    BY DescStep
  <2> QED
    BY DEF Next, Turn, Poll, PollFails, PollReports, NothingReported, Accept, AcceptFails, Send, SendFails, Close,
           Hangup, recvfrom, ReadDatagram, sendto, sendto_fails, SendDatagram, Die, Restart, Connect, Reset,
           Datagram, Take, vars
<1>3. Inv => NothingLeaks
  BY DEF DescInv, Servers, NothingLeaks
<1> QED
  BY <1>1, <1>2, <1>3, PTL DEF Spec

-----------------------------------------------------------------------------
(* Types, and the host                                                      *)

\* Taking one connection out of the queue keeps it a queue within the backlog.
LEMMA RemoveAtType ==
    ASSUME NEW S, NEW s \in Seq(S), NEW i \in 1..Len(s)
    PROVE  RemoveAt(s, i) \in Seq(S) /\ Len(RemoveAt(s, i)) = Len(s) - 1
<1>1. SubSeq(s, 1, i - 1) \in Seq(S) /\ Len(SubSeq(s, 1, i - 1)) = i - 1
  OBVIOUS
<1>2. SubSeq(s, i + 1, Len(s)) \in Seq(S) /\ Len(SubSeq(s, i + 1, Len(s))) = Len(s) - i
  OBVIOUS
<1>3. Len(s) \in Nat /\ Len(s) - 1 = (i - 1) + (Len(s) - i)
  OBVIOUS
<1>4. ASSUME NEW u \in Seq(S), NEW v \in Seq(S) PROVE u \o v \in Seq(S) /\ Len(u \o v) = Len(u) + Len(v)
  BY ConcatProperties
<1> QED
  BY <1>1, <1>2, <1>3, <1>4 DEF RemoveAt

\* Every step keeps the types.
LEMMA TypeStep == TypeOK /\ [Next]_vars => TypeOK'
<1> SUFFICES ASSUME TypeOK, [Next]_vars PROVE TypeOK'
  OBVIOUS
<1> USE BeatLoopAssumption DEF TypeOK, queues, answer
<1>1. CASE Poll \/ PollFails \/ NothingReported
  BY <1>1 DEF Poll, PollFails, PollReports, NothingReported, Readable
<1>2. CASE Accept
  <2>1. PICK f \in Free : tcp_sock' = f /\ open' = open \cup {f}
    BY <1>2 DEF Accept
  <2>2. f \in 3..MaxFd
    BY <2>1 DEF Free
  <2>3. /\ Head(tcpq) \in Client
        /\ Tail(tcpq) \in Seq(Client) /\ Len(Tail(tcpq)) = Len(tcpq) - 1
    BY <1>2 DEF Accept
  <2> QED
    BY <1>2, <2>1, <2>2, <2>3 DEF Accept
<1>3. CASE AcceptFails \/ Send
  BY <1>3 DEF AcceptFails, Send
<1>4. CASE SendFails \/ Close
  BY <1>4 DEF SendFails, Close, Hangup
<1>5. CASE recvfrom \/ sendto \/ sendto_fails
  <2>1. CASE recvfrom
    <3>1. Head(udpq) \in Client \cup {None} /\ Tail(udpq) \in Seq(Client \cup {None})
      BY <2>1 DEF recvfrom, ReadDatagram
    <3> QED
      BY <2>1, <3>1 DEF recvfrom, ReadDatagram
  <2>2. CASE sendto \/ sendto_fails
    BY <2>2 DEF sendto, sendto_fails, SendDatagram
  <2> QED
    BY <1>5, <2>1, <2>2
<1>6. CASE Die
  BY <1>6 DEF Die
<1>7. CASE Restart
  BY <1>7 DEF Restart, tcp_server_socket, udp_server_socket
<1>8. ASSUME NEW c \in Client, Connect(c) PROVE TypeOK'
  <2>1. Append(tcpq, c) \in Seq(Client) /\ Len(Append(tcpq, c)) = Len(tcpq) + 1
    OBVIOUS
  <2> QED
    BY <1>8, <2>1 DEF Connect
<1>9. ASSUME NEW c \in Client, Reset(c) PROVE TypeOK'
  <2>1. ASSUME NEW i \in 1..Len(tcpq) PROVE RemoveAt(tcpq, i) \in Seq(Client) /\ Len(RemoveAt(tcpq, i)) <= Backlog
    BY RemoveAtType
  <2>2. tcpq' \in Seq(Client) /\ Len(tcpq') <= Backlog
    BY <1>9, <2>1 DEF Reset
  <2> QED
    BY <1>9, <2>2 DEF Reset
<1>10. ASSUME NEW c \in Client \cup {None}, Datagram(c) PROVE TypeOK'
  <2>1. Append(udpq, c) \in Seq(Client \cup {None}) /\ Append(udpq, c) # <<>>
    OBVIOUS
  <2> QED
    BY <1>10, <2>1 DEF Datagram
<1>11. ASSUME NEW c \in Client, Take(c) PROVE TypeOK'
  BY <1>11 DEF Take
<1>12. CASE UNCHANGED vars
  BY <1>12 DEF vars
<1> QED
  BY <1>1, <1>2, <1>3, <1>4, <1>5, <1>6, <1>7, <1>8, <1>9, <1>10, <1>11, <1>12 DEF Next, Turn

\* Type correctness of the serving loop.
THEOREM TypeCorrect == Spec => []TypeOK
<1>1. Init => TypeOK
  BY BeatLoopAssumption DEF Init, TypeOK, tcp_server_socket, udp_server_socket
<1> QED
  BY <1>1, TypeStep, PTL DEF Spec

\* Every sender has one datagram at the host: in the socket or being answered.
OneEach ==
    /\ \A i, j \in 1..Len(udpq) : udpq[i] = udpq[j] => i = j
    /\ pc = "answer" => \A i \in 1..Len(udpq) : udpq[i] # client_addr

\* The senders in a queue.
LEMMA RangeSeq == ASSUME NEW S, NEW q \in Seq(S) PROVE Range(q) = {q[i] : i \in 1..Len(q)}
<1>1. DOMAIN q = 1..Len(q)
  OBVIOUS
<1> QED
  BY <1>1 DEF Range

\* A datagram is only added for a sender without one, and removed by reading it.
LEMMA OneEachStep == TypeOK /\ OneEach /\ [Next]_vars => OneEach'
<1> SUFFICES ASSUME TypeOK, OneEach, [Next]_vars PROVE OneEach'
  OBVIOUS
<1>0. udpq \in Seq(Client \cup {None}) /\ Len(udpq) \in Nat
  BY DEF TypeOK
<1> USE DEF OneEach
<1>1. CASE recvfrom
  <2>1. udpq # <<>> /\ pc' = "answer" /\ client_addr' = udpq[1] /\ udpq' = Tail(udpq)
    BY <1>0, <1>1 DEF recvfrom, ReadDatagram
  <2>2. Len(udpq') = Len(udpq) - 1 /\ \A i \in 1..Len(udpq') : i + 1 \in 1..Len(udpq) /\ udpq'[i] = udpq[i + 1]
    BY <1>0, <2>1
  <2>3. 1 \in 1..Len(udpq)
    BY <1>0, <2>1
  <2>4. ASSUME NEW i \in 1..Len(udpq'), NEW j \in 1..Len(udpq'), udpq'[i] = udpq'[j] PROVE i = j
    <3>1. i + 1 = j + 1
      BY <2>2, <2>4
    <3> QED
      BY <1>0, <2>2, <3>1
  <2>5. ASSUME NEW i \in 1..Len(udpq') PROVE udpq'[i] # client_addr'
    <3>1. i + 1 # 1
      BY <1>0, <2>2
    <3> QED
      BY <2>1, <2>2, <2>3, <3>1
  <2> QED
    BY <2>4, <2>5
<1>2. ASSUME NEW c \in Client \cup {None}, Datagram(c) PROVE OneEach'
  <2>1. udpq' = Append(udpq, c) /\ UNCHANGED <<pc, client_addr>> /\ c \notin Unanswered
    BY <1>2 DEF Datagram, answer
  <2>2. /\ Len(udpq') = Len(udpq) + 1 /\ udpq'[Len(udpq) + 1] = c
        /\ \A i \in 1..Len(udpq) : udpq'[i] = udpq[i]
    BY <1>0, <2>1
  <2>3. \A i \in 1..Len(udpq) : udpq[i] # c
    BY <1>0, <2>1, RangeSeq DEF Unanswered
  <2>4. pc = "answer" => client_addr # c
    BY <2>1 DEF Unanswered
  <2>5. \A i \in 1..Len(udpq') : i \in 1..Len(udpq) \/ i = Len(udpq) + 1
    BY <1>0, <2>2
  <2> QED
    BY <2>1, <2>2, <2>3, <2>4, <2>5
<1>3. CASE Die
  BY <1>3 DEF Die
<1>4. CASE \/ Poll \/ PollFails \/ NothingReported \/ Accept \/ AcceptFails \/ Send \/ SendFails \/ Close
           \/ sendto \/ sendto_fails \/ Restart
           \/ \E c \in Client : Connect(c) \/ Reset(c) \/ Take(c)
           \/ UNCHANGED vars
  <2>1. udpq' = udpq /\ (pc' = "answer" => pc = "answer" /\ client_addr' = client_addr)
    BY <1>4 DEF Poll, PollFails, PollReports, NothingReported, Accept, AcceptFails, Send, SendFails, Close, Hangup,
                sendto, sendto_fails, SendDatagram, Restart, Connect, Reset, Take, vars, queues, answer
  <2> QED
    BY <2>1
<1> QED
  BY <1>1, <1>2, <1>3, <1>4 DEF Next, Turn

\* A step of the loop or of its clients is a step of the host or leaves it alone.
LEMMA HostStep == TypeOK /\ OneEach /\ [Next]_vars => [H!Next]_(H!vars)
<1> SUFFICES ASSUME TypeOK, OneEach, [Next]_vars PROVE H!Next \/ UNCHANGED H!vars
  OBVIOUS
<1>0. udpq \in Seq(Client \cup {None}) /\ Len(udpq) \in Nat /\ Range(udpq) = {udpq[i] : i \in 1..Len(udpq)}
  BY RangeSeq DEF TypeOK
<1>1. CASE recvfrom
  <2>1. /\ udpq # <<>> /\ pc = "ready" /\ pc' = "answer" /\ client_addr' = udpq[1] /\ udpq' = Tail(udpq)
        /\ UNCHANGED replies
    BY <1>0, <1>1 DEF recvfrom, ReadDatagram
  <2>2. /\ udpq' \in Seq(Client \cup {None}) /\ Len(udpq') = Len(udpq) - 1
        /\ \A i \in 1..Len(udpq') : udpq'[i] = udpq[i + 1]
    BY <1>0, <2>1
  <2>3. Range(udpq') = {udpq'[i] : i \in 1..Len(udpq')}
    BY <2>2, RangeSeq
  <2>4. Range(udpq) \subseteq Range(udpq') \cup {udpq[1]}
    <3> SUFFICES ASSUME NEW i \in 1..Len(udpq), i # 1 PROVE udpq[i] \in Range(udpq')
      BY <1>0
    <3>1. i - 1 \in 1..Len(udpq') /\ (i - 1) + 1 = i
      BY <1>0, <2>2
    <3> QED
      BY <2>2, <2>3, <3>1
  <2>5. Range(udpq') \cup {udpq[1]} \subseteq Range(udpq)
    <3>1. udpq[1] \in Range(udpq)
      BY <1>0, <2>1
    <3>2. ASSUME NEW i \in 1..Len(udpq') PROVE udpq'[i] \in Range(udpq)
      <4>1. i + 1 \in 1..Len(udpq)
        BY <1>0, <2>2
      <4> QED
        BY <1>0, <2>2, <4>1
    <3> QED
      BY <2>3, <3>1, <3>2
  <2>6. Unanswered' = Unanswered
    BY <2>1, <2>4, <2>5 DEF Unanswered
  <2> QED
    BY <2>1, <2>6 DEF H!vars
<1>2. CASE sendto \/ sendto_fails
  <2>1. /\ pc = "answer" /\ pc' = "poll" /\ udpq' = udpq
        /\ client_addr \in Client \cup {None}
    BY <1>2 DEF sendto, sendto_fails, SendDatagram, queues, TypeOK
  <2>2. client_addr \in Unanswered /\ Unanswered' = Unanswered \ {client_addr}
    BY <1>0, <2>1 DEF Unanswered, OneEach
  <2>3. CASE sendto
    <3>1. PICK c \in Client : client_addr \in {c, None} /\ replies' = replies \cup {c}
      BY <2>3 DEF sendto, SendDatagram
    <3>2. c # None
      BY BeatLoopAssumption
    <3> QED
      BY <2>1, <2>2, <3>1, <3>2 DEF H!Next, H!Answer, H!Stray, H!Done
  <2>4. CASE sendto_fails
    BY <2>1, <2>2, <2>4 DEF sendto_fails, SendDatagram, H!Next, H!Fail, H!Done
  <2> QED
    BY <1>2, <2>3, <2>4
<1>3. ASSUME NEW c \in Client \cup {None}, Datagram(c) PROVE H!Next \/ UNCHANGED H!vars
  <2>1. pc # "dead" /\ UNCHANGED <<pc, client_addr, replies>> /\ udpq' = Append(udpq, c) /\ c \notin Unanswered
    BY <1>3 DEF Datagram, answer
  <2>2. /\ udpq' \in Seq(Client \cup {None}) /\ Len(udpq') = Len(udpq) + 1 /\ udpq'[Len(udpq) + 1] = c
        /\ \A i \in 1..Len(udpq) : udpq'[i] = udpq[i]
    BY <1>0, <2>1
  <2>3. 1..Len(udpq') = (1..Len(udpq)) \cup {Len(udpq) + 1}
    BY <1>0, <2>2
  <2>4. Range(udpq') = {udpq'[i] : i \in 1..Len(udpq')}
    BY <2>2, RangeSeq
  <2>5. Range(udpq') = Range(udpq) \cup {c}
    BY <1>0, <2>2, <2>3, <2>4
  <2>6. Unanswered' = Unanswered \cup {c}
    BY <2>1, <2>5 DEF Unanswered
  <2> QED
    BY <2>1, <2>6 DEF H!Next, H!Receive
<1>4. CASE Die
  <2>1. Range(<<>>) = {}
    BY DEF Range
  <2> QED
    BY <1>4, <2>1 DEF Die, Unanswered, H!Next, H!Crash
<1>5. CASE Restart
  BY <1>5 DEF Restart, queues, answer, Unanswered, H!Next, H!Recover
<1>6. ASSUME NEW c \in Client, Take(c) PROVE H!Next \/ UNCHANGED H!vars
  BY <1>6 DEF Take, queues, Unanswered, H!Next, H!Take
<1>7. CASE \/ Poll \/ PollFails \/ NothingReported \/ Accept \/ AcceptFails \/ Send \/ SendFails \/ Close
           \/ \E c \in Client : Connect(c) \/ Reset(c)
           \/ UNCHANGED vars
  <2>1. UNCHANGED <<udpq, replies, client_addr>>
    BY <1>7 DEF Poll, PollFails, PollReports, NothingReported, Accept, AcceptFails, Send, SendFails, Close, Hangup,
                Connect, Reset, vars, queues, answer
  <2>2. (pc' # "dead" <=> pc # "dead") /\ (pc' = "answer" <=> pc = "answer")
    BY <1>7 DEF Poll, PollFails, PollReports, NothingReported, Accept, AcceptFails, Send, SendFails, Close, Hangup,
                Connect, Reset, vars
  <2> QED
    BY <2>1, <2>2 DEF Unanswered, H!vars
<1> QED
  BY <1>1, <1>2, <1>3, <1>4, <1>5, <1>6, <1>7 DEF Next, Turn

\* The serving loop implements a host: a datagram is answered once and to its
\* sender, and only a crash or a failing sendto loses an answer, whatever happens
\* on the TCP side and however often poll fails.
THEOREM Refinement == Spec => HostSpec
<1>1. Init => H!Init /\ OneEach
  <2>1. Range(<<>>) = {} /\ Len(<<>>) = 0
    BY DEF Range
  <2> QED
    BY <2>1 DEF Init, H!Init, Unanswered, OneEach
<1> QED
  BY <1>1, OneEachStep, HostStep, TypeCorrect, PTL DEF Spec, HostSpec, H!Spec
=============================================================================
