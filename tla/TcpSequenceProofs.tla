-------------------------- MODULE TcpSequenceProofs --------------------------
(***************************************************************************)
(* Theorems about the sequence and acknowledgement numbers of TcpSession   *)
(* and HttpGet, for a sequence space of any size.                          *)
(***************************************************************************)
EXTENDS TcpSessionProofs

-----------------------------------------------------------------------------
(* Arithmetic of the sequence space.                                       *)

LEMMA Remainder ==
  ASSUME NEW w \in Nat \ {0}, NEW q \in Int, NEW r \in 0 .. w - 1
  PROVE  (w * q + r) % w = r
OBVIOUS

LEMMA Division ==
  ASSUME NEW w \in Nat \ {0}, NEW x \in Int
  PROVE  \E q \in Int : x = w * q + (x % w)
<1>1. x = w * (x \div w) + (x % w) /\ x \div w \in Int
  OBVIOUS
<1> QED
  BY <1>1, Zenon

LEMMA Multiples ==
  ASSUME NEW w \in Nat \ {0}, NEW x \in Int, NEW q \in Int
  PROVE  (x + w * q) % w = x % w
<1>1. PICK k \in Int : x = w * k + (x % w)
  BY Division, Zenon
<1>2. w * (k + q) = w * k + w * q /\ w * k \in Int /\ w * q \in Int
  OBVIOUS
<1>3. x % w \in 0 .. w - 1
  OBVIOUS
<1>4. x + w * q = w * (k + q) + (x % w)
  BY <1>1, <1>2, <1>3
<1>5. (w * (k + q) + (x % w)) % w = x % w
  BY <1>3, Remainder
<1> QED
  BY <1>4, <1>5

LEMMA Wrapped ==
  ASSUME NEW w \in Nat \ {0}, NEW x \in Int
  PROVE  \E q \in Int : x % w = x + w * q
<1>1. PICK k \in Int : x = w * k + (x % w)
  BY Division, Zenon
<1>2. x % w \in Int /\ w * k \in Int /\ w * (-k) = - (w * k) /\ -k \in Int
  OBVIOUS
<1>3. x % w = x + w * (-k)
  BY <1>1, <1>2
<1> QED
  BY <1>2, <1>3, Zenon

LEMMA Small ==
  ASSUME NEW w \in Nat \ {0}, NEW x \in 0 .. w - 1
  PROVE  x % w = x
<1>1. x = w * 0 + x
  OBVIOUS
<1> QED
  BY <1>1

LEMMA PlusType ==
  ASSUME NEW a \in Int, NEW b \in Int
  PROVE  Plus(a, b) \in 0 .. Word - 1
BY TcpAssumption DEF Plus

LEMMA PlusZero ==
  ASSUME NEW a \in 0 .. Word - 1
  PROVE  Plus(a, 0) = a
<1>1. a + 0 = a /\ Word \in Nat \ {0}
  BY TcpAssumption
<1> QED
  BY <1>1, Small DEF Plus

LEMMA PlusPlus ==
  ASSUME NEW a \in Int, NEW x \in Int, NEW y \in Int
  PROVE  Plus(Plus(a, x), y) = Plus(a, x + y)
<1>1. Word \in Nat \ {0}
  BY TcpAssumption
<1>2. a + x \in Int /\ a + (x + y) \in Int
  OBVIOUS
<1>3. PICK q \in Int : (a + x) % Word = (a + x) + Word * q
  BY <1>1, <1>2, Wrapped, Zenon
<1>4. Word * q \in Int
  BY <1>1
<1>5. ((a + x) % Word) + y = (a + (x + y)) + Word * q
  BY <1>3, <1>4
<1>6. ((a + (x + y)) + Word * q) % Word = (a + (x + y)) % Word
  BY <1>1, <1>2, Multiples, Zenon
<1> QED
  BY <1>5, <1>6 DEF Plus

LEMMA AheadPlus ==
  ASSUME NEW a \in Int, NEW x \in Int, NEW y \in Int
  PROVE  Ahead(Plus(a, x), Plus(a, y)) = (x - y) % Word
<1>1. Word \in Nat \ {0}
  BY TcpAssumption
<1>2. a + x \in Int /\ a + y \in Int /\ x - y \in Int
  OBVIOUS
<1>3. PICK q \in Int : (a + x) % Word = (a + x) + Word * q
  BY <1>1, <1>2, Wrapped, Zenon
<1>4. PICK k \in Int : (a + y) % Word = (a + y) + Word * k
  BY <1>1, <1>2, Wrapped, Zenon
<1>5. /\ Word * q \in Int /\ Word * k \in Int /\ q - k \in Int
      /\ Word * (q - k) = Word * q - Word * k
  BY <1>1
<1>6. ((a + x) % Word) - ((a + y) % Word) = (x - y) + Word * (q - k)
  BY <1>3, <1>4, <1>5
<1>7. ((x - y) + Word * (q - k)) % Word = (x - y) % Word
  BY <1>1, <1>2, <1>5, Multiples, Zenon
<1> QED
  BY <1>6, <1>7 DEF Ahead, Plus

(* Less than a turn of the sequence space apart, the distance is exact.    *)
LEMMA AheadIs ==
  ASSUME NEW a \in Int, NEW x \in Int, NEW y \in Int, 0 <= x - y, x - y < Word
  PROVE  Ahead(Plus(a, x), Plus(a, y)) = x - y
<1>1. x - y \in 0 .. Word - 1 /\ Word \in Nat \ {0}
  BY TcpAssumption
<1>2. (x - y) % Word = x - y
  BY <1>1, Small, Zenon
<1> QED
  BY <1>2, AheadPlus

-----------------------------------------------------------------------------
(* What the client does to its session and puts on the wire in one step.   *)

Quiet ==
  /\ UNCHANGED <<toPeer, history>>
  /\ UNCHANGED session \/ tcp_state' = "CLOSED"

Opens ==
  /\ Connect
  /\ tcp_state' = "SYN_SENT" /\ tcp_local_port' \in Port \ DOMAIN opened
  /\ UNCHANGED <<toPeer, sent>>

AsksAgain ==
  /\ tcp_state # "CLOSED"
  /\ UNCHANGED <<session, history>>
  /\ toPeer' = toPeer \cup {SendTcp({"SYN"}, tcp_seq, tcp_ack, <<>>)}

(* tcp_send accepts n bytes.                                               *)
Sending(n, data) ==
  /\ tcp_state = "ESTABLISHED" /\ Len(sent[tcp_local_port]) < Sends
  /\ data = Stream(0, Len(BytesSent(tcp_local_port)),
                   Len(BytesSent(tcp_local_port)) + n)
  /\ toPeer' = toPeer \cup
       {SendTcp({"PSH", "ACK"}, tcp_seq, tcp_ack, data)}
  /\ tcp_seq' = Plus(tcp_seq, Len(data))
  /\ sent' = [sent EXCEPT ![tcp_local_port] = Append(@, data)]
  /\ UNCHANGED <<tcp_local_port, tcp_state, tcp_ack, opened>>

Closes ==
  /\ tcp_state = "ESTABLISHED" /\ tcp_state' = "FIN_WAIT"
  /\ toPeer' = toPeer \cup {SendTcp({"FIN", "ACK"}, tcp_seq, tcp_ack, <<>>)}
  /\ UNCHANGED <<tcp_local_port, tcp_seq, tcp_ack, history>>

(* A segment of the server is handled and answered.                        *)
Takes(seg) ==
  /\ seg.port = tcp_local_port /\ tcp_local_port # 0
  /\ "RST" \notin seg.flags
  /\ tcp_seq' = seg.ack
  /\ UNCHANGED <<tcp_local_port, history>>

Synchronises(seg) ==
  /\ Takes(seg)
  /\ tcp_state = "SYN_SENT" /\ tcp_state' = "ESTABLISHED"
  /\ {"SYN", "ACK"} \subseteq seg.flags
  /\ tcp_ack' = Plus(seg.seq, 1)
  /\ toPeer' = toPeer \cup {SendTcp({"ACK"}, tcp_seq', tcp_ack', <<>>)}

Reads(seg) ==
  /\ Takes(seg)
  /\ Open /\ UNCHANGED tcp_state
  /\ "FIN" \notin seg.flags /\ seg.data # <<>>
  /\ tcp_ack' = Plus(seg.seq, Len(seg.data))
  /\ toPeer' = toPeer \cup {SendTcp({"ACK"}, tcp_seq', tcp_ack', <<>>)}

Ends(seg) ==
  /\ Takes(seg)
  /\ Open /\ tcp_state' = "CLOSED_DONE"
  /\ "FIN" \in seg.flags
  /\ tcp_ack' = Plus(seg.seq, Len(seg.data) + 1)
  /\ toPeer \subseteq toPeer'
  /\ toPeer' \subseteq toPeer \cup
       {SendTcp({"ACK"}, seg.ack, Plus(seg.seq, Len(seg.data)), <<>>),
        SendTcp({"FIN", "ACK"}, tcp_seq', tcp_ack', <<>>)}

Polls ==
  \/ Quiet
  \/ \E seg \in toClient : Synchronises(seg) \/ Reads(seg) \/ Ends(seg)

LEMMA NothingSent == tx' = <<>> /\ Transmit => UNCHANGED toPeer
  BY SendNothing DEF Transmit

LEMMA OneSent ==
  ASSUME NEW m, tx' = <<m>>, Transmit
  PROVE  toPeer' = toPeer \cup {m}
BY SendOne DEF Transmit

LEMMA PollMoves ==
  ASSUME Poll(toClient), Transmit, UNCHANGED history
  PROVE  Polls
<1>1. CASE tx' = <<>> /\ UNCHANGED session
  BY <1>1, NothingSent DEF Polls, Quiet
<1>2. ASSUME NEW seg \in toClient, HandleTcp(seg)
      PROVE  Polls
  <2>1. CASE ForUs(seg) /\ HandleRst(seg)
    BY <2>1, NothingSent DEF HandleRst, Polls, Quiet
  <2>2. CASE ForUs(seg) /\ HandleSynAck(seg)
    <3>1. toPeer' = toPeer \cup {SendTcp({"ACK"}, tcp_seq', tcp_ack', <<>>)}
      BY <2>2, OneSent DEF HandleSynAck
    <3>2. Synchronises(seg)
      BY <2>2, <3>1 DEF ForUs, HandleSynAck, Synchronises, Takes
    <3> QED
      BY <3>2 DEF Polls
  <2>3. CASE ForUs(seg) /\ HandleData(seg)
    <3>1. toPeer' = toPeer \cup {SendTcp({"ACK"}, tcp_seq', tcp_ack', <<>>)}
      BY <2>3, OneSent DEF HandleData
    <3>2. Reads(seg)
      BY <2>3, <3>1 DEF ForUs, HandleData, Reads, Takes
    <3> QED
      BY <3>2 DEF Polls
  <2>4. CASE ForUs(seg) /\ HandleFin(seg)
    <3> DEFINE a == SendTcp({"ACK"}, seg.ack, Plus(seg.seq, Len(seg.data)),
                            <<>>)
               f == SendTcp({"FIN", "ACK"}, tcp_seq', tcp_ack', <<>>)
    <3>1. tx' = (IF Len(seg.data) > 0 THEN <<a>> ELSE <<>>) \o <<f>>
      BY <2>4 DEF HandleFin
    <3> HIDE DEF a, f
    <3>2. <<>> \o <<f>> = <<f>>
      OBVIOUS
    <3>3. Range(tx') \subseteq {a, f}
      <4>1. CASE Len(seg.data) > 0
        <5>1. tx' = <<a>> \o <<f>>
          BY <3>1, <4>1
        <5> QED
          BY <5>1, SendTwo
      <4>2. CASE ~ (Len(seg.data) > 0)
        <5>1. tx' = <<f>>
          BY <3>1, <3>2, <4>2
        <5>2. Range(tx') = {f}
          BY <5>1, SendOne
        <5> QED
          BY <5>2
      <4> QED
        BY <4>1, <4>2
    <3>4. toPeer \subseteq toPeer' /\ toPeer' \subseteq toPeer \cup {a, f}
      BY <3>3 DEF Transmit
    <3>5. Ends(seg)
      BY <2>4, <3>4 DEF ForUs, HandleFin, Ends, Takes, a, f
    <3> QED
      BY <3>5 DEF Polls
  <2>5. CASE tx' = <<>> /\ UNCHANGED session
    BY <2>5, <1>1
  <2> QED
    BY <1>2, <2>1, <2>2, <2>3, <2>4, <2>5 DEF HandleTcp
<1> QED
  BY <1>1, <1>2 DEF Poll

LEMMA ClientMoves ==
  ASSUME ClientMove, Transmit
  PROVE  \/ Opens \/ AsksAgain \/ Closes \/ Polls
         \/ \E n \in ChunkLen : \E data : Sending(n, data)
<1> USE DEF history
<1>1. CASE Connect
  BY <1>1, NothingSent DEF Connect, TcpConnect, Opens
<1>2. CASE Send
  <2>1. PICK n \in ChunkLen :
          LET port == tcp_local_port
              done == Len(BytesSent(port))
              data == Stream(0, done, done + n)
          IN
          /\ Len(sent[port]) < Sends
          /\ TcpSend(data)
          /\ sent' = IF ret'.status = "SUCCESS"
                     THEN [sent EXCEPT ![port] = Append(@, data)]
                     ELSE sent
          /\ UNCHANGED opened
    BY <1>2 DEF Send
  <2> DEFINE data == Stream(0, Len(BytesSent(tcp_local_port)),
                            Len(BytesSent(tcp_local_port)) + n)
  <2>2. CASE tcp_state = "ESTABLISHED"
    <3>1. tx' = <<SendTcp({"PSH", "ACK"}, tcp_seq, tcp_ack, data)>>
          /\ ret'.status = "SUCCESS"
      BY <2>1, <2>2 DEF TcpSend, Return
    <3>2. toPeer' = toPeer \cup
            {SendTcp({"PSH", "ACK"}, tcp_seq, tcp_ack, data)}
      BY <3>1, OneSent
    <3>3. Sending(n, data)
      BY <2>1, <2>2, <3>1, <3>2 DEF Sending, TcpSend
    <3> QED
      BY <3>3
  <2>3. CASE tcp_state # "ESTABLISHED"
    <3>1. tx' = <<>> /\ ret'.status # "SUCCESS"
      BY <2>1, <2>3 DEF TcpSend, Return
    <3>2. Quiet
      BY <2>1, <2>3, <3>1, NothingSent DEF Quiet, TcpSend, session
    <3> QED
      BY <3>2 DEF Polls
  <2> QED
    BY <2>2, <2>3
<1>3. CASE Receive
  BY <1>3, NothingSent DEF Receive, TcpReceive, Polls, Quiet
<1>4. CASE TcpClose /\ UNCHANGED history
  <2>1. CASE tcp_state = "ESTABLISHED"
    BY <1>4, <2>1, OneSent DEF TcpClose, Closes
  <2>2. CASE tcp_state # "ESTABLISHED"
    BY <1>4, <2>2, NothingSent DEF TcpClose, Polls, Quiet, session
  <2> QED
    BY <2>1, <2>2
<1>5. CASE ConnectSend /\ UNCHANGED history
  BY <1>5, OneSent DEF ConnectSend, Connecting, AsksAgain
<1>6. CASE (\/ ConnectPoll(toClient) \/ ReceivePoll(toClient)
           \/ ClosePoll(toClient) \/ PollElsewhere(toClient))
           /\ UNCHANGED history
  BY <1>6, PollMoves DEF ConnectPoll, ReceivePoll, ClosePoll, PollElsewhere
<1>7. CASE (ConnectReturn \/ ReceiveReturn \/ CloseReturn)
           /\ UNCHANGED history
  BY <1>7, NothingSent
  DEF ConnectReturn, ReceiveReturn, CloseReturn, Polls, Quiet
<1>8. CASE tx' = <<>> /\ UNCHANGED <<session, receiver, control, history>>
  BY <1>8, NothingSent DEF Polls, Quiet
<1> QED
  BY <1>1, <1>2, <1>3, <1>4, <1>5, <1>6, <1>7, <1>8 DEF ClientMove, CallStep

-----------------------------------------------------------------------------
(* What a server does in one step.                                         *)

(* The server's end apart from what it reads and sends.                    *)
SameConnection(port) ==
  /\ peer[port].state # "LISTEN" /\ peer'[port].state # "LISTEN"
  /\ peer'[port].irs = peer[port].irs /\ peer'[port].iss = peer[port].iss

SameStreams(port) ==
  /\ peer'[port].read = peer[port].read
  /\ peer'[port].finRead = peer[port].finRead
  /\ peer'[port].snt = peer[port].snt
  /\ peer'[port].finSent = peer[port].finSent

Accepts(port) ==
  /\ peer[port].state = "LISTEN" /\ peer'[port].state # "LISTEN"
  /\ peer'[port].irs = opened[port] /\ peer'[port].iss \in ISS
  /\ peer'[port].read = <<>> /\ peer'[port].finRead = FALSE
  /\ peer'[port].snt = 0 /\ peer'[port].finSent = FALSE
  /\ toClient' = toClient \cup
       {FromPeer(port, {"SYN", "ACK"}, peer'[port].iss, Plus(opened[port], 1),
                 <<>>)}

InSequence(p, seg) ==
  ~ p.finRead /\ Ahead(RcvNxt(p), seg.seq) <= Len(seg.data)

PeerReads(port, seg) ==
  /\ SameConnection(port)
  /\ seg.port = port /\ "ACK" \in seg.flags
  /\ peer'[port].read =
       IF InSequence(peer[port], seg)
       THEN peer[port].read \o
              SubSeq(seg.data, Ahead(RcvNxt(peer[port]), seg.seq) + 1,
                     Len(seg.data))
       ELSE peer[port].read
  /\ peer'[port].finRead =
       (peer[port].finRead \/ (InSequence(peer[port], seg)
                                 /\ "FIN" \in seg.flags))
  /\ peer'[port].snt = peer[port].snt
  /\ peer'[port].finSent = peer[port].finSent
  /\ UNCHANGED toClient

PeerSends(port, first, last, fin) ==
  /\ SameConnection(port)
  /\ ServerFirst \/ peer[port].read # <<>> \/ peer[port].finRead
  /\ first <= last /\ first <= peer[port].snt
  /\ fin => last = StreamLen
  /\ peer'[port].read = peer[port].read
  /\ peer'[port].finRead = peer[port].finRead
  /\ peer'[port].snt = IF last > peer[port].snt THEN last ELSE peer[port].snt
  /\ peer'[port].finSent = (peer[port].finSent \/ fin)
  /\ toClient' = toClient \cup
       {FromPeer(port, {"ACK"} \cup (IF fin THEN {"FIN"} ELSE {}),
                 Plus(peer[port].iss, 1 + first), RcvNxt(peer[port]),
                 Stream(port, first, last))}

Resets(port) ==
  /\ SameConnection(port) /\ SameStreams(port)
  /\ \A seg \in toClient' :
       seg \in toClient \/ (seg.port = port /\ "RST" \in seg.flags)

PeerMove(port) ==
  /\ \A other \in Port : other # port => peer'[other] = peer[other]
  /\ UNCHANGED <<session, toPeer, history>>
  /\ \/ Accepts(port)
     \/ \E seg \in toPeer : PeerReads(port, seg)
     \/ \E first, last \in 0 .. StreamLen, fin \in BOOLEAN :
          PeerSends(port, first, last, fin)
     \/ Resets(port)

LEMMA PeerMoves ==
  ASSUME Handshake, PeerStep
  PROVE  \E port \in Port : PeerMove(port)
<1>0. UNCHANGED <<session, toPeer, history>>
  BY DEF PeerStep
<1>1. PICK port \in Port :
        PeerAccept(port) \/ PeerRead(port) \/ PeerSend(port) \/ PeerReset(port)
  BY DEF PeerStep
<1>2. IsPeer(peer[port]) /\ peer = [p \in Port |-> peer[p]]
  BY DEF Handshake, ServersGenuine
<1>3. CASE PeerAccept(port)
  <2>1. PICK seg \in toPeer, iss \in ISS :
          /\ peer[port].state = "LISTEN"
          /\ seg.port = port /\ seg.flags = {"SYN"}
          /\ peer' = [peer EXCEPT ![port] =
                [Listening EXCEPT !.state = "SYN_RCVD", !.irs = seg.seq,
                                  !.iss = iss]]
          /\ toClient' = toClient \cup
               {FromPeer(port, {"SYN", "ACK"}, iss, Plus(seg.seq, 1), <<>>)}
    BY <1>3 DEF PeerAccept
  <2>2. peer'[port] = [state |-> "SYN_RCVD", irs |-> seg.seq, iss |-> iss,
                       read |-> <<>>, finRead |-> FALSE, snt |-> 0,
                       finSent |-> FALSE]
    BY <1>2, <2>1 DEF Listening
  <2>3. seg.seq = opened[port]
    BY <2>1 DEF Handshake, SynsGenuine
  <2>4. Accepts(port)
    <3>1. /\ peer'[port].state = "SYN_RCVD"
          /\ peer'[port].irs = opened[port] /\ peer'[port].iss = iss
          /\ peer'[port].read = <<>> /\ peer'[port].finRead = FALSE
          /\ peer'[port].snt = 0 /\ peer'[port].finSent = FALSE
      BY <2>2, <2>3
    <3> QED
      BY <2>1, <2>3, <3>1 DEF Accepts
  <2>5. \A other \in Port : other # port => peer'[other] = peer[other]
    BY <1>2, <2>1
  <2> QED
    BY <1>0, <2>4, <2>5 DEF PeerMove
<1>4. CASE PeerRead(port)
  <2>1. PICK seg \in toPeer :
          /\ peer[port].state \in {"SYN_RCVD", "ESTABLISHED"}
          /\ seg.port = port /\ "ACK" \in seg.flags
          /\ peer' = [peer EXCEPT ![port] =
               [peer[port] EXCEPT
                  !.state = "ESTABLISHED",
                  !.read = IF InSequence(peer[port], seg)
                           THEN peer[port].read \o
                                SubSeq(seg.data,
                                       Ahead(RcvNxt(peer[port]), seg.seq) + 1,
                                       Len(seg.data))
                           ELSE peer[port].read,
                  !.finRead = peer[port].finRead \/
                                (InSequence(peer[port], seg)
                                   /\ "FIN" \in seg.flags)]]
          /\ UNCHANGED toClient
    BY <1>4, Zenon DEF PeerRead, InSequence
  <2> DEFINE read == IF InSequence(peer[port], seg)
                     THEN peer[port].read \o
                       SubSeq(seg.data, Ahead(RcvNxt(peer[port]), seg.seq) + 1,
                              Len(seg.data))
                     ELSE peer[port].read
             finRead == peer[port].finRead \/ (InSequence(peer[port], seg)
                                                 /\ "FIN" \in seg.flags)
  <2>2. peer' = [peer EXCEPT ![port] =
                   [peer[port] EXCEPT !.state = "ESTABLISHED", !.read = read,
                                      !.finRead = finRead]]
    BY <2>1, Zenon
  <2> HIDE DEF read, finRead
  <2>3. peer'[port] = [peer[port] EXCEPT !.state = "ESTABLISHED",
                                         !.read = read, !.finRead = finRead]
    BY <1>2, <2>2
  <2>4. /\ peer'[port].state = "ESTABLISHED"
        /\ peer'[port].read = read /\ peer'[port].finRead = finRead
        /\ peer'[port].irs = peer[port].irs /\ peer'[port].iss = peer[port].iss
        /\ peer'[port].snt = peer[port].snt
        /\ peer'[port].finSent = peer[port].finSent
    BY <1>2, <2>3 DEF IsPeer
  <2>5. PeerReads(port, seg)
    BY <2>1, <2>4 DEF PeerReads, SameConnection, read, finRead
  <2>6. \A other \in Port : other # port => peer'[other] = peer[other]
    BY <1>2, <2>2
  <2> QED
    BY <1>0, <2>5, <2>6 DEF PeerMove
<1>5. CASE PeerSend(port)
  <2>1. PICK last \in 0 .. StreamLen, fin \in BOOLEAN :
        \E first \in 0 .. last :
          LET p == peer[port] IN
          /\ p.state = "ESTABLISHED"
          /\ ServerFirst \/ p.read # <<>> \/ p.finRead
          /\ first <= p.snt
          /\ fin => last = StreamLen
          /\ Cardinality(toClient) < MaxSegments
          /\ peer' = [peer EXCEPT ![port].snt = IF last > @ THEN last ELSE @,
                                  ![port].finSent = @ \/ fin]
          /\ toClient' = toClient \cup
               {FromPeer(port, {"ACK"} \cup (IF fin THEN {"FIN"} ELSE {}),
                         Plus(p.iss, 1 + first), RcvNxt(p),
                         Stream(port, first, last))}
    BY <1>5, Zenon DEF PeerSend
  <2>2. PICK first \in 0 .. last :
          /\ peer[port].state = "ESTABLISHED"
          /\ ServerFirst \/ peer[port].read # <<>> \/ peer[port].finRead
          /\ first <= peer[port].snt
          /\ fin => last = StreamLen
          /\ peer' = [peer EXCEPT ![port].snt = IF last > @ THEN last ELSE @,
                                  ![port].finSent = @ \/ fin]
          /\ toClient' = toClient \cup
               {FromPeer(port, {"ACK"} \cup (IF fin THEN {"FIN"} ELSE {}),
                         Plus(peer[port].iss, 1 + first), RcvNxt(peer[port]),
                         Stream(port, first, last))}
    BY <2>1
  <2> DEFINE snt == IF last > peer[port].snt THEN last ELSE peer[port].snt
             finSent == peer[port].finSent \/ fin
  <2>3. peer'[port] = [peer[port] EXCEPT !.snt = snt, !.finSent = finSent]
        /\ \A other \in Port : other # port => peer'[other] = peer[other]
    BY <1>2, <2>2 DEF IsPeer
  <2> HIDE DEF snt, finSent
  <2>4. /\ peer'[port].state = peer[port].state
        /\ peer'[port].snt = snt /\ peer'[port].finSent = finSent
        /\ peer'[port].irs = peer[port].irs /\ peer'[port].iss = peer[port].iss
        /\ peer'[port].read = peer[port].read
        /\ peer'[port].finRead = peer[port].finRead
    BY <1>2, <2>3 DEF IsPeer
  <2>5. PeerSends(port, first, last, fin)
    BY <2>2, <2>4 DEF PeerSends, SameConnection, snt, finSent
  <2>6. first \in 0 .. StreamLen
    BY SessionAssumption
  <2> QED
    BY <1>0, <2>3, <2>5, <2>6 DEF PeerMove
<1>6. CASE PeerReset(port)
  <2>1. /\ peer[port].state \in {"SYN_RCVD", "ESTABLISHED"}
        /\ peer' = [peer EXCEPT ![port].state = "CLOSED"]
    BY <1>6 DEF PeerReset
  <2>2. /\ peer'[port] = [peer[port] EXCEPT !.state = "CLOSED"]
        /\ \A other \in Port : other # port => peer'[other] = peer[other]
    BY <1>2, <2>1
  <2>3. SameConnection(port) /\ SameStreams(port)
    BY <1>2, <2>1, <2>2 DEF IsPeer, SameConnection, SameStreams
  <2>4. Resets(port)
    BY <1>6, <2>3 DEF PeerReset, FromPeer, Resets
  <2> QED
    BY <1>0, <2>2, <2>4 DEF PeerMove
<1> QED
  BY <1>1, <1>3, <1>4, <1>5, <1>6

-----------------------------------------------------------------------------
(* The acknowledgements of the client.                                     *)

(* How far the server has sent, its FIN included.                          *)
SentBy(p) == p.snt + (IF p.finSent THEN 1 ELSE 0)

ServersTyped ==
  \A port \in Port :
    /\ peer[port].iss \in 0 .. Word - 1
    /\ peer[port].snt \in 0 .. StreamLen

(* A SYN-ACK bears the server's first sequence number, any other segment   *)
(* those of the bytes it carries, a FIN that of the end of the stream.     *)
SynAck(seg) ==
  /\ seg.flags = {"SYN", "ACK"} /\ seg.data = <<>>
  /\ seg.seq = peer[seg.port].iss

Carries(seg) ==
  /\ "SYN" \notin seg.flags
  /\ \E last \in 0 .. StreamLen : \E first \in 0 .. last :
       /\ last <= peer[seg.port].snt
       /\ seg.seq = Plus(peer[seg.port].iss, 1 + first)
       /\ seg.data = Stream(seg.port, first, last)
       /\ "FIN" \in seg.flags => last = StreamLen /\ peer[seg.port].finSent

ServerNumbers ==
  \A seg \in toClient : "RST" \notin seg.flags => SynAck(seg) \/ Carries(seg)

Acknowledges(port, ack) ==
  /\ peer[port].state # "LISTEN"
  /\ \E m \in 0 .. SentBy(peer[port]) : ack = Plus(peer[port].iss, 1 + m)

AcksGenuine ==
  /\ Synchronised => Acknowledges(tcp_local_port, tcp_ack)
  /\ \A seg \in toPeer :
       /\ seg.port \in Port
       /\ "ACK" \in seg.flags => Acknowledges(seg.port, seg.ack)

AckInv == Handshake /\ ServersTyped /\ ServerNumbers /\ AcksGenuine

LEMMA InitAck == SessionInit => AckInv
<1> SUFFICES ASSUME SessionInit
             PROVE  ServersTyped /\ ServerNumbers /\ AcksGenuine
  BY InitHandshake DEF AckInv
<1> USE DEF SessionInit, ClientInit
<1>1. 0 \in 0 .. Word - 1 /\ 0 \in 0 .. StreamLen
  BY TcpAssumption, SessionAssumption
<1>2. ServersTyped
  BY <1>1 DEF ServersTyped, Listening
<1> QED
  BY <1>2 DEF ServerNumbers, AcksGenuine, Synchronised

(* The acknowledgement numbers handle_tcp computes.                        *)
LEMMA SynAcknowledged ==
  ASSUME AckInv, NEW seg \in toClient, "RST" \notin seg.flags,
         "SYN" \in seg.flags
  PROVE  Acknowledges(seg.port, Plus(seg.seq, 1))
<1>1. seg.port \in Port /\ peer[seg.port].state # "LISTEN"
  BY DEF AckInv, Handshake, Answered
<1>2. seg.seq = peer[seg.port].iss
  BY DEF AckInv, ServerNumbers, SynAck, Carries
<1>3. 0 \in 0 .. SentBy(peer[seg.port])
  BY <1>1, SessionAssumption DEF AckInv, ServersTyped, SentBy
<1>4. 1 + 0 = 1
  OBVIOUS
<1> QED
  BY <1>1, <1>2, <1>3, <1>4 DEF Acknowledges

LEMMA DataAcknowledged ==
  ASSUME AckInv, NEW seg \in toClient, "RST" \notin seg.flags,
         seg.data # <<>> \/ "FIN" \in seg.flags
  PROVE  /\ Acknowledges(seg.port, Plus(seg.seq, Len(seg.data)))
         /\ "FIN" \in seg.flags =>
              Acknowledges(seg.port, Plus(seg.seq, Len(seg.data) + 1))
<1> DEFINE p == peer[seg.port]
<1>1. seg.port \in Port /\ p.state # "LISTEN"
  BY DEF AckInv, Handshake, Answered
<1>2. PICK last \in 0 .. StreamLen : \E first \in 0 .. last :
        /\ last <= p.snt
        /\ seg.seq = Plus(p.iss, 1 + first)
        /\ seg.data = Stream(seg.port, first, last)
        /\ "FIN" \in seg.flags => last = StreamLen /\ p.finSent
  BY DEF AckInv, ServerNumbers, SynAck, Carries
<1>3. PICK first \in 0 .. last :
        /\ last <= p.snt
        /\ seg.seq = Plus(p.iss, 1 + first)
        /\ seg.data = Stream(seg.port, first, last)
        /\ "FIN" \in seg.flags => last = StreamLen /\ p.finSent
  BY <1>2
<1>4. first \in Nat /\ last \in Nat /\ first <= last
      /\ p.snt \in Nat /\ p.iss \in Int
  <2>1. StreamLen \in Nat /\ Word \in Nat
    BY SessionAssumption, TcpAssumption
  <2>2. p.snt \in 0 .. StreamLen /\ p.iss \in 0 .. Word - 1
    BY <1>1 DEF AckInv, ServersTyped
  <2> HIDE DEF p
  <2> QED
    BY <2>1, <2>2
<1> HIDE DEF p
<1>5. Len(seg.data) = last - first
  <2>1. Len(Stream(seg.port, first, last)) = last - first
    BY <1>4, StreamType, Zenon
  <2> QED
    BY <1>3, <2>1
<1>6. Plus(seg.seq, Len(seg.data)) = Plus(p.iss, 1 + last)
  <2>1. Plus(Plus(p.iss, 1 + first), last - first)
          = Plus(p.iss, (1 + first) + (last - first))
    <3>1. 1 + first \in Int /\ last - first \in Int
      BY <1>4
    <3> QED
      BY <1>4, <3>1, PlusPlus, Zenon
  <2>2. (1 + first) + (last - first) = 1 + last
    BY <1>4
  <2> QED
    BY <1>3, <1>5, <2>1, <2>2
<1>7. Plus(seg.seq, Len(seg.data) + 1) = Plus(p.iss, 1 + (last + 1))
  <2>1. Plus(Plus(p.iss, 1 + first), (last - first) + 1)
          = Plus(p.iss, (1 + first) + ((last - first) + 1))
    <3>1. 1 + first \in Int /\ (last - first) + 1 \in Int
      BY <1>4
    <3> QED
      BY <1>4, <3>1, PlusPlus, Zenon
  <2>2. (1 + first) + ((last - first) + 1) = 1 + (last + 1)
    BY <1>4
  <2> QED
    BY <1>3, <1>5, <2>1, <2>2
<1>8. last \in 0 .. SentBy(p)
  BY <1>3, <1>4 DEF SentBy
<1>9. "FIN" \in seg.flags => last + 1 \in 0 .. SentBy(p)
  BY <1>3, <1>4 DEF SentBy
<1> QED
  BY <1>1, <1>6, <1>7, <1>8, <1>9 DEF Acknowledges, p

(* Steps of the client.                                                    *)
LEMMA ClientAck ==
  ASSUME AckInv, ClientMove, Transmit, UNCHANGED <<peer, toClient>>
  PROVE  AcksGenuine'
<1> DEFINE Good(m) == /\ m.port \in Port
                      /\ "ACK" \in m.flags => Acknowledges(m.port, m.ack)
<1>1. \A seg \in toPeer : Good(seg)
  BY DEF AckInv, AcksGenuine
<1>2. Synchronised => Acknowledges(tcp_local_port, tcp_ack)
  BY DEF AckInv, AcksGenuine
<1>3. tcp_state # "CLOSED" => tcp_local_port \in Port
  BY DEF AckInv, Handshake, SessionOpened
<1>4. ASSUME NEW flags, NEW seq, NEW ack, NEW data, tcp_local_port \in Port,
             "ACK" \in flags => Acknowledges(tcp_local_port, ack)
      PROVE  Good(SendTcp(flags, seq, ack, data))
  BY <1>4 DEF SendTcp
<1>5. SUFFICES /\ \A seg \in toPeer' : Good(seg)
               /\ Synchronised' => Acknowledges(tcp_local_port', tcp_ack')
  BY DEF AcksGenuine, Acknowledges
<1> HIDE DEF Good
<1> USE DEF Synchronised
<1>6. CASE Quiet
  BY <1>1, <1>2, <1>6 DEF Quiet, session
<1>7. CASE Opens
  BY <1>1, <1>7 DEF Opens
<1>8. CASE AsksAgain
  BY <1>1, <1>2, <1>3, <1>4, <1>8 DEF AsksAgain, session
<1>9. CASE Closes
  BY <1>1, <1>2, <1>3, <1>4, <1>9 DEF Closes
<1>10. ASSUME NEW n, NEW data, Sending(n, data)
       PROVE  /\ \A seg \in toPeer' : Good(seg)
              /\ Synchronised' => Acknowledges(tcp_local_port', tcp_ack')
  BY <1>1, <1>2, <1>3, <1>4, <1>10 DEF Sending
<1>11. ASSUME NEW seg \in toClient, Synchronises(seg)
       PROVE  /\ \A m \in toPeer' : Good(m)
              /\ Synchronised' => Acknowledges(tcp_local_port', tcp_ack')
  <2>1. Acknowledges(tcp_local_port, tcp_ack') /\ tcp_local_port \in Port
    BY <1>3, <1>11, SynAcknowledged DEF Synchronises, Takes
  <2> QED
    BY <1>1, <1>4, <1>11, <2>1 DEF Synchronises, Takes
<1>12. ASSUME NEW seg \in toClient, Reads(seg)
       PROVE  /\ \A m \in toPeer' : Good(m)
              /\ Synchronised' => Acknowledges(tcp_local_port', tcp_ack')
  <2>1. Acknowledges(tcp_local_port, tcp_ack') /\ tcp_local_port \in Port
    BY <1>3, <1>12, DataAcknowledged DEF Reads, Takes, Open
  <2> QED
    BY <1>1, <1>4, <1>12, <2>1 DEF Reads, Takes
<1>13. ASSUME NEW seg \in toClient, Ends(seg)
       PROVE  /\ \A m \in toPeer' : Good(m)
              /\ Synchronised' => Acknowledges(tcp_local_port', tcp_ack')
  <2>1. /\ Acknowledges(tcp_local_port, tcp_ack')
        /\ seg.data # <<>> =>
             Acknowledges(tcp_local_port, Plus(seg.seq, Len(seg.data)))
        /\ tcp_local_port \in Port
    BY <1>3, <1>13, DataAcknowledged DEF Ends, Takes, Open
  <2>2. Acknowledges(tcp_local_port, Plus(seg.seq, Len(seg.data)))
    BY <1>13, DataAcknowledged DEF Ends, Takes
  <2> QED
    BY <1>1, <1>4, <1>13, <2>1, <2>2 DEF Ends, Takes
<1> QED
  BY <1>6, <1>7, <1>8, <1>9, <1>10, <1>11, <1>12, <1>13, ClientMoves DEF Polls

(* Steps of the servers only add to what they have sent.                   *)
LEMMA SentGrows ==
  ASSUME ServersTyped, NEW port \in Port, PeerMove(port),
         NEW other \in Port, peer[other].state # "LISTEN"
  PROVE  /\ peer'[other].state # "LISTEN"
         /\ peer'[other].iss = peer[other].iss
         /\ peer[other].snt <= peer'[other].snt
         /\ peer[other].finSent => peer'[other].finSent
<1>1. StreamLen \in Nat
  BY SessionAssumption
<1>2. peer[other].snt \in 0 .. StreamLen
  BY DEF ServersTyped
<1>3. CASE other # port
  BY <1>1, <1>2, <1>3 DEF PeerMove
<1>4. CASE other = port
  <2>1. CASE \E seg \in toPeer : PeerReads(port, seg)
    BY <1>1, <1>2, <1>4, <2>1 DEF PeerReads, SameConnection
  <2>2. ASSUME NEW first \in 0 .. StreamLen, NEW last \in 0 .. StreamLen,
               NEW fin \in BOOLEAN, PeerSends(port, first, last, fin)
        PROVE  /\ peer'[other].state # "LISTEN"
               /\ peer'[other].iss = peer[other].iss
               /\ peer[other].snt <= peer'[other].snt
               /\ peer[other].finSent => peer'[other].finSent
    <3>1. /\ peer'[port].state # "LISTEN"
          /\ peer'[port].iss = peer[port].iss
          /\ peer'[port].snt = IF last > peer[port].snt THEN last
                                                       ELSE peer[port].snt
          /\ peer'[port].finSent = (peer[port].finSent \/ fin)
      BY <2>2 DEF PeerSends, SameConnection
    <3>2. peer[port].snt <= peer'[port].snt
      BY <1>1, <1>2, <1>4, <3>1
    <3>3. peer[port].finSent => peer'[port].finSent
      BY <3>1
    <3> QED
      BY <1>4, <3>1, <3>2, <3>3
  <2>3. CASE Resets(port)
    BY <1>1, <1>2, <1>4, <2>3 DEF Resets, SameConnection, SameStreams
  <2> QED
    BY <1>4, <2>1, <2>2, <2>3 DEF PeerMove, Accepts
<1> QED
  BY <1>3, <1>4

LEMMA PeerTyped ==
  ASSUME ServersTyped, NEW port \in Port, PeerMove(port)
  PROVE  ServersTyped'
<1>1. StreamLen \in Nat /\ ISS \subseteq 0 .. Word - 1
  BY SessionAssumption
<1>2. /\ peer[port].iss \in 0 .. Word - 1
      /\ peer[port].snt \in 0 .. StreamLen
  BY DEF ServersTyped
<1>3. /\ peer'[port].iss \in 0 .. Word - 1
      /\ peer'[port].snt \in 0 .. StreamLen
  <2>1. CASE Accepts(port)
    <3>1. peer'[port].iss \in ISS /\ peer'[port].snt = 0
      BY <2>1 DEF Accepts
    <3>2. 0 \in 0 .. StreamLen
      BY <1>1
    <3> QED
      BY <1>1, <3>1, <3>2
  <2>2. CASE \E seg \in toPeer : PeerReads(port, seg)
    BY <1>2, <2>2 DEF PeerReads, SameConnection
  <2>3. ASSUME NEW first \in 0 .. StreamLen, NEW last \in 0 .. StreamLen,
               NEW fin \in BOOLEAN, PeerSends(port, first, last, fin)
        PROVE  /\ peer'[port].iss \in 0 .. Word - 1
               /\ peer'[port].snt \in 0 .. StreamLen
    <3>1. /\ peer'[port].iss = peer[port].iss
          /\ peer'[port].snt = IF last > peer[port].snt THEN last
                                                       ELSE peer[port].snt
      BY <2>3 DEF PeerSends, SameConnection
    <3>2. peer'[port].snt \in {last, peer[port].snt}
      BY <3>1
    <3> QED
      BY <1>2, <3>1, <3>2
  <2>4. CASE Resets(port)
    BY <1>2, <2>4 DEF Resets, SameConnection, SameStreams
  <2> QED
    BY <2>1, <2>2, <2>3, <2>4 DEF PeerMove
<1> QED
  BY <1>3 DEF ServersTyped, PeerMove

LEMMA PeerNumbers ==
  ASSUME AckInv, NEW port \in Port, PeerMove(port)
  PROVE  ServerNumbers'
<1>1. StreamLen \in Nat /\ ServersTyped
  BY SessionAssumption DEF AckInv
<1> SUFFICES ASSUME NEW seg \in toClient', "RST" \notin seg.flags
             PROVE  SynAck(seg)' \/ Carries(seg)'
  BY DEF ServerNumbers
<1>2. CASE seg \in toClient
  <2>1. seg.port \in Port /\ peer[seg.port].state # "LISTEN"
    BY <1>2 DEF AckInv, Handshake, Answered
  <2>2. /\ peer'[seg.port].iss = peer[seg.port].iss
        /\ peer[seg.port].snt <= peer'[seg.port].snt
        /\ peer[seg.port].finSent => peer'[seg.port].finSent
    BY <1>1, <2>1, SentGrows
  <2>3. CASE SynAck(seg)
    BY <2>2, <2>3 DEF SynAck
  <2>4. CASE Carries(seg)
    <3>1. /\ peer[seg.port].snt \in Nat /\ peer'[seg.port].snt \in Nat
      <4>1. ServersTyped'
        BY <1>1, PeerTyped
      <4> QED
        BY <1>1, <2>1, <4>1 DEF ServersTyped
    <3> QED
      BY <1>1, <2>2, <2>4, <3>1 DEF Carries
  <2> QED
    BY <1>2, <2>3, <2>4 DEF AckInv, ServerNumbers
<1>3. CASE seg \notin toClient
  <2>1. CASE Accepts(port)
    <3>1. /\ seg = FromPeer(port, {"SYN", "ACK"}, peer'[port].iss,
                            Plus(opened[port], 1), <<>>)
      BY <1>3, <2>1 DEF Accepts
    <3> QED
      BY <3>1 DEF FromPeer, SynAck
  <2>2. ASSUME NEW first \in 0 .. StreamLen, NEW last \in 0 .. StreamLen,
               NEW fin \in BOOLEAN, PeerSends(port, first, last, fin)
        PROVE  Carries(seg)'
    <3>1. /\ seg.port = port
          /\ seg.flags = {"ACK"} \cup (IF fin THEN {"FIN"} ELSE {})
          /\ seg.seq = Plus(peer[port].iss, 1 + first)
          /\ seg.data = Stream(port, first, last)
      BY <1>3, <2>2 DEF PeerSends, FromPeer
    <3>2. /\ peer'[port].iss = peer[port].iss
          /\ last <= peer'[port].snt /\ first \in 0 .. last
          /\ fin => last = StreamLen /\ peer'[port].finSent
      <4>1. peer[port].snt \in 0 .. StreamLen
        BY <1>1 DEF ServersTyped
      <4> QED
        BY <1>1, <2>2, <4>1 DEF PeerSends, SameConnection
    <3>3. "SYN" \notin seg.flags /\ ("FIN" \in seg.flags => fin)
      BY <3>1
    <3> QED
      BY <3>1, <3>2, <3>3 DEF Carries
  <2>3. CASE (\E m \in toPeer : PeerReads(port, m)) \/ Resets(port)
    BY <1>3, <2>3 DEF PeerReads, Resets
  <2> QED
    BY <2>1, <2>2, <2>3 DEF PeerMove
<1> QED
  BY <1>2, <1>3

LEMMA PeerAck ==
  ASSUME AckInv, PeerStep
  PROVE  (ServersTyped /\ ServerNumbers /\ AcksGenuine)'
<1>1. PICK port \in Port : PeerMove(port)
  BY PeerMoves DEF AckInv
<1>2. ServersTyped /\ StreamLen \in Nat
  BY SessionAssumption DEF AckInv
<1>3. ServersTyped' /\ ServerNumbers'
  BY <1>1, <1>2, PeerTyped, PeerNumbers
<1>4. ASSUME NEW other \in Port, NEW ack, Acknowledges(other, ack)
      PROVE  /\ peer'[other].state # "LISTEN"
             /\ \E m \in 0 .. SentBy(peer'[other]) :
                  ack = Plus(peer'[other].iss, 1 + m)
  <2>1. /\ peer[other].snt \in Nat /\ peer'[other].snt \in Nat
    BY <1>2, <1>3 DEF ServersTyped
  <2>2. /\ peer'[other].state # "LISTEN"
        /\ peer'[other].iss = peer[other].iss
        /\ peer[other].snt <= peer'[other].snt
        /\ peer[other].finSent => peer'[other].finSent
    BY <1>1, <1>2, <1>4, SentGrows DEF Acknowledges
  <2>3. SentBy(peer[other]) \in Nat /\ SentBy(peer'[other]) \in Nat
        /\ SentBy(peer[other]) <= SentBy(peer'[other])
    BY <2>1, <2>2 DEF SentBy
  <2> QED
    BY <1>4, <2>2, <2>3 DEF Acknowledges
<1>5. UNCHANGED <<session, toPeer>>
  BY <1>1 DEF PeerMove
<1>6. tcp_state # "CLOSED" => tcp_local_port \in Port
  BY DEF AckInv, Handshake, SessionOpened
<1>7. AcksGenuine'
  BY <1>4, <1>5, <1>6
  DEF AckInv, AcksGenuine, Synchronised, Acknowledges, session
<1> QED
  BY <1>3, <1>7

LEMMA NextAck ==
  ASSUME AckInv, SessionStep
  PROVE  AckInv'
<1>1. Handshake'
  BY NextHandshake DEF AckInv
<1>2. CASE ClientMove /\ Transmit /\ UNCHANGED <<peer, toClient>>
  <2>1. AcksGenuine'
    BY <1>2, ClientAck
  <2>2. ServersTyped' /\ ServerNumbers'
    BY <1>2 DEF AckInv, ServersTyped, ServerNumbers, SynAck, Carries
  <2> QED
    BY <1>1, <2>1, <2>2 DEF AckInv
<1>3. CASE PeerStep
  BY <1>1, <1>3, PeerAck DEF AckInv
<1>4. CASE UNCHANGED vars
  BY <1>1, <1>4
  DEF vars, clientVars, session, network, AckInv, ServersTyped,
      ServerNumbers, SynAck, Carries, AcksGenuine, Synchronised, Acknowledges
<1> QED
  BY <1>2, <1>3, <1>4 DEF SessionStep

LEMMA AckIsSound ==
  StreamLen + 1 < Word /\ AckInv => NeverAcksUnsent
<1> SUFFICES ASSUME StreamLen + 1 < Word, AckInv,
                    NEW seg \in toPeer, "ACK" \in seg.flags
             PROVE  LET p == peer[seg.port] IN
                    /\ p.state # "LISTEN"
                    /\ Ahead(seg.ack, Plus(p.iss, 1))
                         <= Ahead(SndNxt(p), Plus(p.iss, 1))
  BY DEF NeverAcksUnsent
<1> DEFINE p == peer[seg.port]
<1>1. StreamLen \in Nat /\ Word \in Nat
  BY SessionAssumption, TcpAssumption
<1>2. seg.port \in Port /\ Acknowledges(seg.port, seg.ack)
  BY DEF AckInv, AcksGenuine
<1>3. p.iss \in 0 .. Word - 1 /\ p.snt \in 0 .. StreamLen
  BY <1>2 DEF AckInv, ServersTyped
<1>4. p.state # "LISTEN"
  BY <1>2 DEF Acknowledges
<1>5. PICK m \in 0 .. SentBy(p) : seg.ack = Plus(p.iss, 1 + m)
  BY <1>2 DEF Acknowledges
<1> HIDE DEF p
<1>6. /\ SentBy(p) \in Nat /\ SentBy(p) < Word /\ p.iss \in Int
      /\ 1 + p.snt + (IF p.finSent THEN 1 ELSE 0) = 1 + SentBy(p)
  BY <1>1, <1>3 DEF SentBy
<1>7. Ahead(Plus(p.iss, 1 + m), Plus(p.iss, 1)) = m
  <2>1. 1 + m \in Int /\ (1 + m) - 1 = m /\ 0 <= m /\ m < Word
    BY <1>1, <1>6
  <2>2. Ahead(Plus(p.iss, 1 + m), Plus(p.iss, 1)) = (1 + m) - 1
    BY <1>6, <2>1, AheadIs
  <2> QED
    BY <2>1, <2>2
<1>8. Ahead(SndNxt(p), Plus(p.iss, 1)) = SentBy(p)
  <2>1. SndNxt(p) = Plus(p.iss, 1 + SentBy(p))
    BY <1>6 DEF SndNxt
  <2>2. 1 + SentBy(p) \in Int /\ (1 + SentBy(p)) - 1 = SentBy(p)
    BY <1>6
  <2>3. Ahead(Plus(p.iss, 1 + SentBy(p)), Plus(p.iss, 1))
          = (1 + SentBy(p)) - 1
    BY <1>6, <2>2, AheadIs
  <2> QED
    BY <2>1, <2>2, <2>3
<1>9. m <= SentBy(p)
  BY <1>6
<1> QED
  BY <1>4, <1>5, <1>7, <1>8, <1>9 DEF p

(* Nothing is acknowledged that the server has not sent, for streams       *)
(* shorter than the sequence space: what handle_tcp computes (core.hpp:349 *)
(* to 395) is right for data, FIN and both together, across the wrap too,  *)
(* in whatever order segments arrive.                                      *)
THEOREM AcksAreForSent ==
  ASSUME StreamLen + 1 < Word
  PROVE  SessionSpec => []NeverAcksUnsent
<1>1. AckInv /\ [SessionNext]_vars => AckInv'
  BY NextAck, SessionSteps
<1>2. AckInv => NeverAcksUnsent
  BY AckIsSound
<1> QED
  BY InitAck, <1>1, <1>2, PTL DEF SessionSpec

(* The same of the connections of http_get.                                *)
THEOREM HttpAcksAreForSent ==
  ASSUME StreamLen + 1 < Word
  PROVE  HttpSpec => []NeverAcksUnsent
<1>1. HttpInit => AckInv
  BY InitAck DEF HttpInit
<1>2. AckInv /\ [HttpNext]_allVars => AckInv'
  BY NextAck, HttpSteps
<1>3. AckInv => NeverAcksUnsent
  BY AckIsSound
<1> QED
  BY <1>1, <1>2, <1>3, PTL DEF HttpSpec

-----------------------------------------------------------------------------
(* The sequence numbers of the client, on connections that carry one       *)
(* request, as those of http_get do, to servers that answer it.            *)

OneRequest ==
  /\ ~ ServerFirst
  /\ Sends <= 1
  /\ \A n \in ChunkLen \cup {0} : n + 1 < Word

(* The k-th sequence number of the client's stream.                        *)
At(port, k) == Plus(opened[port], 1 + k)

Length(port) == IF sent[port] = <<>> THEN 0 ELSE Len(sent[port][1])

Request(port) == Stream(0, 0, Length(port))

Finished(port) == \E seg \in toPeer : seg.port = port /\ "FIN" \in seg.flags

SentOnce ==
  /\ sent = [port \in Port |-> sent[port]]
  /\ \A port \in Port : sent[port] # <<>> =>
       /\ port \in DOMAIN opened
       /\ \E n \in ChunkLen : sent[port] = <<Stream(0, 0, n)>>

OpenedTyped == \A port \in DOMAIN opened : opened[port] \in 0 .. Word - 1

(* A segment of the client: it asks for the connection, acknowledges,      *)
(* carries the request, or ends the stream after it; the FIN that answers  *)
(* a FIN may follow another FIN.                                           *)
Asks(seg) ==
  /\ seg.flags \in {{"SYN"}, {"ACK"}} /\ seg.data = <<>>
  /\ "ACK" \in seg.flags => seg.seq \in 0 .. Word - 1

Requests(seg) ==
  /\ seg.flags = {"PSH", "ACK"} /\ sent[seg.port] # <<>>
  /\ seg.seq = At(seg.port, 0) /\ seg.data = Request(seg.port)

Finishes(seg) ==
  /\ seg.flags = {"FIN", "ACK"} /\ seg.data = <<>>
  /\ seg.seq \in {At(seg.port, Length(seg.port)),
                  At(seg.port, Length(seg.port) + 1)}

RequestSegment(seg) ==
  /\ seg.port \in DOMAIN opened
  /\ Asks(seg) \/ Requests(seg) \/ Finishes(seg)

RequestSegments == \A seg \in toPeer : RequestSegment(seg)

(* A server has read nothing or the request, and its end only behind it.   *)
ServersRead ==
  \A port \in Port :
    /\ peer[port].read \in {<<>>, Request(port)}
    /\ peer[port].finRead =>
         peer[port].read = Request(port) /\ Finished(port)

(* A server acknowledges the SYN alone, or answers what it has read.       *)
Welcomes(seg) ==
  /\ seg.flags = {"SYN", "ACK"} /\ seg.data = <<>>
  /\ seg.ack = At(seg.port, 0)

Answers(seg) ==
  /\ "SYN" \notin seg.flags
  /\ peer[seg.port].read # <<>> \/ peer[seg.port].finRead
  /\ \/ seg.ack = At(seg.port, Length(seg.port))
     \/ /\ peer[seg.port].finRead
        /\ seg.ack = At(seg.port, Length(seg.port) + 1)

ServersAnswer ==
  \A seg \in toClient : "RST" \notin seg.flags => Welcomes(seg) \/ Answers(seg)

(* Until it sends its FIN, the client is right behind its request.         *)
ClientNumbers ==
  /\ tcp_state \in {"SYN_SENT", "ESTABLISHED"} => ~ Finished(tcp_local_port)
  /\ tcp_state = "SYN_SENT" => sent[tcp_local_port] = <<>>
  /\ tcp_state = "ESTABLISHED" =>
       tcp_seq = At(tcp_local_port, Length(tcp_local_port))

Numbered ==
  /\ SentOnce /\ OpenedTyped /\ RequestSegments /\ ServersRead
  /\ ServersAnswer /\ ClientNumbers

SequenceInv == Handshake /\ Numbered

LEMMA FirstBytes ==
  ASSUME NEW n \in Nat
  PROVE  /\ Stream(0, 0, n) \in Seq(Symbol(0))
         /\ Len(Stream(0, 0, n)) = n
         /\ \A k \in 1 .. n : Stream(0, 0, n)[k] = <<0, k>>
<1>1. 0 \in Nat /\ 0 <= n /\ n - 0 = n /\ \A k \in 1 .. n : 0 + k = k
  OBVIOUS
<1>2. /\ Stream(0, 0, n) \in Seq(Symbol(0))
      /\ Len(Stream(0, 0, n)) = n - 0
      /\ \A k \in 1 .. n - 0 : Stream(0, 0, n)[k] = <<0, 0 + k>>
  BY <1>1, StreamType, Zenon
<1> QED
  BY <1>1, <1>2

LEMMA FlattenNone == FlattenSeq(<<>>) = <<>>
  BY DEF FlattenSeq

LEMMA FlattenOne ==
  ASSUME NEW s
  PROVE  FlattenSeq(<<s>>) = s
<1> DEFINE G(f) == f = [i \in 1 .. Len(<<s>>) |->
                         IF i = 1 THEN <<s>>[i] ELSE f[i - 1] \o <<s>>[i]]
           g == [i \in 1 .. 1 |-> s]
           flatten == CHOOSE f : G(f)
<1>1. Len(<<s>>) = 1 /\ <<s>>[1] = s /\ \A i \in 1 .. 1 : i = 1
  OBVIOUS
<1>2. G(g)
  BY <1>1
<1>3. G(flatten)
  <2> HIDE DEF G
  <2> QED
    BY <1>2
<1>4. flatten[1] = s
  BY <1>1, <1>3
<1>5. FlattenSeq(<<s>>) = flatten[1]
  BY <1>1 DEF FlattenSeq
<1> QED
  BY <1>4, <1>5

LEMMA EmptyStream == Stream(0, 0, 0) = <<>>
<1>1. Stream(0, 0, 0) \in Seq(Symbol(0)) /\ Len(Stream(0, 0, 0)) = 0
  BY FirstBytes
<1> QED
  BY <1>1

LEMMA RequestLength ==
  ASSUME OneRequest, SentOnce, NEW port \in Port
  PROVE  /\ Length(port) \in Nat /\ Length(port) + 1 < Word
         /\ Request(port) \in Seq(Symbol(0))
         /\ Len(Request(port)) = Length(port)
         /\ sent[port] = <<>> => Length(port) = 0 /\ Request(port) = <<>>
<1>1. ChunkLen \subseteq Nat /\ 0 \in Nat
  BY SessionAssumption
<1>2. sent[port] = <<>> => Length(port) = 0
  BY DEF Length
<1>3. ASSUME NEW n \in ChunkLen, sent[port] = <<Stream(0, 0, n)>>
      PROVE  Length(port) = n
  <2>1. sent[port] # <<>> /\ sent[port][1] = Stream(0, 0, n)
    BY <1>3
  <2>2. Len(Stream(0, 0, n)) = n
    BY <1>1, <1>3, FirstBytes
  <2> QED
    BY <2>1, <2>2 DEF Length
<1>4. Length(port) \in ChunkLen \cup {0}
  BY <1>2, <1>3 DEF SentOnce
<1>5. Length(port) \in Nat /\ Length(port) + 1 < Word
  BY <1>1, <1>4 DEF OneRequest
<1>6. /\ Request(port) \in Seq(Symbol(0))
      /\ Len(Request(port)) = Length(port)
  BY <1>5, FirstBytes DEF Request
<1> QED
  BY <1>2, <1>5, <1>6, EmptyStream DEF Request

LEMMA AtType ==
  ASSUME SentOnce, OpenedTyped, OneRequest, DOMAIN opened \subseteq Port,
         NEW port \in DOMAIN opened,
         NEW k \in {0, Length(port), Length(port) + 1}
  PROVE  At(port, k) \in 0 .. Word - 1
<1>1. Length(port) \in Nat
  BY RequestLength
<1>2. 1 + k \in Int
  BY <1>1
<1>3. opened[port] \in Int
  BY DEF OpenedTyped
<1> QED
  BY <1>2, <1>3, PlusType DEF At

LEMMA AnswerType ==
  ASSUME OneRequest, SequenceInv,
         NEW seg \in toClient, "RST" \notin seg.flags
  PROVE  seg.ack \in 0 .. Word - 1
<1>1. seg.port \in DOMAIN opened /\ DOMAIN opened \subseteq Port
  BY DEF SequenceInv, Handshake, Answered, ServersGenuine, SessionOpened
<1>2. \E k \in {0, Length(seg.port), Length(seg.port) + 1} :
        seg.ack = At(seg.port, k)
  BY DEF SequenceInv, Numbered, ServersAnswer, Welcomes, Answers
<1> QED
  BY <1>1, <1>2, AtType DEF SequenceInv, Numbered

LEMMA InitSequence == SessionInit => SequenceInv
<1> SUFFICES ASSUME SessionInit
             PROVE  Numbered
  BY InitHandshake DEF SequenceInv
<1> USE DEF SessionInit, ClientInit
<1>1. ServersRead
  BY DEF ServersRead, Listening
<1> QED
  BY <1>1
  DEF Numbered, SentOnce, OpenedTyped, RequestSegments, ServersAnswer,
      ClientNumbers

(* What a step that sends no new data and opens no connection keeps.       *)
LEMMA HistoryKept ==
  ASSUME Numbered, UNCHANGED <<peer, toClient, opened, sent>>,
         toPeer \subseteq toPeer'
  PROVE  (SentOnce /\ OpenedTyped /\ ServersRead /\ ServersAnswer)'
<1> USE DEF Numbered, Request, Length, At
<1>1. (SentOnce /\ OpenedTyped)'
  BY DEF SentOnce, OpenedTyped
<1>2. ServersAnswer'
  BY DEF ServersAnswer, Welcomes, Answers
<1>3. \A port \in Port : Finished(port) => Finished(port)'
  BY DEF Finished
<1>4. ServersRead'
  BY <1>3 DEF ServersRead
<1> QED
  BY <1>1, <1>2, <1>4

(* New segments of the client.                                             *)
LEMMA SegmentsKept ==
  ASSUME Numbered, UNCHANGED <<opened, sent>>,
         \A seg \in toPeer' : seg \in toPeer \/ RequestSegment(seg)
  PROVE  RequestSegments'
BY DEF Numbered, RequestSegments, RequestSegment, Asks, Requests, Finishes,
       Request, Length, At

(* Steps of the client.                                                    *)
LEMMA OpensNumbered ==
  ASSUME OneRequest, SequenceInv, Opens, UNCHANGED <<peer, toClient>>
  PROVE  Numbered'
<1> USE DEF SequenceInv, Numbered
<1>1. PICK port \in Port \ DOMAIN opened, isn \in ISN :
        /\ TcpConnect(port, isn)
        /\ opened' = [p \in DOMAIN opened \cup {port} |->
                        IF p = port THEN isn ELSE opened[p]]
  BY DEF Opens, Connect
<1>2. /\ DOMAIN opened' = DOMAIN opened \cup {port}
      /\ opened'[port] = isn
      /\ \A p \in DOMAIN opened : opened'[p] = opened[p]
      /\ tcp_local_port' = port
      /\ UNCHANGED <<toPeer, sent>>
  BY <1>1 DEF TcpConnect, Opens
<1>3. DOMAIN opened \subseteq Port /\ ISN \subseteq 0 .. Word - 1
  BY TcpAssumption DEF Handshake, SessionOpened
<1>4. SentOnce'
  BY <1>2 DEF SentOnce
<1>5. OpenedTyped'
  BY <1>2, <1>3 DEF OpenedTyped
<1>6. \A p : Length(p)' = Length(p) /\ Request(p)' = Request(p)
             /\ (Finished(p)' <=> Finished(p))
  BY <1>2 DEF Length, Request, Finished
<1>7. \A p \in DOMAIN opened : \A k : Plus(opened'[p], 1 + k) = At(p, k)
  BY <1>2 DEF At
<1>8. RequestSegments'
  <2>1. SUFFICES ASSUME NEW seg \in toPeer PROVE RequestSegment(seg)'
    BY <1>2 DEF RequestSegments
  <2>2. seg.port \in DOMAIN opened
        /\ (Asks(seg) \/ Requests(seg) \/ Finishes(seg))
    BY DEF RequestSegments, RequestSegment
  <2> QED
    BY <1>2, <1>6, <1>7, <2>2
    DEF RequestSegment, Asks, Requests, Finishes, At
<1>9. ServersRead'
  BY <1>6 DEF ServersRead
<1>10. ServersAnswer'
  <2>1. SUFFICES ASSUME NEW seg \in toClient, "RST" \notin seg.flags
                 PROVE  (Welcomes(seg) \/ Answers(seg))'
    BY DEF ServersAnswer
  <2>2. seg.port \in DOMAIN opened
    BY DEF Handshake, Answered, ServersGenuine
  <2> QED
    BY <1>6, <1>7, <2>1, <2>2 DEF ServersAnswer, Welcomes, Answers, At
<1>11. ClientNumbers'
  <2>1. tcp_state' = "SYN_SENT" /\ sent[port] = <<>>
    BY <1>1 DEF Opens, SentOnce
  <2>2. ~ Finished(port)
    BY <1>1 DEF Finished, RequestSegments, RequestSegment
  <2> QED
    BY <1>2, <1>6, <2>1, <2>2 DEF ClientNumbers
<1> QED
  BY <1>4, <1>5, <1>8, <1>9, <1>10, <1>11

LEMMA SendingNumbered ==
  ASSUME OneRequest, SequenceInv, UNCHANGED <<peer, toClient>>,
         NEW n \in ChunkLen, NEW data, Sending(n, data)
  PROVE  Numbered'
<1> USE DEF SequenceInv, Numbered
<1>1. PICK port \in Port : port = tcp_local_port /\ port \in DOMAIN opened
  BY DEF Sending, Handshake, SessionOpened
<1> PICK m : m = SendTcp({"PSH", "ACK"}, tcp_seq, tcp_ack, data)
  OBVIOUS
<1>2. sent[port] = <<>> /\ Length(port) = 0 /\ Request(port) = <<>>
  <2>1. Len(sent[port]) < Sends /\ Sends \in Nat /\ Sends <= 1
    BY <1>1, SessionAssumption DEF Sending, OneRequest
  <2>2. \A s : Len(<<s>>) = 1
    OBVIOUS
  <2>3. sent[port] = <<>>
    BY <1>1, <2>1, <2>2 DEF SentOnce
  <2> QED
    BY <1>1, <2>3, RequestLength
<1>3. data = Stream(0, 0, n) /\ n \in Nat /\ Len(data) = n
  <2>1. BytesSent(port) = <<>>
    BY <1>2, FlattenNone DEF BytesSent
  <2>2. n \in Nat /\ 0 + n = n /\ Len(<<>>) = 0
    BY SessionAssumption
  <2>3. data = Stream(0, 0, n)
    BY <1>1, <2>1, <2>2 DEF Sending
  <2> QED
    BY <2>2, <2>3, FirstBytes
<1>4. sent' = [sent EXCEPT ![port] = <<data>>]
  BY <1>1, <1>2 DEF Sending
<1>5. /\ sent'[port] = <<data>>
      /\ \A p \in Port : p # port => sent'[p] = sent[p]
      /\ sent' = [p \in Port |-> sent'[p]]
  BY <1>1, <1>4 DEF SentOnce
<1>6. /\ sent'[port] # <<>>
      /\ Length(port)' = n /\ Request(port)' = data
  BY <1>3, <1>5 DEF Length, Request
<1>7. \A p \in Port : p # port =>
        Length(p)' = Length(p) /\ Request(p)' = Request(p)
  BY <1>5 DEF Length, Request
<1>8. /\ UNCHANGED <<tcp_local_port, tcp_state, opened>>
      /\ tcp_state = "ESTABLISHED"
      /\ toPeer' = toPeer \cup {m}
  BY DEF Sending
<1>9. /\ m.port = port /\ m.flags = {"PSH", "ACK"}
      /\ m.seq = tcp_seq /\ m.data = data
  BY <1>1 DEF SendTcp
<1>10. /\ tcp_seq = At(port, 0) /\ ~ Finished(port)
  BY <1>1, <1>2, <1>8 DEF ClientNumbers
<1>11. peer[port].read = <<>> /\ ~ peer[port].finRead
  BY <1>1, <1>2, <1>10 DEF ServersRead
<1>12. \A p \in Port : Finished(p)' <=> Finished(p)
  BY <1>8, <1>9 DEF Finished
<1>13. SentOnce'
  <2>1. \A p \in Port : sent'[p] # <<>> =>
          /\ p \in DOMAIN opened
          /\ \E k \in ChunkLen : sent'[p] = <<Stream(0, 0, k)>>
    BY <1>1, <1>3, <1>5 DEF SentOnce
  <2> QED
    BY <1>5, <1>8, <2>1 DEF SentOnce
<1>14. OpenedTyped'
  BY <1>8 DEF OpenedTyped
<1>15. RequestSegments'
  <2>1. RequestSegment(m)'
    BY <1>1, <1>6, <1>8, <1>9, <1>10 DEF RequestSegment, Requests, At
  <2>2. ASSUME NEW seg \in toPeer PROVE RequestSegment(seg)'
    <3>1. seg.port \in DOMAIN opened /\ seg.port \in Port
          /\ (Asks(seg) \/ Requests(seg) \/ Finishes(seg))
      BY DEF RequestSegments, RequestSegment, Handshake, SessionOpened
    <3>2. CASE Asks(seg)
      BY <1>8, <3>1, <3>2 DEF RequestSegment, Asks
    <3>3. CASE seg.port = port
      BY <1>2, <1>8, <1>10, <3>1, <3>2, <3>3 DEF Requests, Finishes, Finished
    <3>4. CASE seg.port # port
      BY <1>5, <1>7, <1>8, <3>1, <3>4
      DEF RequestSegment, Asks, Requests, Finishes, At
    <3> QED
      BY <3>3, <3>4
  <2> QED
    BY <1>8, <2>1, <2>2 DEF RequestSegments
<1>16. ServersRead'
  <2>1. ASSUME NEW p \in Port
        PROVE  /\ peer[p].read \in {<<>>, Request(p)'}
               /\ peer[p].finRead => peer[p].read = Request(p)' /\ Finished(p)'
    <3>1. CASE p = port
      BY <1>11, <3>1
    <3>2. CASE p # port
      BY <1>7, <1>12, <3>2 DEF ServersRead
    <3> QED
      BY <3>1, <3>2
  <2> QED
    BY <2>1 DEF ServersRead
<1>17. ServersAnswer'
  <2>1. SUFFICES ASSUME NEW seg \in toClient, "RST" \notin seg.flags
                 PROVE  (Welcomes(seg) \/ Answers(seg))'
    BY DEF ServersAnswer
  <2>2. seg.port \in Port /\ (Welcomes(seg) \/ Answers(seg))
    BY <2>1 DEF ServersAnswer, Handshake, Answered
  <2>3. CASE Welcomes(seg)
    BY <1>8, <2>3 DEF Welcomes, At
  <2>4. CASE Answers(seg)
    <3>1. seg.port # port
      BY <1>11, <2>4 DEF Answers
    <3> QED
      BY <1>7, <1>8, <2>2, <2>4, <3>1 DEF Answers, At
  <2> QED
    BY <2>2, <2>3, <2>4
<1>18. ClientNumbers'
  <2>1. tcp_seq' = Plus(At(port, 0), n)
    BY <1>3, <1>10 DEF Sending
  <2>2. opened[port] \in Int
    BY <1>1 DEF OpenedTyped
  <2>3. Plus(Plus(opened[port], 1 + 0), n) = Plus(opened[port], (1 + 0) + n)
    <3>1. 1 + 0 \in Int /\ n \in Int
      BY <1>3
    <3> QED
      BY <2>2, <3>1, PlusPlus, Zenon
  <2>4. (1 + 0) + n = 1 + n
    BY <1>3
  <2>5. tcp_seq' = At(port, n)
    BY <2>1, <2>3, <2>4 DEF At
  <2> QED
    BY <1>1, <1>6, <1>8, <1>10, <1>12, <2>5 DEF ClientNumbers, At
<1> QED
  BY <1>13, <1>14, <1>15, <1>16, <1>17, <1>18

LEMMA PollsNumbered ==
  ASSUME OneRequest, SequenceInv, Polls,
         UNCHANGED <<peer, toClient, opened, sent>>
  PROVE  Numbered'
<1> USE DEF SequenceInv, Numbered
<1>1. tcp_state # "CLOSED" =>
        tcp_local_port \in Port /\ tcp_local_port \in DOMAIN opened
  BY DEF Handshake, SessionOpened
<1>2. CASE Quiet
  <2>1. (SentOnce /\ OpenedTyped /\ ServersRead /\ ServersAnswer)'
        /\ RequestSegments'
    BY <1>2, HistoryKept, SegmentsKept DEF Quiet
  <2>2. ClientNumbers'
    BY <1>2 DEF Quiet, session, ClientNumbers, Finished, At, Length
  <2> QED
    BY <2>1, <2>2
<1>3. ASSUME NEW seg \in toClient, Synchronises(seg)
      PROVE  Numbered'
  <2>1. PICK m : m = SendTcp({"ACK"}, tcp_seq', tcp_ack', <<>>)
    OBVIOUS
  <2>2. PICK port \in Port : port = tcp_local_port /\ port \in DOMAIN opened
    BY <1>1, <1>3 DEF Synchronises
  <2>3. /\ m.port = port /\ m.flags = {"ACK"} /\ m.data = <<>>
        /\ m.seq = tcp_seq'
    BY <2>1, <2>2 DEF SendTcp
  <2>4. /\ toPeer' = toPeer \cup {m}
        /\ tcp_local_port' = port /\ tcp_state' = "ESTABLISHED"
        /\ tcp_state = "SYN_SENT" /\ seg.port = port
        /\ tcp_seq' = seg.ack
        /\ "RST" \notin seg.flags /\ "SYN" \in seg.flags
    BY <1>3, <2>1, <2>2 DEF Synchronises, Takes
  <2>5. RequestSegment(m)
    BY <2>2, <2>3, <2>4, AnswerType DEF RequestSegment, Asks
  <2>6. (SentOnce /\ OpenedTyped /\ ServersRead /\ ServersAnswer)'
        /\ RequestSegments'
    BY <2>4, <2>5, HistoryKept, SegmentsKept
  <2>7. tcp_seq' = At(port, Length(port))
    <3>1. Length(port) = 0
      BY <2>2, <2>4 DEF ClientNumbers, Length
    <3> QED
      BY <2>4, <3>1 DEF ServersAnswer, Welcomes, Answers
  <2>8. ~ Finished(port)'
    BY <2>2, <2>3, <2>4 DEF ClientNumbers, Finished
  <2>9. ClientNumbers'
    BY <2>4, <2>7, <2>8 DEF ClientNumbers, At, Length
  <2> QED
    BY <2>6, <2>9
<1>4. ASSUME NEW seg \in toClient, Reads(seg)
      PROVE  Numbered'
  <2>1. PICK m : m = SendTcp({"ACK"}, tcp_seq', tcp_ack', <<>>)
    OBVIOUS
  <2>2. PICK port \in Port : port = tcp_local_port /\ port \in DOMAIN opened
    BY <1>1, <1>4 DEF Reads, Open
  <2>3. /\ m.port = port /\ m.flags = {"ACK"} /\ m.data = <<>>
        /\ m.seq = tcp_seq'
    BY <2>1, <2>2 DEF SendTcp
  <2>4. /\ toPeer' = toPeer \cup {m}
        /\ tcp_local_port' = port /\ UNCHANGED tcp_state /\ Open
        /\ seg.port = port /\ tcp_seq' = seg.ack
        /\ "RST" \notin seg.flags /\ seg.data # <<>>
    BY <1>4, <2>1, <2>2 DEF Reads, Takes
  <2>5. RequestSegment(m)
    BY <2>2, <2>3, <2>4, AnswerType DEF RequestSegment, Asks
  <2>6. (SentOnce /\ OpenedTyped /\ ServersRead /\ ServersAnswer)'
        /\ RequestSegments'
    BY <2>4, <2>5, HistoryKept, SegmentsKept
  <2>7. tcp_state = "ESTABLISHED" =>
          ~ Finished(port) /\ tcp_seq' = At(port, Length(port))
    <3>1. SUFFICES ASSUME tcp_state = "ESTABLISHED"
                   PROVE  ~ Finished(port)
                          /\ tcp_seq' = At(port, Length(port))
      OBVIOUS
    <3>2. ~ Finished(port)
      BY <2>2, <3>1 DEF ClientNumbers
    <3>3. ~ peer[port].finRead
      BY <3>2 DEF ServersRead
    <3> QED
      BY <2>4, <3>2, <3>3 DEF ServersAnswer, Welcomes, Answers
  <2>8. Finished(port)' <=> Finished(port)
    BY <2>3, <2>4 DEF Finished
  <2>9. ClientNumbers'
    BY <2>4, <2>7, <2>8 DEF ClientNumbers, Open, At, Length
  <2> QED
    BY <2>6, <2>9
<1>5. ASSUME NEW seg \in toClient, Ends(seg)
      PROVE  Numbered'
  <2>1. PICK a, f :
          /\ a = SendTcp({"ACK"}, seg.ack, Plus(seg.seq, Len(seg.data)), <<>>)
          /\ f = SendTcp({"FIN", "ACK"}, tcp_seq', tcp_ack', <<>>)
    OBVIOUS
  <2>2. PICK port \in Port : port = tcp_local_port /\ port \in DOMAIN opened
    BY <1>1, <1>5 DEF Ends, Open
  <2>3. /\ a.port = port /\ a.flags = {"ACK"} /\ a.data = <<>>
        /\ a.seq = seg.ack
        /\ f.port = port /\ f.flags = {"FIN", "ACK"} /\ f.data = <<>>
        /\ f.seq = tcp_seq'
    BY <2>1, <2>2 DEF SendTcp
  <2>4. /\ toPeer' \subseteq toPeer \cup {a, f}
        /\ tcp_state' = "CLOSED_DONE"
        /\ seg.port = port /\ tcp_seq' = seg.ack
        /\ "RST" \notin seg.flags /\ "FIN" \in seg.flags
    BY <1>5, <2>1, <2>2 DEF Ends, Takes
  <2>5. RequestSegment(a)
    BY <2>2, <2>3, <2>4, AnswerType DEF RequestSegment, Asks
  <2>6. f.seq \in {At(port, Length(port)), At(port, Length(port) + 1)}
    BY <2>3, <2>4 DEF ServersAnswer, Welcomes, Answers
  <2>7. RequestSegment(f)
    BY <2>2, <2>3, <2>6 DEF RequestSegment, Finishes
  <2>8. toPeer \subseteq toPeer'
    BY <1>5 DEF Ends
  <2>9. (SentOnce /\ OpenedTyped /\ ServersRead /\ ServersAnswer)'
        /\ RequestSegments'
    BY <2>4, <2>5, <2>7, <2>8, HistoryKept, SegmentsKept
  <2>10. ClientNumbers'
    BY <2>4 DEF ClientNumbers
  <2> QED
    BY <2>9, <2>10
<1> QED
  BY <1>2, <1>3, <1>4, <1>5 DEF Polls

LEMMA ClientNumbered ==
  ASSUME OneRequest, SequenceInv, ClientMove, Transmit,
         UNCHANGED <<peer, toClient>>
  PROVE  Numbered'
<1>1. CASE Opens
  BY <1>1, OpensNumbered
<1>2. ASSUME NEW n \in ChunkLen, NEW data, Sending(n, data)
      PROVE  Numbered'
  BY <1>2, SendingNumbered
<1>3. CASE Polls /\ UNCHANGED history
  BY <1>3, PollsNumbered DEF history
<1>4. CASE AsksAgain
  <2>1. PICK m : m = SendTcp({"SYN"}, tcp_seq, tcp_ack, <<>>)
    OBVIOUS
  <2>2. m.flags = {"SYN"} /\ m.data = <<>> /\ m.port = tcp_local_port
    BY <2>1 DEF SendTcp
  <2>3. m.port \in DOMAIN opened
    BY <1>4, <2>2 DEF AsksAgain, SequenceInv, Handshake, SessionOpened
  <2>4. toPeer' = toPeer \cup {m} /\ UNCHANGED <<session, opened, sent>>
    BY <1>4, <2>1 DEF AsksAgain, history
  <2>5. (SentOnce /\ OpenedTyped /\ ServersRead /\ ServersAnswer)'
        /\ RequestSegments'
    BY <2>2, <2>3, <2>4, HistoryKept, SegmentsKept
    DEF SequenceInv, RequestSegment, Asks
  <2>6. ClientNumbers'
    BY <2>2, <2>4
    DEF SequenceInv, Numbered, session, ClientNumbers, Finished, At, Length
  <2> QED
    BY <2>5, <2>6 DEF Numbered
<1>5. CASE Closes
  <2>1. PICK m : m = SendTcp({"FIN", "ACK"}, tcp_seq, tcp_ack, <<>>)
    OBVIOUS
  <2>2. /\ m.flags = {"FIN", "ACK"} /\ m.data = <<>>
        /\ m.port = tcp_local_port /\ m.seq = tcp_seq
    BY <2>1 DEF SendTcp
  <2>3. /\ toPeer' = toPeer \cup {m} /\ UNCHANGED <<opened, sent>>
        /\ tcp_state = "ESTABLISHED" /\ tcp_state' = "FIN_WAIT"
    BY <1>5, <2>1 DEF Closes, history
  <2>4. RequestSegment(m)
    BY <2>2, <2>3
    DEF SequenceInv, Numbered, Handshake, SessionOpened, ClientNumbers,
        RequestSegment, Finishes
  <2>5. (SentOnce /\ OpenedTyped /\ ServersRead /\ ServersAnswer)'
        /\ RequestSegments'
    BY <2>3, <2>4, HistoryKept, SegmentsKept DEF SequenceInv
  <2>6. ClientNumbers'
    BY <2>3 DEF ClientNumbers
  <2> QED
    BY <2>5, <2>6 DEF Numbered
<1> QED
  <2>1. Polls => UNCHANGED history
    BY DEF Polls, Quiet, Synchronises, Reads, Ends, Takes
  <2> QED
    BY <1>1, <1>2, <1>3, <1>4, <1>5, <2>1, ClientMoves

(* Steps of the servers.  How far a server is in the client's stream:      *)
LEMMA ReadSoFar ==
  ASSUME OneRequest, SequenceInv, NEW port \in Port,
         peer[port].state # "LISTEN", NEW k \in {0, 1},
         k = 1 <=> peer[port].finRead
  PROVE  /\ port \in DOMAIN opened /\ opened[port] \in Int
         /\ Len(peer[port].read) \in {0, Length(port)}
         /\ RcvNxt(peer[port])
              = Plus(opened[port], 1 + (Len(peer[port].read) + k))
<1> USE DEF SequenceInv, Numbered
<1>1. port \in DOMAIN opened /\ peer[port].irs = opened[port]
  BY DEF Handshake, ServersGenuine
<1>2. opened[port] \in Int
  BY <1>1 DEF OpenedTyped
<1>3. Length(port) \in Nat /\ Len(Request(port)) = Length(port)
  BY RequestLength
<1>4. Len(<<>>) = 0
  OBVIOUS
<1>5. Len(peer[port].read) \in {0, Length(port)}
  BY <1>3, <1>4 DEF ServersRead
<1>6. (IF peer[port].finRead THEN 1 ELSE 0) = k
  OBVIOUS
<1>7. RcvNxt(peer[port]) = Plus(opened[port], 1 + Len(peer[port].read) + k)
  BY <1>1, <1>6 DEF RcvNxt
<1>8. 1 + Len(peer[port].read) + k = 1 + (Len(peer[port].read) + k)
  BY <1>3, <1>5
<1> QED
  BY <1>1, <1>2, <1>5, <1>7, <1>8

(* A distance of less than a turn backwards is not 0.                      *)
LEMMA NotAhead ==
  ASSUME NEW w \in Nat \ {0}, NEW d \in Int, d < 0, 0 < d + w
  PROVE  d % w # 0
<1>1. d + w \in 0 .. w - 1 /\ w * 1 = w
  OBVIOUS
<1>2. (d + w) % w = d + w
  BY <1>1, Small
<1>3. (d + w * 1) % w = d % w
  <2>1. 1 \in Int
    OBVIOUS
  <2> QED
    BY <2>1, Multiples, Zenon
<1> QED
  BY <1>1, <1>2, <1>3

(* What a server does with a segment of the client.                        *)
LEMMA ReadsRequest ==
  ASSUME OneRequest, SequenceInv, NEW port \in Port, NEW seg \in toPeer,
         PeerReads(port, seg)
  PROVE  /\ peer'[port].read \in {peer[port].read, Request(port)}
         /\ peer'[port].finRead =>
              peer'[port].read = Request(port) /\ Finished(port)
<1> DEFINE p == peer[port]
           read == peer[port].read
           off == Ahead(RcvNxt(peer[port]), seg.seq)
           next == read \o SubSeq(seg.data, off + 1, Len(seg.data))
<1> USE DEF SequenceInv, Numbered
<1>1. /\ seg.port = port /\ "ACK" \in seg.flags /\ p.state # "LISTEN"
      /\ peer'[port].read = IF InSequence(p, seg) THEN next ELSE read
      /\ peer'[port].finRead = (p.finRead \/ (InSequence(p, seg)
                                                /\ "FIN" \in seg.flags))
  BY DEF PeerReads, SameConnection
<1>2. /\ read \in {<<>>, Request(port)}
      /\ p.finRead => read = Request(port) /\ Finished(port)
  BY DEF ServersRead
<1>3. CASE ~ InSequence(p, seg)
  BY <1>1, <1>2, <1>3
<1>4. CASE InSequence(p, seg)
  <2>1. ~ p.finRead /\ off <= Len(seg.data)
    BY <1>4 DEF InSequence
  <2>2. /\ Length(port) \in Nat /\ Length(port) + 1 < Word
        /\ Request(port) \in Seq(Symbol(0))
        /\ Len(Request(port)) = Length(port)
        /\ Word \in Nat \ {0}
    BY RequestLength, TcpAssumption
  <2>3. /\ opened[port] \in Int
        /\ Len(read) \in {0, Length(port)}
        /\ RcvNxt(p) = Plus(opened[port], 1 + Len(read))
    <3>1. /\ opened[port] \in Int
          /\ Len(read) \in {0, Length(port)}
          /\ RcvNxt(p) = Plus(opened[port], 1 + (Len(read) + 0))
      BY <1>1, <2>1, ReadSoFar
    <3>2. Len(read) + 0 = Len(read)
      BY <2>2, <3>1
    <3> QED
      BY <3>1, <3>2
  <2>4. read \in Seq(Symbol(0))
    <3>1. <<>> \in Seq(Symbol(0))
      OBVIOUS
    <3> QED
      BY <1>2, <2>2, <3>1, Zenon
  <2>5. ASSUME seg.data = <<>>
        PROVE  next = read
    <3>1. seg.seq \in Int
      <4>1. /\ SentOnce /\ OpenedTyped /\ DOMAIN opened \subseteq Port
            /\ port \in DOMAIN opened
        BY <1>1 DEF Handshake, SessionOpened, RequestSegments, RequestSegment
      <4>2. \A k \in {0, Length(port), Length(port) + 1} : At(port, k) \in Int
        BY <2>2, <4>1, AtType
      <4>3. Asks(seg) \/ Requests(seg) \/ Finishes(seg)
        BY DEF RequestSegments, RequestSegment
      <4>4. CASE Asks(seg)
        BY <1>1, <2>2, <4>4 DEF Asks
      <4> QED
        BY <1>1, <4>2, <4>3, <4>4 DEF Requests, Finishes
    <3>2. Plus(opened[port], 1 + Len(read)) \in Int
      BY <2>2, <2>3 DEF Plus
    <3>3. off \in Nat
      BY <2>2, <2>3, <3>1, <3>2 DEF Ahead
    <3>4. Len(seg.data) = 0
      BY <2>5
    <3>5. SubSeq(seg.data, off + 1, Len(seg.data)) = <<>>
      <4> HIDE DEF off
      <4> QED
        BY <3>3, <3>4
    <3>6. next = read \o <<>>
      BY <3>5
    <3> HIDE DEF next, read
    <3> QED
      BY <2>4, <3>6
  <2>6. CASE Asks(seg)
    BY <1>1, <1>2, <2>1, <2>5, <2>6 DEF Asks
  <2>7. CASE Requests(seg)
    <3>1. seg.seq = Plus(opened[port], 1 + 0) /\ seg.data = Request(port)
          /\ "FIN" \notin seg.flags
      BY <1>1, <2>7 DEF Requests, At
    <3>2. off = Len(read)
      <4>1. 1 + Len(read) \in Int /\ 1 + 0 \in Int
            /\ (1 + Len(read)) - (1 + 0) = Len(read)
            /\ 0 <= Len(read) /\ Len(read) < Word
        BY <2>2, <2>3
      <4>2. Ahead(Plus(opened[port], 1 + Len(read)), Plus(opened[port], 1 + 0))
              = (1 + Len(read)) - (1 + 0)
        BY <2>3, <4>1, AheadIs
      <4> QED
        BY <2>3, <3>1, <4>1, <4>2
    <3>3. next = Request(port)
      <4> HIDE DEF off, read
      <4> DEFINE request == Request(port)
                 n == Length(port)
      <4>1. /\ request \in Seq(Symbol(0)) /\ Len(request) = n /\ n \in Nat
            /\ next = read \o SubSeq(request, off + 1, n)
            /\ read \in {<<>>, request} /\ off = Len(read)
        BY <1>2, <2>2, <3>1, <3>2 DEF read
      <4> SUFFICES next = request
        OBVIOUS
      <4> HIDE DEF request, n, next
      <4>2. CASE read = <<>>
        <5>1. off = 0 /\ off + 1 = 1
          BY <4>1, <4>2
        <5>2. SubSeq(request, 1, n) = request
          BY <4>1
        <5>3. <<>> \o request = request
          BY <4>1
        <5> QED
          BY <4>1, <4>2, <5>1, <5>2, <5>3
      <4>3. CASE read = request
        <5>1. SubSeq(request, n + 1, n) = <<>>
          BY <4>1
        <5>2. request \o <<>> = request
          BY <4>1
        <5> QED
          BY <4>1, <4>3, <5>1, <5>2
      <4> QED
        BY <4>1, <4>2, <4>3
    <3> QED
      BY <1>1, <1>4, <2>1, <3>1, <3>3
  <2>8. CASE Finishes(seg)
    <3>1. seg.data = <<>> /\ Len(seg.data) = 0 /\ "FIN" \in seg.flags
      BY <2>8 DEF Finishes
    <3>2. next = read /\ Finished(port)
      BY <1>1, <2>5, <3>1 DEF Finished
    <3>3. PICK k \in {0, 1} : seg.seq = Plus(opened[port],
                                             1 + (Length(port) + k))
      <4>1. Length(port) + 0 = Length(port)
        BY <2>2
      <4> QED
        BY <1>1, <2>8, <4>1 DEF Finishes, At
    <3>4. off = ((1 + Len(read)) - (1 + (Length(port) + k))) % Word
      <4>1. 1 + Len(read) \in Int /\ 1 + (Length(port) + k) \in Int
        BY <2>2, <2>3
      <4> QED
        BY <2>3, <3>3, <4>1, AheadPlus
    <3>5. Len(read) = Length(port)
      <4> DEFINE d == (1 + Len(read)) - (1 + (Length(port) + k))
      <4>1. d \in Int /\ d = Len(read) - (Length(port) + k)
        BY <2>2, <2>3
      <4>2. d % Word = 0
        BY <2>1, <2>2, <3>1, <3>4, <4>1
      <4>3. ~ (d < 0 /\ 0 < d + Word)
        BY <2>2, <4>1, <4>2, NotAhead
      <4> HIDE DEF d
      <4> QED
        BY <2>2, <2>3, <4>1, <4>3
    <3>6. read = Request(port)
      BY <1>2, <2>2, <3>5
    <3> QED
      BY <1>1, <1>4, <3>2, <3>6
  <2>9. Asks(seg) \/ Requests(seg) \/ Finishes(seg)
    BY DEF RequestSegments, RequestSegment
  <2> QED
    BY <2>6, <2>7, <2>8, <2>9
<1> QED
  BY <1>3, <1>4

LEMMA ServersNumbered ==
  ASSUME OneRequest, SequenceInv, PeerStep
  PROVE  Numbered'
<1> USE DEF SequenceInv, Numbered
<1>1. PICK port \in Port : PeerMove(port)
  BY PeerMoves
<1>2. /\ \A other \in Port : other # port => peer'[other] = peer[other]
      /\ UNCHANGED <<session, toPeer, history>>
  BY <1>1 DEF PeerMove
<1>3. (SentOnce /\ OpenedTyped /\ RequestSegments /\ ClientNumbers)'
  BY <1>2
  DEF session, history, SentOnce, OpenedTyped, RequestSegments,
      RequestSegment, Asks, Requests, Finishes, ClientNumbers, At, Length,
      Request, Finished
<1>4. \A p \in Port : /\ Length(p)' = Length(p) /\ Request(p)' = Request(p)
                      /\ Finished(p)' <=> Finished(p)
  BY <1>2 DEF history, Length, Request, Finished
<1>5. \A p, k : At(p, k)' = At(p, k)
  BY <1>2 DEF history, At
<1>6. /\ peer'[port].read \in {<<>>, Request(port)}
      /\ peer'[port].finRead =>
           peer'[port].read = Request(port) /\ Finished(port)
      /\ peer[port].state # "LISTEN" =>
           /\ peer[port].read # <<>> => peer'[port].read # <<>>
           /\ peer[port].finRead => peer'[port].finRead
  <2>1. /\ peer[port].read \in {<<>>, Request(port)}
        /\ peer[port].finRead =>
             peer[port].read = Request(port) /\ Finished(port)
    BY DEF ServersRead
  <2>2. CASE Accepts(port)
    BY <2>2 DEF Accepts
  <2>3. CASE \E seg \in toPeer : PeerReads(port, seg)
    <3>1. /\ peer'[port].read \in {peer[port].read, Request(port)}
          /\ peer'[port].finRead =>
               peer'[port].read = Request(port) /\ Finished(port)
      BY <2>3, ReadsRequest
    <3>2. peer[port].finRead => peer'[port].finRead
      BY <2>3 DEF PeerReads
    <3> QED
      BY <2>1, <3>1, <3>2
  <2>4. CASE \E first, last \in 0 .. StreamLen, fin \in BOOLEAN :
               PeerSends(port, first, last, fin)
    BY <2>1, <2>4 DEF PeerSends
  <2>5. CASE Resets(port)
    BY <2>1, <2>5 DEF Resets, SameStreams
  <2> QED
    BY <1>1, <2>2, <2>3, <2>4, <2>5 DEF PeerMove
<1>7. ServersRead'
  BY <1>2, <1>4, <1>6 DEF ServersRead
<1>8. ASSUME NEW seg \in toClient', "RST" \notin seg.flags
      PROVE  (Welcomes(seg) \/ Answers(seg))'
  <2>1. CASE seg \in toClient
    <3>1. /\ seg.port \in Port /\ peer[seg.port].state # "LISTEN"
          /\ Welcomes(seg) \/ Answers(seg)
      BY <1>8, <2>1 DEF Handshake, Answered, ServersAnswer
    <3>2. /\ peer[seg.port].read # <<>> => peer'[seg.port].read # <<>>
          /\ peer[seg.port].finRead => peer'[seg.port].finRead
      BY <1>2, <1>6, <3>1
    <3> QED
      BY <1>4, <1>5, <3>1, <3>2 DEF Welcomes, Answers
  <2>2. CASE seg \notin toClient
    <3>1. CASE Accepts(port)
      <4>1. seg = FromPeer(port, {"SYN", "ACK"}, peer'[port].iss,
                           Plus(opened[port], 1), <<>>)
        BY <2>2, <3>1 DEF Accepts
      <4>2. 1 + 0 = 1
        OBVIOUS
      <4> QED
        BY <1>5, <4>1, <4>2 DEF FromPeer, Welcomes, At
    <3>2. ASSUME NEW first \in 0 .. StreamLen, NEW last \in 0 .. StreamLen,
                 NEW fin \in BOOLEAN, PeerSends(port, first, last, fin)
          PROVE  Answers(seg)'
      <4>1. /\ seg.port = port /\ "SYN" \notin seg.flags
            /\ seg.ack = RcvNxt(peer[port])
        BY <2>2, <3>2 DEF PeerSends, FromPeer
      <4>2. /\ peer[port].state # "LISTEN"
            /\ peer'[port].read = peer[port].read
            /\ peer'[port].finRead = peer[port].finRead
            /\ peer[port].read # <<>> \/ peer[port].finRead
        BY <3>2 DEF PeerSends, SameConnection, OneRequest
      <4>3. peer[port].read = Request(port) /\ Length(port) \in Nat
            /\ Len(peer[port].read) = Length(port)
        BY <4>2, RequestLength DEF ServersRead
      <4>4. CASE peer[port].finRead
        <5>1. seg.ack = Plus(opened[port], 1 + (Len(peer[port].read) + 1))
          BY <4>1, <4>2, <4>4, ReadSoFar
        <5> QED
          BY <1>4, <1>5, <4>1, <4>2, <4>3, <4>4, <5>1 DEF Answers, At
      <4>5. CASE ~ peer[port].finRead
        <5>1. seg.ack = Plus(opened[port], 1 + (Len(peer[port].read) + 0))
          BY <4>1, <4>2, <4>5, ReadSoFar
        <5>2. Length(port) + 0 = Length(port)
          BY <4>3
        <5> QED
          BY <1>4, <1>5, <4>1, <4>2, <4>3, <5>1, <5>2 DEF Answers, At
      <4> QED
        BY <4>4, <4>5
    <3>3. CASE (\E m \in toPeer : PeerReads(port, m)) \/ Resets(port)
      BY <1>8, <2>2, <3>3 DEF PeerReads, Resets
    <3> QED
      BY <1>1, <3>1, <3>2, <3>3 DEF PeerMove
  <2> QED
    BY <2>1, <2>2
<1>9. ServersAnswer'
  BY <1>8 DEF ServersAnswer
<1> QED
  BY <1>3, <1>7, <1>9

LEMMA NextSequence ==
  ASSUME OneRequest, SequenceInv, SessionStep
  PROVE  SequenceInv'
<1>1. Handshake'
  BY NextHandshake DEF SequenceInv
<1>2. CASE ClientMove /\ Transmit /\ UNCHANGED <<peer, toClient>>
  BY <1>1, <1>2, ClientNumbered DEF SequenceInv
<1>3. CASE PeerStep
  BY <1>1, <1>3, ServersNumbered DEF SequenceInv
<1>4. CASE UNCHANGED vars
  <2>1. UNCHANGED <<peer, toClient, opened, sent, toPeer>>
    BY <1>4 DEF vars, network, history
  <2>2. (SentOnce /\ OpenedTyped /\ ServersRead /\ ServersAnswer)'
        /\ RequestSegments'
    BY <2>1, HistoryKept, SegmentsKept DEF SequenceInv
  <2>3. ClientNumbers'
    BY <1>4, <2>1
    DEF vars, clientVars, session, SequenceInv, Numbered, ClientNumbers,
        Finished, At, Length
  <2> QED
    BY <1>1, <2>2, <2>3 DEF SequenceInv, Numbered
<1> QED
  BY <1>2, <1>3, <1>4 DEF SessionStep

(* What the invariant says of the bytes on the wire.                       *)
LEMMA ReadsInOrder == OneRequest /\ SequenceInv => PeerReadsInOrder
<1> SUFFICES ASSUME OneRequest, SequenceInv, NEW port \in Port
             PROVE  /\ IsPrefix(peer[port].read, BytesSent(port))
                    /\ peer[port].finRead =>
                         peer[port].read = BytesSent(port)
  BY DEF PeerReadsInOrder
<1> DEFINE request == Request(port)
<1>1. /\ request \in Seq(Symbol(0))
      /\ sent[port] = <<>> => request = <<>>
  BY RequestLength DEF SequenceInv, Numbered
<1>2. BytesSent(port) = request
  <2>1. CASE sent[port] = <<>>
    BY <1>1, <2>1, FlattenNone DEF BytesSent
  <2>2. ASSUME NEW n \in ChunkLen, sent[port] = <<Stream(0, 0, n)>>
        PROVE  BytesSent(port) = request
    <3>1. BytesSent(port) = Stream(0, 0, n)
      BY <2>2, FlattenOne DEF BytesSent
    <3>2. sent[port] # <<>> /\ sent[port][1] = Stream(0, 0, n)
      BY <2>2
    <3>3. n \in Nat
      BY SessionAssumption
    <3>4. Length(port) = n
      BY <3>2, <3>3, FirstBytes DEF Length
    <3> QED
      BY <3>1, <3>4 DEF Request
  <2> QED
    BY <2>1, <2>2 DEF SequenceInv, Numbered, SentOnce
<1>3. /\ peer[port].read \in {<<>>, request}
      /\ peer[port].finRead => peer[port].read = request
  BY DEF SequenceInv, Numbered, ServersRead
<1> HIDE DEF request
<1>4. IsPrefix(<<>>, request)
  <2>1. Len(<<>>) = 0 /\ 0 <= Len(request)
        /\ SubSeq(<<>>, 1, 0) = <<>> /\ SubSeq(request, 1, 0) = <<>>
    BY <1>1
  <2> QED
    BY <2>1 DEF IsPrefix
<1>5. IsPrefix(request, request)
  BY <1>1 DEF IsPrefix
<1> QED
  BY <1>2, <1>3, <1>4, <1>5

LEMMA SegmentNumber ==
  ASSUME OneRequest, SequenceInv, NEW seg \in toPeer
  PROVE  seg.seq \in 0 .. Word - 1
<1>1. /\ RequestSegment(seg) /\ DOMAIN opened \subseteq Port
      /\ SentOnce /\ OpenedTyped
      /\ seg.flags = {"SYN"} => seg.seq = opened[seg.port]
  BY DEF SequenceInv, Numbered, RequestSegments, Handshake, SessionOpened,
         SynsGenuine
<1>2. CASE Asks(seg)
  BY <1>1, <1>2 DEF RequestSegment, OpenedTyped, Asks
<1>3. CASE Requests(seg) \/ Finishes(seg)
  BY <1>1, <1>3, AtType DEF RequestSegment, Requests, Finishes
<1> QED
  BY <1>1, <1>2, <1>3 DEF RequestSegment

LEMMA NumbersUnique == OneRequest /\ SequenceInv => SequenceNumbersUnique
<1> SUFFICES ASSUME OneRequest, SequenceInv,
                    NEW s \in toPeer, NEW t \in toPeer, s.port = t.port
             PROVE  /\ \A n \in 0 .. Word - 1 :
                         ByteAt(s, n) # <<>> /\ ByteAt(t, n) # <<>> =>
                           ByteAt(s, n) = ByteAt(t, n)
                    /\ "FIN" \in s.flags =>
                         ByteAt(t, Plus(s.seq, Len(s.data))) = <<>>
  BY DEF SequenceNumbersUnique
<1>1. Word \in Nat \ {0}
  BY TcpAssumption
<1>2. RequestSegment(s) /\ RequestSegment(t)
      /\ s.port \in DOMAIN opened /\ s.port \in Port
  BY DEF SequenceInv, Numbered, RequestSegments, RequestSegment, Handshake,
         SessionOpened
<1>3. s.seq \in 0 .. Word - 1 /\ t.seq \in 0 .. Word - 1
  BY SegmentNumber
<1>4. ASSUME NEW m \in {s, t}, m.data = <<>>, NEW n \in 0 .. Word - 1
      PROVE  ByteAt(m, n) = <<>>
  <2>1. m.seq \in Int /\ n \in Int /\ Len(m.data) = 0
    BY <1>1, <1>3, <1>4
  <2>2. Ahead(n, m.seq) >= 0
    BY <1>1, <2>1 DEF Ahead
  <2>3. ~ (Ahead(n, m.seq) < Len(m.data))
    <3> DEFINE x == Ahead(n, m.seq)
    <3>1. x \in Int
      BY <1>1, <2>1 DEF Ahead
    <3> HIDE DEF x
    <3>2. x >= 0 => ~ (x < 0)
      BY <3>1
    <3> QED
      BY <2>1, <2>2, <3>2 DEF x
  <2> QED
    BY <2>3 DEF ByteAt
<1>5. ASSUME NEW n \in 0 .. Word - 1, ByteAt(s, n) # <<>>, ByteAt(t, n) # <<>>
      PROVE  ByteAt(s, n) = ByteAt(t, n)
  <2>1. Requests(s) /\ Requests(t)
    BY <1>2, <1>4, <1>5 DEF RequestSegment, Asks, Finishes
  <2> QED
    BY <2>1 DEF Requests, ByteAt
<1>6. ASSUME "FIN" \in s.flags
      PROVE  ByteAt(t, Plus(s.seq, Len(s.data))) = <<>>
  <2>1. Finishes(s)
    BY <1>2, <1>6 DEF RequestSegment, Asks, Requests
  <2>2. Plus(s.seq, Len(s.data)) = s.seq
    BY <1>3, <2>1, PlusZero DEF Finishes
  <2>3. CASE t.data = <<>>
    BY <1>3, <1>4, <2>2, <2>3
  <2>4. CASE Requests(t)
    <3> DEFINE T == Length(t.port)
    <3>1. T \in Nat /\ T + 1 < Word /\ Len(t.data) = T
          /\ opened[t.port] \in Int
      BY <1>2, <2>4, RequestLength
      DEF Requests, SequenceInv, Numbered, OpenedTyped
    <3>2. PICK k \in {T, T + 1} : s.seq = Plus(opened[t.port], 1 + k)
      BY <2>1 DEF Finishes, At
    <3>3. t.seq = Plus(opened[t.port], 1 + 0)
      BY <2>4 DEF Requests, At
    <3> HIDE DEF T
    <3>4. 1 + k \in Int /\ 1 + 0 \in Int /\ (1 + k) - (1 + 0) = k
          /\ 0 <= k /\ k < Word /\ ~ (k < T)
      BY <1>1, <3>1, <3>2
    <3>5. Ahead(Plus(opened[t.port], 1 + k), Plus(opened[t.port], 1 + 0))
            = (1 + k) - (1 + 0)
      BY <3>1, <3>4, AheadIs
    <3>6. Ahead(s.seq, t.seq) = k
      BY <3>2, <3>3, <3>4, <3>5
    <3> QED
      BY <2>2, <3>1, <3>4, <3>6 DEF ByteAt
  <2> QED
    BY <1>2, <2>3, <2>4 DEF RequestSegment, Asks, Finishes
<1> QED
  BY <1>5, <1>6

(* Whatever the network loses, repeats and reorders, a server reads the    *)
(* request of its connection whole or not at all, and its end only after   *)
(* it: tcp_seq as tcp_send and handle_tcp advance it (api.hpp, core.hpp)   *)
(* fits, for a connection that carries one request to a server that        *)
(* answers, across the wrap too.                                           *)
THEOREM RequestsAreRead ==
  ASSUME OneRequest
  PROVE  SessionSpec => []PeerReadsInOrder
<1>1. SequenceInv /\ [SessionNext]_vars => SequenceInv'
  BY NextSequence, SessionSteps
<1>2. SequenceInv => PeerReadsInOrder
  BY ReadsInOrder
<1> QED
  BY InitSequence, <1>1, <1>2, PTL DEF SessionSpec

(* On such a connection no sequence number is used for two bytes, nor for  *)
(* a byte and the FIN, whichever of the client's two FINs it is: the one   *)
(* of tcp_close or the one handle_tcp answers with.                        *)
THEOREM NumbersAreUnique ==
  ASSUME OneRequest
  PROVE  SessionSpec => []SequenceNumbersUnique
<1>1. SequenceInv /\ [SessionNext]_vars => SequenceInv'
  BY NextSequence, SessionSteps
<1>2. SequenceInv => SequenceNumbersUnique
  BY NumbersUnique
<1> QED
  BY InitSequence, <1>1, <1>2, PTL DEF SessionSpec

(* Both hold of the connections http_get opens and closes.                 *)
THEOREM HttpRequestsAreRead ==
  ASSUME OneRequest
  PROVE  HttpSpec => [](PeerReadsInOrder /\ SequenceNumbersUnique)
<1>1. HttpInit => SequenceInv
  BY InitSequence DEF HttpInit
<1>2. SequenceInv /\ [HttpNext]_allVars => SequenceInv'
  BY NextSequence, HttpSteps
<1>3. SequenceInv => PeerReadsInOrder /\ SequenceNumbersUnique
  BY ReadsInOrder, NumbersUnique
<1> QED
  BY <1>1, <1>2, <1>3, PTL DEF HttpSpec

=============================================================================
