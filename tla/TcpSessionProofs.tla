--------------------------- MODULE TcpSessionProofs ---------------------------
(***************************************************************************)
(* Theorems about TcpSession and HttpGet, for any number of connections,   *)
(* any network delays and any servers that follow RFC 793.                 *)
(***************************************************************************)
EXTENDS HttpGet, SequenceTheorems, TLAPS

(* What a step of either specification is to the session.                  *)
ClientMove ==
  \/ Connect \/ Send \/ Receive
  \/ (TcpClose \/ CallStep(toClient) \/ PollElsewhere(toClient))
       /\ UNCHANGED history
  \/ tx' = <<>> /\ UNCHANGED <<session, receiver, control, history>>

SessionStep ==
  \/ ClientMove /\ Transmit /\ UNCHANGED <<peer, toClient>>
  \/ PeerStep
  \/ UNCHANGED vars

LEMMA SessionSteps == [SessionNext]_vars => SessionStep
  BY DEF SessionNext, ClientStep, ClientMove, SessionStep

LEMMA HttpSteps == [HttpNext]_allVars => SessionStep
<1> SUFFICES ASSUME HttpNext PROVE SessionStep
  BY DEF SessionStep, allVars
<1> USE DEF ClientMove, SessionStep
<1>1. CASE Program
  BY <1>1 DEF Program, HttpGet
<1>2. CASE GetStep
  BY <1>2
  DEF GetStep, ResolvePoll, ResolveFails, HttpConnect, HttpConnectFailed,
      HttpSend, HttpReceive, HttpClose, HttpReturn
<1>3. CASE TcpStep
  BY <1>3 DEF TcpStep
<1> QED
  BY <1>1, <1>2, <1>3 DEF HttpNext

-----------------------------------------------------------------------------
(* The handshake.                                                          *)

(* Only its own handshake ends the loop of tcp_connect.                    *)
ConnectState ==
  call = "tcp_connect" => tcp_state \in {"SYN_SENT", "ESTABLISHED", "CLOSED"}

(* A session that is not closed is that of a port tcp_connect has used,    *)
(* and still has its first sequence number until it is answered.           *)
SessionOpened ==
  /\ DOMAIN opened \subseteq Port
  /\ tcp_state # "CLOSED" => tcp_local_port \in DOMAIN opened
  /\ tcp_state = "SYN_SENT" => tcp_seq = opened[tcp_local_port]

SynsGenuine ==
  \A seg \in toPeer : seg.flags = {"SYN"} =>
    seg.port \in DOMAIN opened /\ seg.seq = opened[seg.port]

IsPeer(p) ==
  p = [state |-> p.state, irs |-> p.irs, iss |-> p.iss, read |-> p.read,
       finRead |-> p.finRead, snt |-> p.snt, finSent |-> p.finSent]

(* A server has accepted the SYN of its port's own connection.             *)
ServersGenuine ==
  /\ peer = [port \in Port |-> peer[port]]
  /\ \A port \in Port :
       /\ IsPeer(peer[port])
       /\ peer[port].state # "LISTEN" =>
            port \in DOMAIN opened /\ peer[port].irs = opened[port]

(* Segments come from servers that have accepted.                          *)
Answered ==
  \A seg \in toClient : seg.port \in Port /\ peer[seg.port].state # "LISTEN"

Accepted == Synchronised => Server.state # "LISTEN"

Handshake ==
  /\ ConnectState /\ SessionOpened /\ SynsGenuine /\ ServersGenuine
  /\ Answered /\ Accepted

LEMMA InitHandshake == SessionInit => Handshake
<1> SUFFICES ASSUME SessionInit PROVE Handshake
  OBVIOUS
<1> USE DEF SessionInit, ClientInit, Listening
<1>1. ConnectState /\ SessionOpened /\ SynsGenuine /\ Answered /\ Accepted
  BY DEF ConnectState, SessionOpened, SynsGenuine, Answered, Accepted,
         Synchronised
<1>2. ServersGenuine
  BY DEF ServersGenuine, IsPeer
<1> QED
  BY <1>1, <1>2 DEF Handshake

(* What handle_tcp does to the session, and that it never sends a SYN.     *)
Handled(seg) ==
  /\ UNCHANGED tcp_local_port
  /\ \/ UNCHANGED <<tcp_state, tcp_seq>>
     \/ tcp_state' = "CLOSED"
     \/ /\ tcp_state = "SYN_SENT" /\ tcp_state' = "ESTABLISHED"
        /\ seg.port = tcp_local_port
     \/ Open /\ Synchronised'

NoSyn == \A m \in Range(tx') : m.flags # {"SYN"}

LEMMA SendNothing == Range(<<>>) = {}
<1>1. DOMAIN <<>> = {}
  OBVIOUS
<1> QED
  BY <1>1 DEF Range

LEMMA SendOne == \A m : Range(<<m>>) = {m}
<1> SUFFICES ASSUME NEW m PROVE Range(<<m>>) = {m}
  OBVIOUS
<1>1. DOMAIN <<m>> = {1} /\ <<m>>[1] = m
  OBVIOUS
<1> QED
  BY <1>1 DEF Range

LEMMA SendTwo == \A m, n : Range(<<m>> \o <<n>>) \subseteq {m, n}
<1> SUFFICES ASSUME NEW m, NEW n
             PROVE  Range(<<m>> \o <<n>>) \subseteq {m, n}
  OBVIOUS
<1>1. <<m>> \in Seq({m, n}) /\ <<n>> \in Seq({m, n})
  OBVIOUS
<1>2. <<m>> \o <<n>> \in Seq({m, n})
  BY <1>1, ConcatProperties
<1>3. \A s \in Seq({m, n}) : \A i \in DOMAIN s : s[i] \in {m, n}
  OBVIOUS
<1> QED
  BY <1>2, <1>3 DEF Range

LEMMA HandleTcpEffect ==
  ASSUME NEW seg, HandleTcp(seg)
  PROVE  Handled(seg) /\ NoSyn
<1> USE DEF Handled, Synchronised
<1>1. CASE ForUs(seg) /\ HandleRst(seg)
  BY <1>1, SendNothing DEF HandleRst, NoSyn
<1>2. CASE ForUs(seg) /\ HandleSynAck(seg)
  <2>1. Range(tx') = {SendTcp({"ACK"}, tcp_seq', tcp_ack', <<>>)}
    BY <1>2, SendOne DEF HandleSynAck
  <2>2. NoSyn
    BY <2>1 DEF SendTcp, NoSyn
  <2> QED
    BY <1>2, <2>2 DEF ForUs, HandleSynAck
<1>3. CASE ForUs(seg) /\ HandleData(seg)
  <2>1. Range(tx') = {SendTcp({"ACK"}, tcp_seq', tcp_ack', <<>>)}
    BY <1>3, SendOne DEF HandleData
  <2>2. NoSyn
    BY <2>1 DEF SendTcp, NoSyn
  <2> QED
    BY <1>3, <2>2 DEF HandleData, Open
<1>4. CASE ForUs(seg) /\ HandleFin(seg)
  <2> DEFINE a == SendTcp({"ACK"}, seg.ack, Plus(seg.seq, Len(seg.data)), <<>>)
             f == SendTcp({"FIN", "ACK"}, tcp_seq', tcp_ack', <<>>)
  <2>1. a.flags = {"ACK"} /\ f.flags = {"FIN", "ACK"}
    BY DEF SendTcp
  <2>2. tx' = (IF Len(seg.data) > 0 THEN <<a>> ELSE <<>>) \o <<f>>
    BY <1>4 DEF HandleFin
  <2> HIDE DEF a, f
  <2>3. <<>> \o <<f>> = <<f>>
    OBVIOUS
  <2>4. Range(tx') \subseteq {a, f}
    <3>1. CASE Len(seg.data) > 0
      <4>1. tx' = <<a>> \o <<f>>
        BY <2>2, <3>1
      <4> QED
        BY <4>1, SendTwo
    <3>2. CASE ~ (Len(seg.data) > 0)
      <4>1. tx' = <<f>>
        BY <2>2, <2>3, <3>2
      <4>2. Range(tx') = {f}
        BY <4>1, SendOne
      <4> QED
        BY <4>2
    <3> QED
      BY <3>1, <3>2
  <2>5. NoSyn
    BY <2>1, <2>4 DEF NoSyn
  <2> QED
    BY <1>4, <2>5 DEF HandleFin, Open
<1>5. CASE Dropped(seg) /\ tx' = <<>> /\ UNCHANGED <<session, receiver>>
  BY <1>5, SendNothing DEF session, NoSyn
<1> QED
  BY <1>1, <1>2, <1>3, <1>4, <1>5 DEF HandleTcp

LEMMA PollEffects ==
  ASSUME Poll(toClient)
  PROVE  /\ NoSyn /\ UNCHANGED tcp_local_port
         /\ \/ UNCHANGED <<tcp_state, tcp_seq>>
            \/ \E seg \in toClient : Handled(seg)
<1>1. CASE tx' = <<>> /\ UNCHANGED <<session, receiver>>
  BY <1>1, SendNothing DEF NoSyn, session
<1>2. ASSUME NEW seg \in toClient, HandleTcp(seg)
      PROVE  NoSyn /\ Handled(seg)
  BY <1>2, HandleTcpEffect
<1> QED
  BY <1>1, <1>2 DEF Poll, Handled


(* What the client does to its session in one step.                        *)
Keeps ==
  /\ NoSyn /\ UNCHANGED opened
  /\ tcp_state' # "CLOSED" => UNCHANGED tcp_local_port
  /\ \/ UNCHANGED <<tcp_state, tcp_seq>>
     \/ tcp_state' = "CLOSED"
     \/ /\ tcp_state = "SYN_SENT" /\ tcp_state' = "ESTABLISHED"
        /\ \E seg \in toClient : seg.port = tcp_local_port
     \/ Open /\ Synchronised'
  /\ call' = "tcp_connect" =>
       call = "tcp_connect" /\ (Connecting \/ UNCHANGED tcp_state)

SendsSyn ==
  /\ Connecting
  /\ Range(tx') = {SendTcp({"SYN"}, tcp_seq, tcp_ack, <<>>)}
  /\ UNCHANGED <<tcp_local_port, tcp_state, tcp_seq, opened, call>>

LEMMA PollKeeps ==
  ASSUME Poll(toClient), UNCHANGED <<call, opened>>,
         call = "tcp_connect" => Connecting
  PROVE  Keeps
<1>1. UNCHANGED tcp_local_port /\ NoSyn
  BY PollEffects
<1> QED
  BY <1>1, PollEffects DEF Handled, Keeps

LEMMA ClientCases ==
  ASSUME ClientMove
  PROVE  Connect \/ SendsSyn \/ Keeps
<1> USE DEF history
<1>1. CASE Send
  <2>1. PICK data : TcpSend(data) /\ UNCHANGED opened
    BY <1>1 DEF Send
  <2>2. NoSyn
    <3>1. CASE tx' = <<>>
      BY <3>1, SendNothing DEF NoSyn
    <3>2. CASE tx' = <<SendTcp({"PSH", "ACK"}, tcp_seq, tcp_ack, data)>>
      <4>1. Range(tx') = {SendTcp({"PSH", "ACK"}, tcp_seq, tcp_ack, data)}
        BY <3>2, SendOne
      <4> QED
        BY <4>1 DEF SendTcp, NoSyn
    <3> QED
      BY <2>1, <3>1, <3>2 DEF TcpSend
  <2>3. tcp_state = "ESTABLISHED" \/ UNCHANGED tcp_seq
    BY <2>1 DEF TcpSend
  <2> QED
    BY <2>1, <2>2, <2>3 DEF TcpSend, Return, Keeps, Open, Synchronised
<1>2. CASE Receive
  BY <1>2, SendNothing DEF Receive, TcpReceive, session, Keeps, NoSyn
<1>3. CASE TcpClose /\ UNCHANGED history
  <2>1. NoSyn
    <3>1. CASE tx' = <<>>
      BY <3>1, SendNothing DEF NoSyn
    <3>2. CASE tx' = <<SendTcp({"FIN", "ACK"}, tcp_seq, tcp_ack, <<>>)>>
      <4>1. Range(tx') = {SendTcp({"FIN", "ACK"}, tcp_seq, tcp_ack, <<>>)}
        BY <3>2, SendOne
      <4> QED
        BY <4>1 DEF SendTcp, NoSyn
    <3> QED
      BY <1>3, <3>1, <3>2 DEF TcpClose
  <2> QED
    BY <1>3, <2>1 DEF TcpClose, Keeps, Open, Synchronised
<1>4. CASE ConnectSend /\ UNCHANGED history
  BY <1>4, SendOne DEF ConnectSend, session, SendsSyn
<1>5. CASE (\/ ConnectPoll(toClient) \/ ReceivePoll(toClient)
           \/ ClosePoll(toClient) \/ PollElsewhere(toClient))
           /\ UNCHANGED history
  BY <1>5, PollKeeps
  DEF ConnectPoll, Connecting, ReceivePoll, Receiving, ClosePoll, Draining,
      PollElsewhere, control
<1>6. CASE (ConnectReturn \/ ReceiveReturn \/ CloseReturn)
           /\ UNCHANGED history
  BY <1>6, SendNothing
  DEF ConnectReturn, ReceiveReturn, CloseReturn, Return, session, Keeps, NoSyn
<1>7. CASE tx' = <<>> /\ UNCHANGED <<session, receiver, control, history>>
  BY <1>7, SendNothing DEF session, control, Keeps, NoSyn
<1> QED
  BY <1>1, <1>2, <1>3, <1>4, <1>5, <1>6, <1>7
  DEF ClientMove, CallStep

(* Steps of the client preserve the invariant.                             *)
LEMMA ConnectHandshake ==
  ASSUME Handshake, Connect, Transmit, UNCHANGED <<peer, toClient>>
  PROVE  Handshake'
<1>1. PICK port \in Port \ DOMAIN opened, isn \in ISN :
        /\ TcpConnect(port, isn)
        /\ opened' = [p \in DOMAIN opened \cup {port} |->
                        IF p = port THEN isn ELSE opened[p]]
  BY DEF Connect
<1>2. /\ tcp_local_port' = port /\ tcp_state' = "SYN_SENT" /\ tcp_seq' = isn
      /\ tx' = <<>> /\ call' = "tcp_connect"
  BY <1>1 DEF TcpConnect
<1>3. toPeer' = toPeer
  BY <1>2, SendNothing DEF Transmit
<1>4. /\ DOMAIN opened' = DOMAIN opened \cup {port}
      /\ opened'[port] = isn
      /\ \A p \in DOMAIN opened : opened'[p] = opened[p]
  BY <1>1
<1>5. ConnectState' /\ SessionOpened'
  BY <1>2, <1>4 DEF Handshake, ConnectState, SessionOpened
<1>6. SynsGenuine'
  BY <1>3, <1>4 DEF Handshake, SynsGenuine
<1>7. ServersGenuine'
  BY <1>4 DEF Handshake, ServersGenuine
<1>8. Answered' /\ Accepted'
  BY <1>2 DEF Handshake, Answered, Accepted, Synchronised
<1> QED
  BY <1>5, <1>6, <1>7, <1>8 DEF Handshake

LEMMA SynHandshake ==
  ASSUME Handshake, SendsSyn, Transmit, UNCHANGED <<peer, toClient>>
  PROVE  Handshake'
<1>1. tcp_state = "SYN_SENT"
  BY DEF Handshake, ConnectState, SendsSyn, Connecting
<1>2. toPeer' = toPeer \cup {SendTcp({"SYN"}, tcp_seq, tcp_ack, <<>>)}
  BY DEF Transmit, SendsSyn
<1>3. SynsGenuine'
  BY <1>1, <1>2
  DEF Handshake, SynsGenuine, SessionOpened, SendTcp, SendsSyn
<1> QED
  BY <1>1, <1>3
  DEF Handshake, SendsSyn, ConnectState, SessionOpened, ServersGenuine,
      Answered, Accepted, Synchronised, Server

LEMMA KeepsHandshake ==
  ASSUME Handshake, Keeps, Transmit, UNCHANGED <<peer, toClient>>
  PROVE  Handshake'
<1>1. \A seg \in toPeer' : seg.flags = {"SYN"} => seg \in toPeer
  BY DEF Transmit, Keeps, NoSyn
<1>2. SynsGenuine'
  BY <1>1 DEF Handshake, SynsGenuine, Keeps
<1>3. ServersGenuine' /\ Answered'
  BY DEF Handshake, ServersGenuine, Answered, Keeps
<1>4. SessionOpened'
  BY DEF Handshake, SessionOpened, Keeps, Open, Synchronised
<1>5. ConnectState'
  BY DEF Handshake, ConnectState, Keeps, Connecting, Open, Synchronised
<1>6. Accepted'
  <2> SUFFICES ASSUME Synchronised' PROVE peer[tcp_local_port].state # "LISTEN"
    BY DEF Accepted, Server, Keeps, Synchronised
  <2>1. CASE Synchronised
    BY <2>1 DEF Handshake, Accepted, Server
  <2>2. CASE ~ Synchronised
    BY <2>2 DEF Handshake, Answered, Keeps, Synchronised, Open
  <2> QED
    BY <2>1, <2>2
<1> QED
  BY <1>2, <1>3, <1>4, <1>5, <1>6 DEF Handshake

(* So do those of the servers.                                             *)
LEMMA PeerHandshake ==
  ASSUME Handshake, PeerStep
  PROVE  Handshake'
<1>0. UNCHANGED <<session, control, toPeer, opened>>
  BY DEF PeerStep, history
<1>1. PICK port \in Port :
        PeerAccept(port) \/ PeerRead(port) \/ PeerSend(port) \/ PeerReset(port)
  BY DEF PeerStep
<1>2. IsPeer(peer[port]) /\ peer = [p \in Port |-> peer[p]]
  BY DEF Handshake, ServersGenuine
<1>3. /\ peer' = [peer EXCEPT ![port] = peer'[port]]
      /\ IsPeer(peer'[port])
      /\ peer'[port].state # "LISTEN"
      /\ port \in DOMAIN opened /\ peer'[port].irs = opened[port]
  <2>1. CASE PeerAccept(port)
    <3>1. PICK seg \in toPeer, iss \in ISS :
            /\ seg.port = port /\ seg.flags = {"SYN"}
            /\ peer' = [peer EXCEPT ![port] =
                  [Listening EXCEPT !.state = "SYN_RCVD", !.irs = seg.seq,
                                    !.iss = iss]]
      BY <2>1 DEF PeerAccept
    <3>2. peer'[port] = [state |-> "SYN_RCVD", irs |-> seg.seq, iss |-> iss,
                         read |-> <<>>, finRead |-> FALSE, snt |-> 0,
                         finSent |-> FALSE]
      BY <1>2, <3>1 DEF Listening
    <3> QED
      BY <1>2, <3>1, <3>2 DEF Handshake, SynsGenuine, IsPeer
  <2>2. CASE PeerRead(port) \/ PeerSend(port) \/ PeerReset(port)
    <3>1. peer[port].state # "LISTEN"
      BY <2>2 DEF PeerRead, PeerSend, PeerReset
    <3>2. /\ peer' = [peer EXCEPT ![port] = peer'[port]]
          /\ IsPeer(peer'[port])
          /\ peer'[port].state # "LISTEN"
          /\ peer'[port].irs = peer[port].irs
      <4>1. CASE PeerRead(port)
        <5>1. \E read, finRead :
                peer' = [peer EXCEPT ![port] =
                  [peer[port] EXCEPT !.state = "ESTABLISHED", !.read = read,
                                     !.finRead = finRead]]
          BY <4>1, Zenon DEF PeerRead
        <5> QED
          BY <1>2, <5>1 DEF IsPeer
      <4>2. CASE PeerSend(port)
        <5>1. \E snt, finSent :
                peer' = [peer EXCEPT ![port].snt = snt,
                                     ![port].finSent = finSent]
          BY <4>2, Zenon DEF PeerSend
        <5>2. PICK snt, finSent :
                peer' = [peer EXCEPT ![port].snt = snt,
                                     ![port].finSent = finSent]
          BY <5>1
        <5>3. peer'[port] = [peer[port] EXCEPT !.snt = snt,
                                               !.finSent = finSent]
          BY <1>2, <5>2
        <5>4. peer' = [peer EXCEPT ![port] = peer'[port]]
          BY <1>2, <5>2
        <5> QED
          BY <1>2, <3>1, <5>3, <5>4 DEF IsPeer
      <4>3. CASE PeerReset(port)
        BY <1>2, <4>3 DEF PeerReset, IsPeer
      <4> QED
        BY <2>2, <4>1, <4>2, <4>3
    <3> QED
      BY <3>1, <3>2 DEF Handshake, ServersGenuine
  <2> QED
    BY <1>1, <2>1, <2>2
<1>4. /\ \A p \in Port : p # port => peer'[p] = peer[p]
      /\ peer' = [p \in Port |-> peer'[p]]
  BY <1>2, <1>3
<1>5. \A seg \in toClient' : seg \in toClient \/ seg.port = port
  <2>1. CASE PeerAccept(port)
    BY <2>1 DEF PeerAccept, FromPeer
  <2>2. CASE PeerRead(port)
    BY <2>2 DEF PeerRead
  <2>3. CASE PeerSend(port)
    <3>1. \E flags, seq, ack, data :
            toClient' = toClient \cup {FromPeer(port, flags, seq, ack, data)}
      BY <2>3, Zenon DEF PeerSend
    <3> QED
      BY <3>1 DEF FromPeer
  <2>4. CASE PeerReset(port)
    BY <2>4 DEF PeerReset, FromPeer
  <2> QED
    BY <1>1, <2>1, <2>2, <2>3, <2>4
<1>6. ConnectState' /\ SessionOpened' /\ SynsGenuine'
  BY <1>0
  DEF Handshake, ConnectState, SessionOpened, SynsGenuine, session, control
<1>7. ServersGenuine'
  BY <1>0, <1>3, <1>4 DEF Handshake, ServersGenuine
<1>8. Answered'
  BY <1>3, <1>4, <1>5 DEF Handshake, Answered
<1>9. Accepted'
  BY <1>0, <1>3, <1>4
  DEF Handshake, Accepted, Synchronised, Server, SessionOpened, session
<1> QED
  BY <1>6, <1>7, <1>8, <1>9 DEF Handshake

LEMMA NextHandshake ==
  ASSUME Handshake, SessionStep
  PROVE  Handshake'
<1>1. CASE UNCHANGED vars
  BY <1>1
  DEF vars, clientVars, session, control, network, history, Handshake,
      ConnectState, SessionOpened, SynsGenuine, ServersGenuine, Answered,
      Accepted, Synchronised, Server
<1> QED
  BY <1>1, ClientCases, ConnectHandshake, SynHandshake, KeepsHandshake,
     PeerHandshake
  DEF SessionStep

LEMMA HandshakeIsGenuine == Handshake => HandshakeGenuine
  BY DEF Handshake, Accepted, ServersGenuine, SessionOpened, HandshakeGenuine,
         Synchronised, Server

(* The client believes in a connection only if the server of this port has *)
(* accepted this connection's SYN: handle_tcp compares no more than the    *)
(* port, and that is enough as long as ports are fresh.                    *)
THEOREM SessionsAreGenuine == SessionSpec => []HandshakeGenuine
<1>1. Handshake /\ [SessionNext]_vars => Handshake'
  BY NextHandshake, SessionSteps
<1> QED
  BY InitHandshake, <1>1, HandshakeIsGenuine, PTL DEF SessionSpec

(* The same of the connections of http_get, one after the other.           *)
THEOREM HttpSessionsAreGenuine == HttpSpec => []HandshakeGenuine
<1>1. HttpInit => Handshake
  BY InitHandshake DEF HttpInit
<1>2. Handshake /\ [HttpNext]_allVars => Handshake'
  BY NextHandshake, HttpSteps
<1> QED
  BY <1>1, <1>2, HandshakeIsGenuine, PTL DEF HttpSpec

-----------------------------------------------------------------------------
(* What tcp_receive hands out.                                             *)

Symbol(port) == {<<port, k>> : k \in Nat}

LEMMA StreamType ==
  ASSUME NEW port, NEW first \in Nat, NEW last \in Nat, first <= last
  PROVE  /\ Stream(port, first, last) \in Seq(Symbol(port))
         /\ Len(Stream(port, first, last)) = last - first
         /\ \A k \in 1 .. last - first :
              Stream(port, first, last)[k] = <<port, first + k>>
<1>1. last - first \in Nat
  OBVIOUS
<1>2. Stream(port, first, last) \in [1 .. last - first -> Symbol(port)]
  BY DEF Stream, Symbol
<1>3. Stream(port, first, last) \in Seq(Symbol(port))
  BY <1>1, <1>2, SeqDef
<1>4. /\ DOMAIN Stream(port, first, last) = 1 .. last - first
      /\ \A k \in 1 .. last - first :
           Stream(port, first, last)[k] = <<port, first + k>>
  BY DEF Stream
<1> QED
  BY <1>1, <1>3, <1>4, LenProperties

(* A beginning of a piece of a stream is a piece of the stream.            *)
LEMMA StreamStart ==
  ASSUME NEW port, NEW first \in Nat, NEW last \in Nat, first <= last,
         NEW n \in 0 .. last - first
  PROVE  SubSeq(Stream(port, first, last), 1, n) = Stream(port, first, first + n)
<1> DEFINE whole == Stream(port, first, last)
           start == Stream(port, first, first + n)
           part == SubSeq(whole, 1, n)
<1>1. /\ whole \in Seq(Symbol(port)) /\ Len(whole) = last - first
      /\ \A k \in 1 .. last - first : whole[k] = <<port, first + k>>
  BY StreamType
<1>2. /\ start \in Seq(Symbol(port)) /\ Len(start) = n
      /\ \A k \in 1 .. n : start[k] = <<port, first + k>>
  <2>1. first + n \in Nat /\ first <= first + n /\ (first + n) - first = n
    OBVIOUS
  <2>2. /\ start \in Seq(Symbol(port)) /\ Len(start) = (first + n) - first
        /\ \A k \in 1 .. (first + n) - first : start[k] = <<port, first + k>>
    BY <2>1, StreamType
  <2> QED
    BY <2>1, <2>2
<1> HIDE DEF whole, start
<1>3. \A k \in 1 .. n : whole[k] \in Symbol(port)
  BY <1>1 DEF Symbol
<1>4. /\ part \in Seq(Symbol(port))
      /\ Len(part) = IF 1 <= n THEN n - 1 + 1 ELSE 0
      /\ \A i \in 1 .. n - 1 + 1 : part[i] = whole[1 + i - 1]
  BY <1>3, SubSeqProperties
<1>5. /\ n \in Int /\ n - 1 + 1 = n /\ (n = 0 \/ 1 <= n)
      /\ \A i \in 1 .. n : 1 + i - 1 = i /\ i \in 1 .. last - first
  OBVIOUS
<1> HIDE DEF part
<1>6. Len(part) = n
  BY <1>4, <1>5
<1>7. ASSUME NEW i \in 1 .. n PROVE part[i] = start[i]
  <2>1. part[i] = whole[i]
    BY <1>4, <1>5, Zenon
  <2>2. whole[i] = <<port, first + i>>
    BY <1>1, <1>5, Zenon
  <2> QED
    BY <1>2, <2>1, <2>2, Zenon
<1>8. part = start
  BY <1>2, <1>4, <1>6, <1>7, SeqEqual
<1> QED
  BY <1>8 DEF part, start, whole

(* Segments carry pieces of the stream of their own port.                  *)
Streams ==
  \A seg \in toClient : \E first \in 0 .. StreamLen, last \in 0 .. StreamLen :
    first <= last /\ seg.data = Stream(seg.port, first, last)

(* A buffer is posted during tcp_receive only, and empty until the call is *)
(* completed.                                                              *)
Posted ==
  /\ rx_data = [b \in Buffer |-> rx_data[b]]
  /\ tcp_rx_buffer # NULL => call = "tcp_receive" /\ tcp_rx_buffer \in Buffer
  /\ tcp_rx_max_len \in Nat /\ tcp_rx_current_len \in Nat
  /\ tcp_rx_buffer # NULL /\ ~ tcp_rx_done => rx_data[tcp_rx_buffer] = <<>>

Delivery == Handshake /\ Streams /\ Posted /\ DeliveredIsContiguous

LEMMA InitDelivery == SessionInit => Delivery
<1> SUFFICES ASSUME SessionInit PROVE Streams /\ Posted /\ DeliveredIsContiguous
  BY InitHandshake DEF Delivery
<1> USE DEF SessionInit, ClientInit
<1>1. Streams /\ DeliveredIsContiguous
  BY DEF Streams, DeliveredIsContiguous
<1>2. Posted
  BY DEF Posted
<1> QED
  BY <1>1, <1>2

LEMMA NextStreams ==
  ASSUME Delivery, SessionStep
  PROVE  Streams'
<1>1. ASSUME NEW seg \in toClient' \ toClient
      PROVE  \E first \in 0 .. StreamLen, last \in 0 .. StreamLen :
               first <= last /\ seg.data = Stream(seg.port, first, last)
  <2>1. PICK port \in Port :
          PeerAccept(port) \/ PeerRead(port) \/ PeerSend(port) \/ PeerReset(port)
    BY <1>1 DEF SessionStep, PeerStep, vars, network
  <2>2. CASE seg.data = <<>>
    <3>0. 0 \in Nat /\ 0 <= 0 /\ 0 - 0 = 0
      OBVIOUS
    <3>1. /\ Stream(seg.port, 0, 0) \in Seq(Symbol(seg.port))
          /\ Len(Stream(seg.port, 0, 0)) = 0
      BY <3>0, StreamType, Zenon
    <3>2. Stream(seg.port, 0, 0) = <<>>
      BY <3>1, EmptySeq
    <3> QED
      BY <2>2, <3>2, SessionAssumption
  <2>3. CASE PeerSend(port)
    <3>1. \E flags, seq, ack :
          \E last \in 0 .. StreamLen : \E first \in 0 .. last :
            toClient' = toClient \cup
              {FromPeer(port, flags, seq, ack, Stream(port, first, last))}
      BY <2>3, Zenon DEF PeerSend
    <3> QED
      BY <1>1, <3>1, SessionAssumption DEF FromPeer
  <2>4. CASE PeerAccept(port) \/ PeerReset(port)
    <3>1. \E flags, seq, ack :
            toClient' = toClient \cup {FromPeer(port, flags, seq, ack, <<>>)}
      BY <2>4, Zenon DEF PeerAccept, PeerReset
    <3>2. seg.data = <<>>
      BY <1>1, <3>1 DEF FromPeer
    <3> QED
      BY <2>2, <3>2
  <2>5. CASE PeerRead(port)
    BY <1>1, <2>5 DEF PeerRead
  <2> QED
    BY <2>1, <2>3, <2>4, <2>5
<1> QED
  BY <1>1 DEF Delivery, Streams

(* What one poll copies.                                                   *)
Copied(seg, n) ==
  /\ tcp_rx_buffer # NULL /\ seg.port = tcp_local_port
  /\ UNCHANGED <<tcp_rx_buffer, tcp_rx_max_len>>
  /\ rx_data' = [rx_data EXCEPT ![tcp_rx_buffer] = @ \o SubSeq(seg.data, 1, n)]
  /\ tcp_rx_current_len' \in Nat
  /\ tcp_rx_done' = TRUE

CopiesNothing ==
  /\ UNCHANGED <<tcp_rx_buffer, tcp_rx_max_len, tcp_rx_current_len, rx_data>>
  /\ tcp_rx_done => tcp_rx_done'

PollReceives ==
  \/ CopiesNothing
  \/ \E seg \in toClient : \E n \in 1 .. Len(seg.data) : Copied(seg, n)

LEMMA CopyReceives ==
  ASSUME Delivery, NEW seg \in toClient, ForUs(seg), CopyPayload(seg.data)
  PROVE  PollReceives
<1>1. Len(seg.data) \in Nat
  BY StreamType DEF Delivery, Streams
<1> DEFINE n == CopyLen(Len(seg.data))
<1>2. n \in Int /\ n <= Len(seg.data)
      /\ (n > 0 => tcp_rx_buffer # NULL)
  BY <1>1 DEF CopyLen, Delivery, Posted
<1> HIDE DEF n
<1>3. CASE n > 0
  <2>1. Copied(seg, n)
    BY <1>2, <1>3 DEF n, CopyPayload, Copied, ForUs, Delivery, Posted
  <2> QED
    BY <1>1, <1>2, <1>3, <2>1 DEF PollReceives
<1>4. CASE ~ (n > 0)
  BY <1>4 DEF n, CopyPayload, CopiesNothing, PollReceives, receiver
<1> QED
  BY <1>3, <1>4

LEMMA PollsReceive ==
  ASSUME Delivery, Poll(toClient)
  PROVE  PollReceives
<1>1. CASE UNCHANGED receiver
  BY <1>1 DEF receiver, CopiesNothing, PollReceives
<1>2. ASSUME NEW seg \in toClient, ForUs(seg),
             HandleRst(seg) \/ HandleSynAck(seg)
      PROVE  PollReceives
  BY <1>2 DEF HandleRst, HandleSynAck, receiver, CopiesNothing, PollReceives
<1>3. ASSUME NEW seg \in toClient, ForUs(seg),
             HandleData(seg) \/ HandleFin(seg)
      PROVE  PollReceives
  BY <1>3, CopyReceives DEF HandleData, HandleFin
<1> QED
  BY <1>1, <1>2, <1>3 DEF Poll, HandleTcp

(* The kinds of steps, as the receiver sees them.                          *)
Untouched ==
  /\ UNCHANGED receiver
  /\ DOMAIN opened \subseteq DOMAIN opened'
  /\ tcp_rx_buffer # NULL => UNCHANGED <<call, tcp_local_port>>

Polled ==
  /\ Poll(toClient)
  /\ UNCHANGED <<call, tcp_local_port, opened>>
  /\ tcp_rx_buffer # NULL => ~ tcp_rx_done

LEMMA DeliveryCases ==
  ASSUME Delivery, SessionStep
  PROVE  \/ Untouched \/ Polled
         \/ Receive
         \/ ReceiveReturn /\ UNCHANGED history
<1> USE DEF Untouched, history
<1>0. tcp_rx_buffer # NULL => call = "tcp_receive"
  BY DEF Delivery, Posted
<1>1. CASE PeerStep \/ UNCHANGED vars
  BY <1>1 DEF PeerStep, vars, clientVars, session, control
<1>2. CASE Connect
  <2>1. PICK port, isn :
          /\ TcpConnect(port, isn)
          /\ opened' = [p \in DOMAIN opened \cup {port} |->
                          IF p = port THEN isn ELSE opened[p]]
    BY <1>2 DEF Connect
  <2>2. DOMAIN opened \subseteq DOMAIN opened'
    BY <2>1
  <2> QED
    BY <1>0, <2>1, <2>2 DEF TcpConnect
<1>3. CASE Send
  BY <1>0, <1>3 DEF Send, TcpSend
<1>4. CASE TcpClose /\ UNCHANGED history
  BY <1>0, <1>4 DEF TcpClose
<1>5. CASE (ConnectSend \/ ConnectReturn \/ CloseReturn) /\ UNCHANGED history
  BY <1>0, <1>5 DEF ConnectSend, Connecting, ConnectReturn, CloseReturn
<1>6. CASE (\/ ConnectPoll(toClient) \/ ReceivePoll(toClient)
           \/ ClosePoll(toClient) \/ PollElsewhere(toClient))
           /\ UNCHANGED history
  BY <1>0, <1>6, PollEffects
  DEF ConnectPoll, Connecting, ReceivePoll, Receiving, ClosePoll, Draining,
      PollElsewhere, control, Polled
<1>7. CASE tx' = <<>> /\ UNCHANGED <<session, receiver, control, history>>
  BY <1>7 DEF session, control
<1> QED
  BY <1>1, <1>2, <1>3, <1>4, <1>5, <1>6, <1>7
  DEF SessionStep, ClientMove, CallStep

(* One poll fills an empty buffer from one segment.                        *)
LEMMA CopyDelivers ==
  ASSUME Delivery, Polled, NEW seg \in toClient, NEW n \in 1 .. Len(seg.data),
         Copied(seg, n)
  PROVE  DeliveredIsContiguous'
<1> DEFINE part == SubSeq(seg.data, 1, n)
<1>1. PICK first \in 0 .. StreamLen, last \in 0 .. StreamLen :
        first <= last /\ seg.data = Stream(seg.port, first, last)
  BY DEF Delivery, Streams
<1>2. first \in Nat /\ last \in Nat
  BY <1>1, SessionAssumption
<1>3. Len(seg.data) = last - first
  <2>1. Len(Stream(seg.port, first, last)) = last - first
    BY <1>1, <1>2, StreamType, Zenon
  <2> QED
    BY <1>1, <2>1
<1>4. n \in 0 .. last - first /\ first + n \in Nat /\ first <= first + n
      /\ (first + n) - first = n
  BY <1>2, <1>3
<1>5. part = Stream(seg.port, first, first + n)
  BY <1>1, <1>2, <1>4, StreamStart
<1>6. Len(part) = n /\ part \in Seq(Symbol(seg.port))
  BY <1>2, <1>4, <1>5, StreamType
<1>7. tcp_rx_buffer \in Buffer /\ rx_data[tcp_rx_buffer] = <<>>
      /\ rx_data = [b \in Buffer |-> rx_data[b]]
  BY DEF Delivery, Posted, Polled, Copied
<1>8. <<>> \o part = part
  BY <1>6, ConcatEmptySeq
<1> HIDE DEF part
<1>9. /\ rx_data'[tcp_rx_buffer] = part
      /\ \A b \in Buffer : b # tcp_rx_buffer => rx_data'[b] = rx_data[b]
  BY <1>7, <1>8 DEF Copied, part
<1>10. seg.port \in DOMAIN opened /\ seg.port = tcp_local_port
  BY DEF Delivery, Handshake, Answered, ServersGenuine, Copied
<1>11. UNCHANGED <<opened, tcp_local_port>>
  BY DEF Polled
<1> SUFFICES ASSUME NEW b \in Buffer, rx_data'[b] # <<>>
             PROVE  \E port \in DOMAIN opened, k \in 0 .. StreamLen :
                      /\ rx_data'[b] = Stream(port, k, k + Len(rx_data'[b]))
                      /\ tcp_rx_buffer' = b => port = tcp_local_port
  BY <1>11 DEF DeliveredIsContiguous
<1>12. CASE b = tcp_rx_buffer
  BY <1>1, <1>5, <1>6, <1>9, <1>10, <1>12
<1>13. CASE b # tcp_rx_buffer
  <2>1. rx_data'[b] = rx_data[b] /\ tcp_rx_buffer' # b
    BY <1>9, <1>13 DEF Copied
  <2> QED
    BY <2>1 DEF Delivery, DeliveredIsContiguous
<1> QED
  BY <1>12, <1>13

LEMMA NextDelivery ==
  ASSUME Delivery, SessionStep
  PROVE  Delivery'
<1>1. Handshake' /\ Streams'
  BY NextHandshake, NextStreams DEF Delivery
<1>2. CASE Untouched
  <2>1. Posted'
    BY <1>2 DEF Untouched, receiver, Delivery, Posted
  <2>2. DeliveredIsContiguous'
    BY <1>2, TcpAssumption
    DEF Untouched, receiver, Delivery, DeliveredIsContiguous
  <2> QED
    BY <1>1, <2>1, <2>2 DEF Delivery
<1>3. CASE Receive
  <2>1. PICK b \in Buffer, n \in MaxLen, ms \in TimeoutMs : TcpReceive(b, n, ms)
    BY <1>3 DEF Receive
  <2>2. /\ rx_data' = [rx_data EXCEPT ![b] = <<>>]
        /\ tcp_rx_buffer' = b /\ UNCHANGED <<opened, tcp_local_port>>
        /\ call' = "tcp_receive"
        /\ tcp_rx_max_len' \in Nat /\ tcp_rx_current_len' \in Nat
    BY <1>3, <2>1, TcpAssumption DEF Receive, TcpReceive, session, history
  <2>3. /\ rx_data'[b] = <<>>
        /\ \A c \in Buffer : c # b => rx_data'[c] = rx_data[c]
        /\ rx_data' = [c \in Buffer |-> rx_data'[c]]
    BY <2>2 DEF Delivery, Posted
  <2>4. Posted'
    BY <2>2, <2>3 DEF Posted
  <2>5. DeliveredIsContiguous'
    BY <2>2, <2>3 DEF Delivery, DeliveredIsContiguous
  <2> QED
    BY <1>1, <2>4, <2>5 DEF Delivery
<1>4. CASE ReceiveReturn /\ UNCHANGED history
  <2>1. /\ tcp_rx_buffer' = NULL
        /\ UNCHANGED <<tcp_rx_max_len, tcp_rx_current_len, rx_data, opened>>
    BY <1>4 DEF ReceiveReturn, history
  <2>2. Posted'
    BY <2>1 DEF Delivery, Posted
  <2>3. DeliveredIsContiguous'
    BY <2>1, TcpAssumption DEF Delivery, DeliveredIsContiguous
  <2> QED
    BY <1>1, <2>2, <2>3 DEF Delivery
<1>5. CASE Polled
  <2>1. PollReceives
    BY <1>5, PollsReceive DEF Polled
  <2>2. CASE CopiesNothing
    <3>1. Posted'
      BY <1>5, <2>2 DEF Polled, Delivery, Posted, CopiesNothing
    <3>2. DeliveredIsContiguous'
      BY <1>5, <2>2 DEF Polled, Delivery, DeliveredIsContiguous, CopiesNothing
    <3> QED
      BY <1>1, <3>1, <3>2 DEF Delivery
  <2>3. ASSUME NEW seg \in toClient, NEW n \in 1 .. Len(seg.data),
               Copied(seg, n)
        PROVE  Delivery'
    <3>1. Posted'
      BY <1>5, <2>3 DEF Polled, Delivery, Posted, Copied
    <3> QED
      BY <1>1, <1>5, <2>3, <3>1, CopyDelivers DEF Delivery
  <2> QED
    BY <2>1, <2>2, <2>3 DEF PollReceives
<1> QED
  BY <1>2, <1>3, <1>4, <1>5, DeliveryCases

(* One tcp_receive hands out consecutive bytes of the stream of the        *)
(* current connection, whatever the network reorders or repeats: the first *)
(* segment copied completes the call (core.hpp:366-370).                   *)
THEOREM ReceivesAreContiguous == SessionSpec => []DeliveredIsContiguous
<1>1. Delivery /\ [SessionNext]_vars => Delivery'
  BY NextDelivery, SessionSteps
<1>2. Delivery => DeliveredIsContiguous
  BY DEF Delivery
<1> QED
  BY InitDelivery, <1>1, <1>2, PTL DEF SessionSpec

-----------------------------------------------------------------------------
(* How http_get leaves the session behind and what it hands out.           *)

(* The TCP call that may be in progress at each stage of http_get.         *)
StageOfCall ==
  /\ http \in {"idle", "resolve", "receive"} => call = "none"
  /\ http = "connect" => call \in {"tcp_connect", "none"}
  /\ http = "close" => call \in {"tcp_receive", "none"}
  /\ http = "return" => call \in {"tcp_close", "none"}

(* What tcp_connect and tcp_close have achieved when they have returned.   *)
StageOfSession ==
  /\ http = "connect" /\ call = "none" /\ ret.status # "SUCCESS"
       => tcp_state \in {"CLOSED", "SYN_SENT"}
  /\ http = "return" /\ call = "none"
       => tcp_state = "CLOSED" /\ tcp_local_port = 0

GetInv == Delivery /\ StageOfCall /\ StageOfSession

(* A step of http_get to its next call.                                    *)
LEMMA GetStepStages ==
  ASSUME GetInv, GetStep
  PROVE  (StageOfCall /\ StageOfSession)'
<1> USE DEF GetInv, StageOfCall, StageOfSession
<1>1. CASE ResolvePoll
  BY <1>1 DEF ResolvePoll, PollElsewhere, control
<1>2. CASE ResolveFails
  BY <1>2 DEF ResolveFails, Finish, control
<1>3. CASE HttpConnect
  BY <1>3 DEF HttpConnect, Connect, TcpConnect
<1>4. CASE HttpConnectFailed
  BY <1>4 DEF HttpConnectFailed, Finish, control
<1>5. CASE HttpSend
  BY <1>5 DEF HttpSend, Send, TcpSend, Return
<1>6. CASE HttpReceive
  BY <1>6 DEF HttpReceive, Receive, TcpReceive
<1>7. CASE HttpClose
  BY <1>7 DEF HttpClose, TcpClose
<1>8. CASE HttpReturn
  BY <1>8 DEF HttpReturn, Finish, control
<1> QED
  BY <1>1, <1>2, <1>3, <1>4, <1>5, <1>6, <1>7, <1>8 DEF GetStep

(* A step of the call in progress; an unsuccessful tcp_connect leaves no   *)
(* established session.                                                    *)
LEMMA TcpStepStages ==
  ASSUME GetInv, TcpStep
  PROVE  (StageOfCall /\ StageOfSession)'
<1> USE DEF GetInv, StageOfCall, StageOfSession, TcpStep, httpVars
<1>1. CASE ConnectSend \/ ConnectPoll(toClient)
  BY <1>1 DEF ConnectSend, ConnectPoll, Connecting
<1>2. CASE ConnectReturn
  BY <1>2
  DEF ConnectReturn, Return, session, Delivery, Handshake, ConnectState
<1>3. CASE ReceivePoll(toClient) \/ ReceiveReturn
  BY <1>3 DEF ReceivePoll, ReceiveReturn, Receiving, Return
<1>4. CASE ClosePoll(toClient) \/ CloseReturn
  BY <1>4 DEF ClosePoll, CloseReturn, Draining, Return
<1> QED
  BY <1>1, <1>2, <1>3, <1>4 DEF CallStep

LEMMA GetInvariant == HttpSpec => []GetInv
<1>1. HttpInit => GetInv
  BY InitDelivery
  DEF HttpInit, SessionInit, ClientInit, GetInv, StageOfCall, StageOfSession
<1>2. GetInv /\ [HttpNext]_allVars => GetInv'
  <2> SUFFICES ASSUME GetInv, [HttpNext]_allVars
               PROVE  (StageOfCall /\ StageOfSession)'
    BY HttpSteps, NextDelivery DEF GetInv
  <2>1. CASE Program
    BY <2>1
    DEF Program, HttpGet, PollElsewhere, control, httpVars, GetInv,
        StageOfCall, StageOfSession
  <2>2. CASE GetStep \/ TcpStep
    BY <2>2, GetStepStages, TcpStepStages
  <2>3. CASE (PeerStep /\ UNCHANGED httpVars) \/ UNCHANGED allVars
    BY <2>3
    DEF PeerStep, httpVars, allVars, vars, clientVars, session, control,
        GetInv, StageOfCall, StageOfSession
  <2> QED
    BY <2>1, <2>2, <2>3 DEF HttpNext
<1> QED
  BY <1>1, <1>2, PTL DEF HttpSpec

(* However http_get ends once it has called tcp_connect, no session stays  *)
(* open and no buffer posted: every path from a connected session to its   *)
(* return leads through tcp_close (api.hpp:580-606).                       *)
THEOREM GetCleansUp == HttpSpec => GetLeavesNoSession
<1>1. GetInv /\ [HttpNext]_allVars =>
        [http \notin {"idle", "resolve"} /\ http' = "idle" =>
           /\ tcp_state' \in {"CLOSED", "SYN_SENT"}
           /\ tcp_rx_buffer' = NULL
           /\ httpRet'.status = "SUCCESS" => tcp_local_port' = 0]_allVars
  <2> SUFFICES ASSUME GetInv, HttpNext, http \notin {"idle", "resolve"},
                      http' = "idle"
               PROVE  /\ tcp_state' \in {"CLOSED", "SYN_SENT"}
                      /\ tcp_rx_buffer' = NULL
                      /\ httpRet'.status = "SUCCESS" => tcp_local_port' = 0
    OBVIOUS
  <2>1. HttpConnectFailed \/ HttpReturn
    BY DEF HttpNext, Program, HttpGet, TcpStep, httpVars, GetStep,
           ResolvePoll, ResolveFails, HttpConnect, HttpSend, HttpReceive,
           HttpClose
  <2>2. call = "none" /\ UNCHANGED <<session, receiver>>
    BY <2>1 DEF HttpConnectFailed, HttpReturn
  <2>3. tcp_rx_buffer' = NULL
    BY <2>2 DEF receiver, GetInv, Delivery, Posted
  <2>4. CASE HttpConnectFailed
    BY <2>2, <2>3, <2>4
    DEF HttpConnectFailed, Finish, session, GetInv, StageOfSession
  <2>5. CASE HttpReturn
    BY <2>2, <2>3, <2>5 DEF HttpReturn, session, GetInv, StageOfSession
  <2> QED
    BY <2>1, <2>4, <2>5
<1> QED
  BY <1>1, GetInvariant, PTL DEF HttpSpec, GetLeavesNoSession

-----------------------------------------------------------------------------
(* What http_get hands out.                                                *)

(* As much of a payload as a buffer of this capacity takes.                *)
Fits(data) ==
  IF tcp_rx_max_len <= Len(data) THEN tcp_rx_max_len ELSE Len(data)

(* The buffer holds the beginning of a segment of this connection.         *)
Fetched(len) ==
  \E b \in Buffer, seg \in toClient :
    /\ seg.port = tcp_local_port
    /\ len = Fits(seg.data)
    /\ rx_data[b] = SubSeq(seg.data, 1, len)

Fetches ==
  http = "close" /\ call = "tcp_receive" =>
    /\ tcp_rx_done /\ tcp_rx_current_len > 0 => Fetched(tcp_rx_current_len)
    /\ ~ tcp_rx_done => tcp_rx_current_len = 0

Returned ==
  http = "close" /\ call = "none" /\ ret.status = "SUCCESS" /\ ret.len > 0
    => Fetched(ret.len)

ResponseInv == GetInv /\ Fetches /\ Returned

LEMMA PeersAddSegments == PeerStep => toClient \subseteq toClient'
<1> SUFFICES ASSUME PeerStep PROVE toClient \subseteq toClient'
  OBVIOUS
<1>1. PICK port \in Port :
        PeerAccept(port) \/ PeerRead(port) \/ PeerSend(port) \/ PeerReset(port)
  BY DEF PeerStep
<1>2. \E s : toClient' = toClient \cup s
  <2>1. CASE PeerRead(port)
    BY <2>1 DEF PeerRead
  <2>2. CASE ~ PeerRead(port)
    BY <1>1, <2>2, Zenon DEF PeerAccept, PeerSend, PeerReset
  <2> QED
    BY <2>1, <2>2
<1> QED
  BY <1>2

(* Nothing that a buffer holds is lost while nothing is received.          *)
LEMMA FetchedStays ==
  ASSUME UNCHANGED <<receiver, tcp_local_port>>, toClient \subseteq toClient',
         NEW len
  PROVE  Fetched(len) => Fetched(len)'
BY DEF receiver, Fetched, Fits

(* One turn of the loop of tcp_receive.                                    *)
LEMMA PollFetches ==
  ASSUME GetInv, ReceivePoll(toClient), UNCHANGED toClient,
         tcp_rx_current_len = 0
  PROVE  /\ tcp_rx_done' /\ tcp_rx_current_len' > 0
              => Fetched(tcp_rx_current_len)'
         /\ ~ tcp_rx_done' => tcp_rx_current_len' = 0
<1>1. Poll(toClient) /\ ~ tcp_rx_done
  BY DEF ReceivePoll, Receiving
<1>2. CASE UNCHANGED receiver \/ (\E seg \in toClient : HandleRst(seg))
  BY <1>2 DEF receiver, HandleRst
<1>3. ASSUME NEW seg \in toClient, ForUs(seg), CopyPayload(seg.data),
             UNCHANGED tcp_local_port
      PROVE  /\ tcp_rx_done' /\ tcp_rx_current_len' > 0
                  => Fetched(tcp_rx_current_len)'
             /\ ~ tcp_rx_done' => tcp_rx_current_len' = 0
  <2> DEFINE n == CopyLen(Len(seg.data))
  <2>1. PICK first \in 0 .. StreamLen, last \in 0 .. StreamLen :
          first <= last /\ seg.data = Stream(seg.port, first, last)
    BY DEF GetInv, Delivery, Streams
  <2>2. seg.data \in Seq(Symbol(seg.port)) /\ Len(seg.data) \in Nat
    BY <2>1, SessionAssumption, StreamType
  <2>3. CASE n > 0
    <3>1. tcp_rx_buffer # NULL
      BY <2>3 DEF CopyLen
    <3>2. tcp_rx_max_len \in Nat /\ tcp_rx_buffer \in Buffer
          /\ rx_data[tcp_rx_buffer] = <<>>
          /\ rx_data = [b \in Buffer |-> rx_data[b]]
      BY <1>1, <3>1 DEF GetInv, Delivery, Posted
    <3>3. n = Fits(seg.data) /\ n \in 1 .. Len(seg.data)
      BY <2>2, <2>3, <3>1, <3>2 DEF CopyLen, Fits
    <3>4. SubSeq(seg.data, 1, n) \in Seq(Symbol(seg.port))
      <4>1. \A i \in 1 .. n : seg.data[i] \in Symbol(seg.port)
        BY <2>2, <3>3
      <4> QED
        BY <3>3, <4>1, SubSeqProperties
    <3>5. <<>> \o SubSeq(seg.data, 1, n) = SubSeq(seg.data, 1, n)
      BY <3>4, ConcatEmptySeq
    <3>6. /\ rx_data' = [rx_data EXCEPT ![tcp_rx_buffer] =
                           @ \o SubSeq(seg.data, 1, n)]
          /\ tcp_rx_current_len' = tcp_rx_current_len + n
          /\ UNCHANGED tcp_rx_max_len
      BY <1>3, <2>3 DEF CopyPayload
    <3> HIDE DEF n
    <3>7. /\ rx_data'[tcp_rx_buffer] = SubSeq(seg.data, 1, n)
          /\ tcp_rx_current_len' = n
      BY <3>2, <3>3, <3>5, <3>6
    <3>8. Fetched(tcp_rx_current_len)'
      BY <1>3, <3>2, <3>3, <3>6, <3>7 DEF Fetched, Fits, ForUs
    <3>9. tcp_rx_done'
      BY <1>3, <2>3 DEF CopyPayload, n
    <3> QED
      BY <3>8, <3>9
  <2>4. CASE ~ (n > 0)
    BY <1>3, <2>4 DEF CopyPayload, receiver
  <2> QED
    BY <2>3, <2>4
<1> QED
  BY <1>1, <1>2, <1>3 DEF Poll, HandleTcp, HandleSynAck, HandleData, HandleFin

LEMMA NextResponse ==
  ASSUME ResponseInv, [HttpNext]_allVars
  PROVE  (Fetches /\ Returned)'
<1> USE DEF Fetches, Returned, ResponseInv
<1>1. CASE /\ UNCHANGED <<receiver, tcp_local_port, call, ret, http>>
           /\ toClient \subseteq toClient'
  <2>1. UNCHANGED <<tcp_rx_done, tcp_rx_current_len>>
    BY <1>1 DEF receiver
  <2>2. \A len : Fetched(len) => Fetched(len)'
    BY <1>1, FetchedStays
  <2> QED
    BY <1>1, <2>1, <2>2
<1>2. CASE Program \/ HttpClose \/ HttpReturn \/ ResolvePoll \/ ResolveFails
           \/ HttpConnect \/ HttpConnectFailed
  <2>1. http' # "close"
    BY <1>2
    DEF Program, HttpGet, httpVars, HttpClose, HttpReturn, ResolvePoll,
        ResolveFails, HttpConnect, HttpConnectFailed, Finish
  <2> QED
    BY <2>1
<1>3. CASE HttpSend
  BY <1>3 DEF HttpSend, Send, TcpSend, Return
<1>4. CASE HttpReceive
  BY <1>4 DEF HttpReceive, Receive, TcpReceive
<1>5. CASE TcpStep /\ http = "close"
  <2>1. call = "tcp_receive" /\ UNCHANGED <<http, toClient>>
    BY <1>5
    DEF TcpStep, httpVars, GetInv, StageOfCall, CallStep, ConnectSend,
        ConnectPoll, Connecting, ConnectReturn, ReceivePoll, Receiving,
        ReceiveReturn, ClosePoll, Draining, CloseReturn
  <2>2. CASE ReceivePoll(toClient)
    <3>1. tcp_rx_current_len = 0 /\ call' = "tcp_receive"
      BY <1>5, <2>1, <2>2 DEF ReceivePoll, Receiving
    <3> QED
      BY <2>1, <2>2, <3>1, PollFetches
  <2>3. CASE ReceiveReturn
    <3>1. /\ UNCHANGED <<tcp_local_port, tcp_rx_max_len, rx_data>>
          /\ call' = "none" /\ ret'.len = tcp_rx_current_len
          /\ ret'.status = "SUCCESS" => tcp_rx_done
      BY <2>3 DEF ReceiveReturn, Return, session
    <3>2. \A len : Fetched(len) => Fetched(len)'
      BY <2>1, <3>1 DEF Fetched, Fits
    <3> QED
      BY <1>5, <2>1, <3>1, <3>2
  <2> QED
    BY <1>5, <2>1, <2>2, <2>3
    DEF TcpStep, CallStep, ConnectSend, ConnectPoll, Connecting,
        ConnectReturn, ClosePoll, Draining, CloseReturn
<1>6. CASE TcpStep /\ http # "close"
  BY <1>6 DEF TcpStep, httpVars
<1>7. CASE (PeerStep /\ UNCHANGED httpVars) \/ UNCHANGED allVars
  BY <1>1, <1>7, PeersAddSegments
  DEF PeerStep, httpVars, allVars, vars, clientVars, session, control,
      network
<1> QED
  BY <1>2, <1>3, <1>4, <1>5, <1>6, <1>7 DEF HttpNext, GetStep

(* What http_get hands out is the beginning of one segment of its own      *)
(* connection, as much of it as fits, whatever else is polled meanwhile:   *)
(* tcp_receive completes with the first payload (core.hpp:366-370) and     *)
(* handle_tcp takes none but the open port's.                              *)
THEOREM ResponseComesFromOneSegment == HttpSpec => ResponseIsOneSegment
<1>1. HttpInit => Fetches /\ Returned
  BY DEF HttpInit, Fetches, Returned
<1>2. ResponseInv /\ [HttpNext]_allVars => (Fetches /\ Returned)'
  BY NextResponse
<1>3. ResponseInv /\ [HttpNext]_allVars =>
        [http = "close" /\ http' # "close" /\ st'.status = "SUCCESS"
           /\ st'.len > 0 => OneSegment]_allVars
  <2> SUFFICES ASSUME ResponseInv, HttpNext, http = "close", http' # "close",
                      st'.status = "SUCCESS", st'.len > 0
               PROVE  OneSegment
    OBVIOUS
  <2>1. HttpClose
    BY DEF HttpNext, Program, HttpGet, TcpStep, httpVars, GetStep,
           ResolvePoll, ResolveFails, HttpConnect, HttpConnectFailed,
           HttpSend, HttpReceive, HttpReturn
  <2>2. call = "none" /\ st'.status = ret.status /\ st'.len = ret.len
    BY <2>1 DEF HttpClose
  <2>3. PICK b \in Buffer, seg \in toClient :
          /\ seg.port = tcp_local_port
          /\ st'.len = Fits(seg.data)
          /\ rx_data[b] = SubSeq(seg.data, 1, st'.len)
    BY <2>2 DEF ResponseInv, Returned, Fetched
  <2>4. tcp_rx_max_len \in Nat /\ Len(seg.data) \in Nat
    BY StreamType, SessionAssumption
    DEF ResponseInv, GetInv, Delivery, Posted, Streams
  <2>5. Fits(seg.data) =
          CHOOSE n \in {tcp_rx_max_len, Len(seg.data)} :
            n <= tcp_rx_max_len /\ n <= Len(seg.data)
    BY <2>4 DEF Fits
  <2> QED
    BY <2>3, <2>5 DEF OneSegment
<1> QED
  BY <1>1, <1>2, <1>3, GetInvariant, PTL
  DEF HttpSpec, ResponseIsOneSegment, ResponseInv

(* What any tcp_receive of http_get hands out is consecutive bytes of the  *)
(* stream of its own connection.                                           *)
THEOREM HttpReceivesAreContiguous == HttpSpec => []DeliveredIsContiguous
<1>1. GetInv => DeliveredIsContiguous
  BY DEF GetInv, Delivery
<1> QED
  BY <1>1, GetInvariant, PTL

=============================================================================
