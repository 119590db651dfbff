------------------------- MODULE MessageNetworkProofs -------------------------
(***************************************************************************)
(* Theorems about MessageNetwork, for any set of hostnames, addresses and  *)
(* ports, any zone, and any bounds.                                        *)
(***************************************************************************)
EXTENDS MessageNetwork, TLAPS

-----------------------------------------------------------------------------
(* The inductive invariant.                                                *)

Typed ==
  /\ ms \in Nat /\ loops \in Nat /\ max_loops \in Nat /\ timeout \in Nat
  /\ udp_rx_max_len \in Nat

(* A buffer is posted exactly during udp_receive, and it is the caller's.  *)
Posted ==
  /\ rx_data = [b \in Buffer |-> rx_data[b]]
  /\ call = "udp_receive" => arg \in Buffer /\ udp_rx_buffer = arg
  /\ call # "udp_receive" => udp_rx_buffer = NULL

(* The loops bounded by a timeout count their turns.                       *)
Counted ==
  call \in {"udp_receive", "ping"} =>
    max_loops = Turns(ms) /\ loops <= max_loops

Question(m) == m \in sent /\ m.kind = "QUERY"
Request(m) == m \in sent /\ m.kind = "ECHO_REQUEST"

(* Two queries with the same port and id ask for the same name, and two    *)
(* pings with the same id and sequence number the same host.               *)
Unique ==
  /\ \A p, q : Question(p) /\ Question(q) /\ p.sport = q.sport /\ p.id = q.id
                 => p.host = q.host
  /\ \A p, q : Request(p) /\ Request(q) /\ p.id = q.id /\ p.seq = q.seq
                 => p.host = q.host

EchoRequests ==
  [kind : {"ECHO_REQUEST"}, host : Ip, id : Nat, seq : Nat, len : Nat]

Datagram(m) == m \in inFlight /\ m.kind = "UDP"
EchoReply(m) == m \in inFlight /\ m.kind = "ECHO_REPLY"

(* What is on its way comes from somewhere.                                *)
Traceable ==
  /\ \A m : Request(m) => m \in EchoRequests
  /\ \A m \in inFlight : m.kind = "ECHO_REQUEST" => m \in EchoRequests
  /\ \A m : EchoReply(m) =>
       \E q : Request(q) /\ q.id = m.id /\ q.seq = m.seq /\ q.host = m.host
  /\ \A d : Datagram(d) => d.len \in Nat
  /\ \A d : Datagram(d) /\ d.sport = DnsPort =>
       \E q : /\ Question(q) /\ q.sport = d.dport /\ q.id = d.body.id
              /\ d.body.answers = Zone[q.host]

(* While an answer is awaited its question has been asked.                 *)
Asked ==
  /\ call = "ping" =>
       \E q : /\ Request(q) /\ q.host = arg
              /\ q.id = ping_id /\ q.seq = ping_seq
  /\ call = "resolve_hostname" /\ timeout > 0 =>
       \E q : /\ Question(q) /\ q.host = arg
              /\ q.id = dns_current_id /\ q.sport = dns_local_port

AddressOf(host) == Head(SelectSeq(Zone[host], LAMBDA r : r.type = "A")).ip

Answer(m) ==
  /\ EchoReply(m)
  /\ m.host = arg /\ m.id = ping_id /\ m.seq = ping_seq

Cut(len) == IF len <= udp_rx_max_len THEN len ELSE udp_rx_max_len

Received(d) ==
  /\ Datagram(d) /\ d.dport = udp_local_port
  /\ rx_data[arg] = [body |-> d.body, len |-> Cut(d.len)]
  /\ udp_rx_current_len = Cut(d.len)

(* What a call has found before it returns.                                *)
Found ==
  /\ call = "ping" /\ ping_reply_received => \E m : Answer(m)
  /\ call = "resolve_hostname" /\ dns_resolved =>
       dns_resolved_ip = AddressOf(arg)
  /\ call = "udp_receive" /\ udp_rx_done => \E d : Received(d)

Inv ==
  Typed /\ Posted /\ Counted /\ Unique /\ Traceable /\ Asked /\ Found

LEMMA InitInv == Init => Inv
<1> SUFFICES ASSUME Init PROVE Inv
  OBVIOUS
<1> USE DEF Init, MessagesInit
<1>1. Typed /\ Counted
  BY DEF Typed, Counted
<1>2. Posted
  BY DEF Posted
<1>3. Unique
  BY DEF Unique, Question, Request
<1>4. Traceable
  BY DEF Traceable, Question, Request, Datagram, EchoReply
<1>5. Asked /\ Found
  BY DEF Asked, Found
<1> QED
  BY <1>1, <1>2, <1>3, <1>4, <1>5 DEF Inv

-----------------------------------------------------------------------------
(* What one poll can do, by the handlers.                                  *)

UdpPolled ==
  \/ UNCHANGED udp
  \/ /\ udp_rx_buffer # NULL
     /\ \E d : /\ Datagram(d) /\ d.dport = udp_local_port
               /\ rx_data' = [rx_data EXCEPT ![udp_rx_buffer] =
                                [body |-> d.body, len |-> CopyLen(d.len)]]
               /\ udp_rx_current_len' = CopyLen(d.len)
     /\ udp_rx_done' = TRUE
     /\ UNCHANGED <<udp_local_port, udp_rx_buffer, udp_rx_max_len>>

DnsPolled ==
  \/ UNCHANGED dns
  \/ /\ \E d : /\ Datagram(d) /\ AnswersQuery(d)
               /\ dns_resolved_ip' = Head(Records(d.body)).ip
     /\ dns_resolved' = TRUE
     /\ UNCHANGED <<dns_current_id, dns_local_port>>

IcmpPolled ==
  /\ UNCHANGED <<ping_id, ping_seq>>
  /\ ping_reply_received' =>
       \/ ping_reply_received
       \/ \E m : EchoReply(m) /\ m.id = ping_id /\ m.seq = ping_seq

(* All a poll transmits is the reply to another host's ping.               *)
Quiet == \A m \in ToSet(tx') : m.kind = "ECHO_REPLY"

LEMMA NothingSent == ToSet(<<>>) = {}
  BY DEF ToSet

LEMMA OneSent == \A m : ToSet(<<m>>) = {m}
<1> SUFFICES ASSUME NEW m PROVE ToSet(<<m>>) = {m}
  OBVIOUS
<1>1. DOMAIN <<m>> = {1} /\ <<m>>[1] = m
  OBVIOUS
<1> QED
  BY <1>1 DEF ToSet

LEMMA PollEffects ==
  ASSUME Traceable, Poll(inFlight)
  PROVE  UdpPolled /\ DnsPolled /\ IcmpPolled /\ Quiet
<1>1. CASE tx' = <<>> /\ UNCHANGED <<udp, dns, icmp>>
  BY <1>1, NothingSent DEF UdpPolled, DnsPolled, IcmpPolled, Quiet, icmp
<1>2. ASSUME NEW f \in inFlight, HandleUdp(f)
      PROVE  UdpPolled /\ DnsPolled /\ IcmpPolled /\ Quiet
  <2> USE <1>2 DEF HandleUdp
  <2>1. Datagram(f)
    BY DEF Datagram
  <2>2. UdpPolled
    BY <2>1 DEF UserDatagram, UdpPolled
  <2>3. DnsPolled
    BY <2>1 DEF DnsResponse, DnsPolled
  <2>4. IcmpPolled /\ Quiet
    BY NothingSent DEF IcmpPolled, icmp, Quiet
  <2> QED
    BY <2>2, <2>3, <2>4
<1>3. ASSUME NEW f \in inFlight, HandleEchoRequest(f)
      PROVE  UdpPolled /\ DnsPolled /\ IcmpPolled /\ Quiet
  <2>1. UdpPolled /\ DnsPolled /\ IcmpPolled
    BY <1>3 DEF HandleEchoRequest, UdpPolled, DnsPolled, IcmpPolled, icmp
  <2>2. f \in EchoRequests
    BY <1>3 DEF HandleEchoRequest, Traceable
  <2>3. [f EXCEPT !.kind = "ECHO_REPLY"].kind = "ECHO_REPLY"
    BY <2>2 DEF EchoRequests
  <2>4. Quiet
    BY <1>3, <2>3, NothingSent, OneSent DEF HandleEchoRequest, Quiet
  <2> QED
    BY <2>1, <2>4
<1>4. ASSUME NEW f \in inFlight, HandleEchoReply(f)
      PROVE  UdpPolled /\ DnsPolled /\ IcmpPolled /\ Quiet
  BY <1>4, NothingSent
  DEF HandleEchoReply, EchoReply, UdpPolled, DnsPolled, IcmpPolled, Quiet
<1> QED
  BY <1>1, <1>2, <1>3, <1>4 DEF Poll

(* A turn of a loop, of a call of this module or of another API.           *)
Turning ==
  \/ call = "none" /\ UNCHANGED <<loops, timeout>>
  \/ /\ loops < max_loops /\ loops' = loops + 1
     /\ \/ call = "udp_receive" /\ ~ udp_rx_done /\ UNCHANGED timeout
        \/ call = "ping" /\ ~ ping_reply_received /\ UNCHANGED timeout
        \/ /\ call = "resolve_hostname" /\ ~ dns_resolved
           /\ timeout > 0 /\ timeout' = timeout - 1

PollTurn ==
  /\ Poll(inFlight) /\ Turning
  /\ UNCHANGED <<call, arg, ms, max_loops, ret, sent, inFlight>>

Returns == UdpReceiveReturn \/ ResolveReturn \/ PingReturn

LEMMA PollTurns ==
  ASSUME Traceable, Stack,
         \/ UdpReceivePoll(inFlight) \/ ResolvePoll(inFlight)
         \/ PingPoll(inFlight) \/ PollElsewhere(inFlight)
  PROVE  PollTurn
<1>1. Poll(inFlight) /\ Turning /\ UNCHANGED <<call, arg, ms, max_loops, ret>>
  BY DEF UdpReceivePoll, ResolvePoll, PingPoll, PollElsewhere, Turn, Turning,
         control
<1>2. {m \in ToSet(tx') : m.kind # "ECHO_REPLY"} = {}
  BY <1>1, PollEffects DEF Quiet
<1>3. UNCHANGED <<sent, inFlight>>
  BY <1>2 DEF Stack
<1> QED
  BY <1>1, <1>3 DEF PollTurn

(* What the stack sends: nothing, or one message.                          *)
Sends(m) == sent' = sent \cup {m} /\ UNCHANGED inFlight
Silent == UNCHANGED <<sent, inFlight>>

LEMMA Transmission ==
  ASSUME Stack
  PROVE  /\ tx' = <<>> => Silent
         /\ \A m : tx' = <<m>> /\ m.kind # "ECHO_REPLY" => Sends(m)
<1>1. tx' = <<>> => Silent
  BY NothingSent DEF Stack, Silent
<1>2. ASSUME NEW m, tx' = <<m>>, m.kind # "ECHO_REPLY"
      PROVE  Sends(m)
  <2>1. ToSet(tx') = {m}
    BY <1>2, OneSent
  <2> QED
    BY <1>2, <2>1 DEF Stack, Sends
<1> QED
  BY <1>1, <1>2

QueryOf(d) == [kind |-> "QUERY", host |-> arg, id |-> d[2], sport |-> d[1]]
RequestOf(p, target) ==
  [kind |-> "ECHO_REQUEST", host |-> target, id |-> p.id, seq |-> p.seq,
   len |-> EchoLen]

SendsDatagram ==
  /\ \E port \in UserPorts :
       UdpSend(port, Service, Greeting.len, Greeting.body)
  /\ \E m : m.kind = "UDP" /\ Sends(m)

Receives ==
  \E b \in Buffer, n \in MaxLen, t \in TimeoutMs :
    UdpReceive(b, n, t) /\ Silent

Resolves == \E h \in Host : ResolveHostname(h) /\ Silent

SendsPing ==
  \E p \in FreshPings, t \in TimeoutMs :
    Ping(p.host, p.id, p.seq, t) /\ Sends(RequestOf(p, p.host))

SendsQuery ==
  \E d \in FreshDraws : DnsQuery(d[1], d[2]) /\ Sends(QueryOf(d))

LEMMA StepCases ==
  ASSUME Traceable, [Next]_vars
  PROVE  \/ UNCHANGED vars \/ Others \/ PollTurn \/ (Returns /\ Silent)
         \/ SendsDatagram \/ Receives \/ Resolves \/ SendsPing \/ SendsQuery
<1>1. CASE Stack /\ Application
  <2>1. ASSUME NEW port \in UserPorts,
               UdpSend(port, Service, Greeting.len, Greeting.body)
        PROVE  SendsDatagram
    <3> DEFINE m == [kind |-> "UDP", sport |-> udp_local_port',
                     dport |-> Service, len |-> Greeting.len,
                     body |-> Greeting.body]
    <3>1. tx' = <<m>> /\ m.kind = "UDP"
      BY <2>1 DEF UdpSend, SendDatagram
    <3>2. Sends(m)
      BY <1>1, <3>1, Transmission
    <3> QED
      BY <2>1, <3>1, <3>2 DEF SendsDatagram
  <2>2. ASSUME NEW b \in Buffer, NEW n \in MaxLen, NEW t \in TimeoutMs,
               UdpReceive(b, n, t)
        PROVE  Receives
    BY <1>1, <2>2, Transmission DEF UdpReceive, Receives
  <2>3. ASSUME NEW h \in Host, ResolveHostname(h)
        PROVE  Resolves
    BY <1>1, <2>3, Transmission DEF ResolveHostname, Resolves
  <2>4. ASSUME NEW p \in FreshPings, NEW t \in TimeoutMs,
               Ping(p.host, p.id, p.seq, t)
        PROVE  SendsPing
    <3>1. tx' = <<RequestOf(p, p.host)>>
      BY <2>4 DEF Ping, SendEcho, RequestOf
    <3>2. RequestOf(p, p.host).kind # "ECHO_REPLY"
      BY DEF RequestOf
    <3>3. Sends(RequestOf(p, p.host))
      BY <1>1, <3>1, <3>2, Transmission
    <3> QED
      BY <2>4, <3>3 DEF SendsPing
  <2> QED
    BY <1>1, <2>1, <2>2, <2>3, <2>4 DEF Application, Call
<1>2. CASE Stack /\ CallStep(inFlight)
  <2>1. CASE Returns
    BY <1>2, <2>1, Transmission
    DEF Returns, UdpReceiveReturn, ResolveReturn, PingReturn, Finish
  <2> QED
    BY <1>2, <2>1, PollTurns DEF CallStep, Returns
<1>3. ASSUME Stack, NEW d \in FreshDraws, DnsQuery(d[1], d[2])
      PROVE  SendsQuery
  <2>1. tx' = <<QueryOf(d)>> /\ QueryOf(d).kind # "ECHO_REPLY"
    BY <1>3 DEF DnsQuery, QueryOf
  <2>2. Sends(QueryOf(d))
    BY <1>3, <2>1, Transmission
  <2> QED
    BY <1>3, <2>2 DEF SendsQuery
<1>4. CASE Stack /\ PollElsewhere(inFlight)
  BY <1>4, PollTurns
<1>5. Stack => \/ Application \/ CallStep(inFlight)
               \/ PollElsewhere(inFlight)
               \/ \E d \in FreshDraws : DnsQuery(d[1], d[2])
  BY DEF Stack, StackStep
<1> QED
  BY <1>1, <1>2, <1>3, <1>4, <1>5 DEF Next

-----------------------------------------------------------------------------
(* Each part of the invariant is preserved.                                *)

LEMMA TurnsType == \A t \in Nat : Turns(t) \in Nat
  BY MessagesAssumption DEF Turns

LEMMA CutType ==
  ASSUME Typed, NEW n \in Nat
  PROVE  CopyLen(n) = Cut(n)
  BY DEF Typed, CopyLen, Cut

LEMMA NextTyped ==
  ASSUME Inv, [Next]_vars
  PROVE  Typed'
<1> USE DEF Inv, Typed
<1>1. CASE UNCHANGED vars
  BY <1>1 DEF vars, messageVars, control, udp
<1>2. CASE Others
  BY <1>2 DEF Others, control, udp
<1>3. CASE PollTurn
  <2>1. udp_rx_max_len' = udp_rx_max_len
    BY <1>3, PollEffects DEF PollTurn, UdpPolled, udp
  <2>2. UNCHANGED <<ms, max_loops>> /\ loops' \in Nat /\ timeout' \in Nat
    BY <1>3 DEF PollTurn, Turning
  <2> QED
    BY <2>1, <2>2
<1>4. CASE Returns
  BY <1>4
  DEF Returns, UdpReceiveReturn, ResolveReturn, PingReturn, Finish, udp
<1>5. CASE SendsDatagram
  BY <1>5 DEF SendsDatagram, UdpSend
<1>6. CASE Receives
  BY <1>6, TurnsType, MessagesAssumption DEF Receives, UdpReceive, Start
<1>7. CASE Resolves
  BY <1>7, MessagesAssumption DEF Resolves, ResolveHostname, Start, udp
<1>8. CASE SendsPing
  BY <1>8, TurnsType, MessagesAssumption DEF SendsPing, Ping, Start, udp
<1>9. CASE SendsQuery
  BY <1>9, MessagesAssumption DEF SendsQuery, DnsQuery, udp
<1> QED
  BY <1>1, <1>2, <1>3, <1>4, <1>5, <1>6, <1>7, <1>8, <1>9, StepCases

LEMMA NextPosted ==
  ASSUME Inv, [Next]_vars
  PROVE  Posted'
<1> USE DEF Inv, Posted
<1>1. CASE UNCHANGED vars
  BY <1>1 DEF vars, messageVars, control, udp
<1>2. CASE Others
  BY <1>2 DEF Others, control, udp
<1>3. CASE PollTurn
  <2>1. call' = call /\ arg' = arg /\ udp_rx_buffer' = udp_rx_buffer
    BY <1>3, PollEffects DEF PollTurn, UdpPolled, udp
  <2>2. (rx_data = [b \in Buffer |-> rx_data[b]])'
    BY <1>3, PollEffects DEF PollTurn, UdpPolled, udp
  <2> QED
    BY <2>1, <2>2
<1>4. CASE Returns
  BY <1>4
  DEF Returns, UdpReceiveReturn, ResolveReturn, PingReturn, Finish, udp
<1>5. CASE SendsDatagram
  BY <1>5 DEF SendsDatagram, UdpSend
<1>6. CASE Receives
  BY <1>6 DEF Receives, UdpReceive, Start
<1>7. CASE Resolves
  BY <1>7 DEF Resolves, ResolveHostname, Start, udp
<1>8. CASE SendsPing
  BY <1>8 DEF SendsPing, Ping, Start, udp
<1>9. CASE SendsQuery
  BY <1>9 DEF SendsQuery, DnsQuery, udp
<1> QED
  BY <1>1, <1>2, <1>3, <1>4, <1>5, <1>6, <1>7, <1>8, <1>9, StepCases

LEMMA NextCounted ==
  ASSUME Inv, [Next]_vars
  PROVE  Counted'
<1> USE DEF Inv, Counted, Typed
<1>1. CASE UNCHANGED vars
  BY <1>1 DEF vars, messageVars, control, Turns
<1>2. CASE Others
  BY <1>2 DEF Others, control, Turns
<1>3. CASE PollTurn
  <2>1. UNCHANGED <<call, ms, max_loops>>
    BY <1>3 DEF PollTurn
  <2>2. call \in {"udp_receive", "ping"} => loops' <= max_loops
    BY <1>3 DEF PollTurn, Turning
  <2> QED
    BY <2>1, <2>2 DEF Turns
<1>4. CASE Returns
  BY <1>4
  DEF Returns, UdpReceiveReturn, ResolveReturn, PingReturn, Finish
<1>5. CASE SendsDatagram
  BY <1>5 DEF SendsDatagram, UdpSend
<1>6. CASE Receives
  <2>1. PICK t \in TimeoutMs : \E b \in Buffer, n \in MaxLen :
          UdpReceive(b, n, t)
    BY <1>6 DEF Receives
  <2>2. ms' = t /\ max_loops' = Turns(t) /\ loops' = 0
    BY <2>1 DEF UdpReceive, Start
  <2>3. Turns(t) \in Nat
    BY TurnsType, MessagesAssumption
  <2> QED
    BY <2>2, <2>3 DEF Turns
<1>7. CASE Resolves
  BY <1>7 DEF Resolves, ResolveHostname, Start
<1>8. CASE SendsPing
  <2>1. PICK t \in TimeoutMs : \E p \in FreshPings :
          Ping(p.host, p.id, p.seq, t)
    BY <1>8 DEF SendsPing
  <2>2. ms' = t /\ max_loops' = Turns(t) /\ loops' = 0
    BY <2>1 DEF Ping, Start
  <2>3. Turns(t) \in Nat
    BY TurnsType, MessagesAssumption
  <2> QED
    BY <2>2, <2>3 DEF Turns
<1>9. CASE SendsQuery
  BY <1>9 DEF SendsQuery, DnsQuery
<1> QED
  BY <1>1, <1>2, <1>3, <1>4, <1>5, <1>6, <1>7, <1>8, <1>9, StepCases

(* Nothing that has been sent is forgotten, and what comes new is fresh.   *)
LEMMA SentGrows ==
  ASSUME Inv, [Next]_vars
  PROVE  sent \subseteq sent' /\ inFlight \subseteq inFlight'
<1>1. CASE Others
  BY <1>1 DEF Others, DnsServer, EchoHost, PingingHost, UdpService
<1> QED
  BY <1>1, StepCases
  DEF Inv, vars, netVars, PollTurn, Silent, Sends, SendsDatagram, Receives,
      Resolves, SendsPing, SendsQuery

LEMMA OneNew ==
  ASSUME Inv, [Next]_vars, NEW m \in sent' \ sent, NEW n \in sent' \ sent
  PROVE  m = n
<1>1. sent' = sent \/ \E x : sent' = sent \cup {x}
  BY StepCases
  DEF Inv, vars, netVars, PollTurn, Silent, Sends, SendsDatagram, Receives,
      Resolves, SendsPing, SendsQuery, Others
<1> QED
  BY <1>1

LEMMA NewQuestion ==
  ASSUME Inv, [Next]_vars, NEW m, Question(m)', ~ Question(m)
  PROVE  \E d \in FreshDraws : m = QueryOf(d) /\ DnsQuery(d[1], d[2])
<1>1. m \in sent' /\ m \notin sent /\ m.kind = "QUERY"
  BY DEF Question
<1>2. CASE SendsPing
  <2>1. PICK p \in FreshPings : Sends(RequestOf(p, p.host))
    BY <1>2 DEF SendsPing
  <2>2. m = RequestOf(p, p.host)
    BY <1>1, <2>1 DEF Sends
  <2> QED
    BY <1>1, <2>2 DEF RequestOf
<1>3. CASE SendsQuery
  BY <1>1, <1>3 DEF SendsQuery, Sends
<1>4. CASE SendsDatagram
  BY <1>1, <1>4 DEF SendsDatagram, Sends
<1> QED
  BY <1>1, <1>2, <1>3, <1>4, StepCases
  DEF Inv, vars, netVars, PollTurn, Silent, Receives, Resolves, Others

LEMMA NewRequest ==
  ASSUME Inv, [Next]_vars, NEW m, Request(m)', ~ Request(m)
  PROVE  \E p \in FreshPings : m = RequestOf(p, p.host)
<1>1. m \in sent' /\ m \notin sent /\ m.kind = "ECHO_REQUEST"
  BY DEF Request
<1>2. CASE SendsPing
  BY <1>1, <1>2 DEF SendsPing, Sends
<1>3. CASE SendsQuery
  <2>1. PICK d \in FreshDraws : Sends(QueryOf(d))
    BY <1>3 DEF SendsQuery
  <2>2. m = QueryOf(d)
    BY <1>1, <2>1 DEF Sends
  <2> QED
    BY <1>1, <2>2 DEF QueryOf
<1>4. CASE SendsDatagram
  BY <1>1, <1>4 DEF SendsDatagram, Sends
<1> QED
  BY <1>1, <1>2, <1>3, <1>4, StepCases
  DEF Inv, vars, netVars, PollTurn, Silent, Receives, Resolves, Others

LEMMA NextUnique ==
  ASSUME Inv, [Next]_vars
  PROVE  Unique'
<1>1. ASSUME NEW p, NEW q, Question(p)', Question(q)',
             p.sport = q.sport, p.id = q.id
      PROVE  p.host = q.host
  <2>1. ASSUME NEW m, NEW n, ~ Question(m), Question(m)', Question(n),
               m.sport = n.sport, m.id = n.id
        PROVE  FALSE
    <3>1. PICK d \in FreshDraws : m = QueryOf(d)
      BY <2>1, NewQuestion
    <3>2. d = <<d[1], d[2]>>
      BY NetworkAssumption DEF FreshDraws
    <3>3. m.sport = d[1] /\ m.id = d[2]
      BY <3>1 DEF QueryOf
    <3>4. d = <<n.sport, n.id>>
      BY <2>1, <3>2, <3>3
    <3> QED
      BY <2>1, <3>4 DEF FreshDraws, Question
  <2>2. CASE ~ Question(p) /\ ~ Question(q)
    BY <1>1, <2>2, OneNew DEF Question
  <2> QED
    BY <1>1, <2>1, <2>2 DEF Inv, Unique
<1>2. ASSUME NEW p, NEW q, Request(p)', Request(q)',
             p.id = q.id, p.seq = q.seq
      PROVE  p.host = q.host
  <2>1. ASSUME NEW m, NEW n, ~ Request(m), Request(m)', Request(n),
               m.id = n.id, m.seq = n.seq
        PROVE  FALSE
    <3>1. PICK r \in FreshPings : m = RequestOf(r, r.host)
      BY <2>1, NewRequest
    <3>2. m.id = r.id /\ m.seq = r.seq
      BY <3>1 DEF RequestOf
    <3> QED
      BY <2>1, <3>2 DEF FreshPings, Request
  <2>2. CASE ~ Request(p) /\ ~ Request(q)
    BY <1>2, <2>2, OneNew DEF Request
  <2> QED
    BY <1>2, <2>1, <2>2 DEF Inv, Unique
<1> QED
  BY <1>1, <1>2 DEF Unique

AnswerTo(q) ==
  [kind |-> "UDP", sport |-> DnsPort, dport |-> q.sport, len |-> DnsLen,
   body |-> [id |-> q.id, response |-> TRUE, answers |-> Zone[q.host]]]

LEMMA NewInFlight ==
  ASSUME Inv, [Next]_vars, NEW m \in inFlight' \ inFlight
  PROVE  \/ \E q : Question(q) /\ m = AnswerTo(q)
         \/ \E q : Request(q) /\ m = [q EXCEPT !.kind = "ECHO_REPLY"]
         \/ m \in Asking
         \/ m.kind = "UDP" /\ m.sport = Service /\ m.len \in Nat
<1>1. Others
  BY StepCases
  DEF Inv, vars, netVars, PollTurn, Silent, Sends, SendsDatagram, Receives,
      Resolves, SendsPing, SendsQuery
<1>2. CASE DnsServer
  BY <1>2 DEF DnsServer, Question, AnswerTo
<1>3. CASE EchoHost
  BY <1>3 DEF EchoHost, Request
<1>4. CASE PingingHost
  BY <1>4 DEF PingingHost
<1>5. CASE UdpService
  BY <1>5, NetworkAssumption DEF UdpService
<1> QED
  BY <1>1, <1>2, <1>3, <1>4, <1>5 DEF Others

LEMMA NextTraceable ==
  ASSUME Inv, [Next]_vars
  PROVE  Traceable'
<1>1. ASSUME NEW m, Request(m)'
      PROVE  m \in EchoRequests
  <2>1. ASSUME NEW p \in FreshPings, m = RequestOf(p, p.host)
        PROVE  m \in EchoRequests
    <3>1. p.host \in Ip /\ p.id \in Nat /\ p.seq \in Nat /\ EchoLen \in Nat
      BY NetworkAssumption, MessagesAssumption DEF FreshPings
    <3> QED
      BY <2>1, <3>1 DEF RequestOf, EchoRequests
  <2> QED
    BY <1>1, <2>1, NewRequest DEF Inv, Traceable
<1>2. ASSUME NEW m \in inFlight', m.kind = "ECHO_REQUEST"
      PROVE  m \in EchoRequests
  <2>1. CASE m \in inFlight
    BY <1>2, <2>1 DEF Inv, Traceable
  <2>2. ASSUME NEW q, Request(q), m = [q EXCEPT !.kind = "ECHO_REPLY"]
        PROVE  FALSE
    BY <1>2, <2>2 DEF Inv, Traceable, EchoRequests
  <2>3. CASE m \in Asking
    BY <2>3, NetworkAssumption DEF EchoRequests
  <2> QED
    BY <1>2, <2>1, <2>2, <2>3, NewInFlight DEF AnswerTo
<1>3. ASSUME NEW m, EchoReply(m)'
      PROVE  \E q : Request(q)' /\ q.id = m.id /\ q.seq = m.seq
                    /\ q.host = m.host
  <2>1. \A q : Request(q) => Request(q)'
    BY SentGrows DEF Request
  <2>2. CASE EchoReply(m)
    BY <2>1, <2>2 DEF Inv, Traceable
  <2>3. ASSUME NEW q, Request(q), m = [q EXCEPT !.kind = "ECHO_REPLY"]
        PROVE  q.id = m.id /\ q.seq = m.seq /\ q.host = m.host
    BY <2>3 DEF Inv, Traceable, EchoRequests
  <2>4. m \notin Asking
    BY <1>3, NetworkAssumption DEF EchoReply
  <2> QED
    BY <1>3, <2>1, <2>2, <2>3, <2>4, NewInFlight DEF EchoReply, AnswerTo
<1>4. ASSUME NEW d, Datagram(d)', ~ Datagram(d)
      PROVE  \/ \E q : Question(q) /\ d = AnswerTo(q)
             \/ d.sport = Service /\ d.len \in Nat
  <2>1. ASSUME NEW q, Request(q), d = [q EXCEPT !.kind = "ECHO_REPLY"]
        PROVE  FALSE
    BY <1>4, <2>1 DEF Inv, Traceable, EchoRequests, Datagram
  <2>2. d \notin Asking
    BY <1>4, NetworkAssumption DEF Datagram
  <2> QED
    BY <1>4, <2>1, <2>2, NewInFlight DEF Datagram
<1>5. ASSUME NEW d, Datagram(d)'
      PROVE  d.len \in Nat
  BY <1>4, <1>5, NetworkAssumption DEF Inv, Traceable, AnswerTo
<1>6. ASSUME NEW d, Datagram(d)', d.sport = DnsPort
      PROVE  \E q : /\ Question(q)' /\ q.sport = d.dport /\ q.id = d.body.id
                    /\ d.body.answers = Zone[q.host]
  <2>1. \A q : Question(q) => Question(q)'
    BY SentGrows DEF Question
  <2>2. CASE Datagram(d)
    BY <1>6, <2>1, <2>2 DEF Inv, Traceable
  <2>3. CASE ~ Datagram(d)
    BY <1>4, <1>6, <2>1, <2>3, NetworkAssumption DEF AnswerTo
  <2> QED
    BY <2>2, <2>3
<1> QED
  BY <1>1, <1>2, <1>3, <1>5, <1>6 DEF Traceable

LEMMA NextAsked ==
  ASSUME Inv, [Next]_vars
  PROVE  Asked'
<1> USE DEF Asked
<1>1. /\ \A q : Question(q) => Question(q)'
      /\ \A q : Request(q) => Request(q)'
  BY SentGrows DEF Question, Request
<1>2. CASE UNCHANGED vars \/ Others
  <2>1. UNCHANGED <<call, arg, timeout, ping_id, ping_seq, dns_current_id,
                    dns_local_port>>
    BY <1>2 DEF vars, messageVars, Others, control, icmp, dns
  <2> QED
    BY <1>1, <2>1 DEF Inv
<1>3. CASE PollTurn
  <2>1. UNCHANGED <<call, arg, ping_id, ping_seq, dns_current_id,
                    dns_local_port>>
    BY <1>3, PollEffects DEF Inv, PollTurn, IcmpPolled, DnsPolled, dns
  <2>2. call = "resolve_hostname" => timeout > 0
    BY <1>3 DEF PollTurn, Turning
  <2> QED
    BY <1>1, <2>1, <2>2 DEF Inv
<1>4. CASE Returns
  BY <1>4
  DEF Returns, UdpReceiveReturn, ResolveReturn, PingReturn, Finish
<1>5. CASE SendsDatagram
  <2>1. call' = "none"
    BY <1>5 DEF SendsDatagram, UdpSend
  <2> QED
    BY <2>1
<1>6. CASE Receives
  BY <1>6 DEF Receives, UdpReceive, Start
<1>7. CASE Resolves
  BY <1>7 DEF Resolves, ResolveHostname, Start
<1>8. CASE SendsPing
  <2>1. PICK p \in FreshPings, t \in TimeoutMs :
          Ping(p.host, p.id, p.seq, t) /\ Sends(RequestOf(p, p.host))
    BY <1>8 DEF SendsPing
  <2>2. call' = "ping" /\ arg' = p.host /\ ping_id' = p.id /\ ping_seq' = p.seq
    BY <2>1 DEF Ping, Start
  <2>3. Request(RequestOf(p, p.host))'
    BY <2>1 DEF Sends, Request, RequestOf
  <2> QED
    BY <2>2, <2>3 DEF RequestOf
<1>9. CASE SendsQuery
  <2>1. PICK d \in FreshDraws :
          DnsQuery(d[1], d[2]) /\ Sends(QueryOf(d))
    BY <1>9 DEF SendsQuery
  <2>2. /\ call' = "resolve_hostname" /\ arg' = arg
        /\ dns_local_port' = d[1] /\ dns_current_id' = d[2]
    BY <2>1 DEF DnsQuery
  <2>3. QueryOf(d) \in sent' /\ QueryOf(d).kind = "QUERY"
    BY <2>1 DEF Sends, QueryOf
  <2> QED
    BY <2>2, <2>3 DEF Question, QueryOf
<1> QED
  BY <1>2, <1>3, <1>4, <1>5, <1>6, <1>7, <1>8, <1>9, StepCases DEF Inv

LEMMA AddressOfAnswer ==
  ASSUME NEW body, NEW host, body.answers = Zone[host]
  PROVE  Head(Records(body)).ip = AddressOf(host)
BY DEF Records, AddressOf

(* A poll that ends a call has brought what the call is waiting for.       *)
LEMMA PollFound ==
  ASSUME Inv, PollTurn
  PROVE  Found'
<1>1. UdpPolled /\ DnsPolled /\ IcmpPolled
  BY PollEffects DEF Inv, PollTurn
<1>2. UNCHANGED <<call, arg, inFlight>>
  BY DEF PollTurn
<1>3. ASSUME call = "ping", ping_reply_received'
      PROVE  \E m : Answer(m)'
  <2>1. PICK m : EchoReply(m) /\ m.id = ping_id /\ m.seq = ping_seq
    BY <1>1, <1>3 DEF PollTurn, Turning, IcmpPolled
  <2>2. PICK p : Request(p) /\ p.id = m.id /\ p.seq = m.seq /\ p.host = m.host
    BY <2>1 DEF Inv, Traceable
  <2>3. PICK q : /\ Request(q) /\ q.host = arg
                 /\ q.id = ping_id /\ q.seq = ping_seq
    BY <1>3 DEF Inv, Asked
  <2>4. m.host = arg
    BY <2>1, <2>2, <2>3 DEF Inv, Unique
  <2>5. Answer(m)
    BY <2>1, <2>4 DEF Answer
  <2> QED
    BY <1>1, <1>2, <2>5 DEF Answer, EchoReply, IcmpPolled
<1>4. ASSUME call = "resolve_hostname", dns_resolved'
      PROVE  dns_resolved_ip' = AddressOf(arg)
  <2>1. PICK d : /\ Datagram(d) /\ AnswersQuery(d)
                 /\ dns_resolved_ip' = Head(Records(d.body)).ip
    BY <1>1, <1>4 DEF PollTurn, Turning, DnsPolled, dns
  <2>2. /\ d.sport = DnsPort /\ d.dport = dns_local_port
        /\ d.body.id = dns_current_id
    BY <2>1 DEF AnswersQuery
  <2>3. PICK p : /\ Question(p) /\ p.sport = d.dport /\ p.id = d.body.id
                 /\ d.body.answers = Zone[p.host]
    BY <2>1, <2>2 DEF Inv, Traceable
  <2>4. PICK q : /\ Question(q) /\ q.host = arg
                 /\ q.id = dns_current_id /\ q.sport = dns_local_port
    BY <1>4 DEF Inv, Asked, PollTurn, Turning
  <2>5. p.host = arg
    BY <2>2, <2>3, <2>4 DEF Inv, Unique
  <2> QED
    BY <2>1, <2>3, <2>5, AddressOfAnswer
<1>5. ASSUME call = "udp_receive", udp_rx_done'
      PROVE  \E d : Received(d)'
  <2>1. PICK d : /\ Datagram(d) /\ d.dport = udp_local_port
                 /\ rx_data' = [rx_data EXCEPT ![udp_rx_buffer] =
                                  [body |-> d.body, len |-> CopyLen(d.len)]]
                 /\ udp_rx_current_len' = CopyLen(d.len)
                 /\ UNCHANGED <<udp_local_port, udp_rx_max_len>>
    BY <1>1, <1>5 DEF PollTurn, Turning, UdpPolled, udp
  <2>2. CopyLen(d.len) = Cut(d.len)
    BY <2>1, CutType DEF Inv, Traceable
  <2>3. arg \in Buffer /\ udp_rx_buffer = arg
        /\ rx_data = [b \in Buffer |-> rx_data[b]]
    BY <1>5 DEF Inv, Posted
  <2>4. rx_data'[arg] = [body |-> d.body, len |-> Cut(d.len)]
    BY <2>1, <2>2, <2>3
  <2>5. Cut(d.len)' = Cut(d.len)
    BY <2>1 DEF Cut
  <2> QED
    BY <1>2, <2>1, <2>2, <2>4, <2>5 DEF Received, Datagram
<1> QED
  BY <1>2, <1>3, <1>4, <1>5 DEF Found

LEMMA NextFound ==
  ASSUME Inv, [Next]_vars
  PROVE  Found'
<1>1. CASE UNCHANGED vars \/ Others \/ SendsQuery
  <2>1. UNCHANGED <<call, arg, udp, icmp, dns_resolved, dns_resolved_ip>>
        /\ inFlight \subseteq inFlight'
    BY <1>1, SentGrows
    DEF vars, messageVars, Others, control, SendsQuery, DnsQuery, dns
  <2>2. \A m : Answer(m) => Answer(m)'
    BY <2>1 DEF Answer, EchoReply, icmp
  <2>3. \A d : Received(d) => Received(d)'
    BY <2>1 DEF Received, Datagram, Cut, udp
  <2> QED
    BY <2>1, <2>2, <2>3 DEF Inv, Found, icmp, udp
<1>2. CASE Returns
  BY <1>2
  DEF Returns, UdpReceiveReturn, ResolveReturn, PingReturn, Finish, Found
<1>3. CASE SendsDatagram
  <2>1. call' = "none"
    BY <1>3 DEF SendsDatagram, UdpSend
  <2> QED
    BY <2>1 DEF Found
<1>4. CASE Receives
  BY <1>4 DEF Receives, UdpReceive, Start, Found
<1>5. CASE Resolves
  BY <1>5 DEF Resolves, ResolveHostname, Start, Found
<1>6. CASE SendsPing
  BY <1>6 DEF SendsPing, Ping, Start, Found
<1> QED
  BY <1>1, <1>2, <1>3, <1>4, <1>5, <1>6, PollFound, StepCases DEF Inv

LEMMA InvariantInv == Spec => []Inv
<1>1. Inv /\ [Next]_vars => Inv'
  BY NextTyped, NextPosted, NextCounted, NextUnique, NextTraceable, NextAsked,
     NextFound
  DEF Inv
<1> QED
  BY InitInv, <1>1, PTL DEF Spec

-----------------------------------------------------------------------------
(* What follows from the invariant for a call that returns.                *)

LEMMA Returning ==
  ASSUME Inv, [Next]_vars, call # "none", call' = "none"
  PROVE  /\ UdpReceiveReturn => call = "udp_receive"
         /\ ResolveReturn => call = "resolve_hostname"
         /\ PingReturn => call = "ping"
         /\ Returns
<1>1. Returns
  BY StepCases
  DEF Inv, vars, messageVars, Others, control, PollTurn, SendsDatagram, UdpSend,
      Receives, UdpReceive, Resolves, ResolveHostname, SendsPing, Ping, Start,
      SendsQuery, DnsQuery
<1> QED
  BY <1>1 DEF UdpReceiveReturn, ResolveReturn, PingReturn

(* An address resolve_hostname returns belongs to the hostname it was      *)
(* asked for: dns_query draws a fresh pair of port and id every time, and  *)
(* handle_udp compares both.                                               *)
THEOREM NameIsResolved == Spec => NameResolved
<1>1. ASSUME Inv, [Next]_vars, Returned("resolve_hostname")
      PROVE  ret'.value = AddressOf(arg)
  <2>1. ResolveReturn
    BY <1>1, Returning DEF Returned, Returns, UdpReceiveReturn, PingReturn
  <2>2. ret'.value = dns_resolved_ip /\ dns_resolved
    BY <1>1, <2>1 DEF ResolveReturn, Finish, Returned
  <2> QED
    BY <1>1, <2>2 DEF Inv, Found, Returned
<1>2. Inv /\ [Next]_vars =>
        [Returned("resolve_hostname") =>
           ret'.value = Head(SelectSeq(Zone[arg],
                                       LAMBDA r : r.type = "A")).ip]_vars
  BY <1>1 DEF AddressOf
<1> QED
  BY <1>2, InvariantInv, PTL DEF Spec, NameResolved

(* A ping that succeeds has been answered by its own target: handle_icmp   *)
(* compares id and sequence number, and no two pings share both.           *)
THEOREM PingIsAnswered == Spec => PingAnswered
<1>1. ASSUME Inv, [Next]_vars, Returned("ping")
      PROVE  \E m \in inFlight : /\ m.kind = "ECHO_REPLY" /\ m.host = arg
                                 /\ m.id = ping_id /\ m.seq = ping_seq
  <2>1. PingReturn
    BY <1>1, Returning DEF Returned, Returns, UdpReceiveReturn, ResolveReturn
  <2>2. ping_reply_received
    BY <1>1, <2>1 DEF PingReturn, Finish, Returned
  <2> QED
    BY <1>1, <2>2 DEF Inv, Found, Returned, Answer, EchoReply
<1>2. Inv /\ [Next]_vars =>
        [Returned("ping") =>
           \E m \in inFlight : /\ m.kind = "ECHO_REPLY" /\ m.host = arg
                               /\ m.id = ping_id /\ m.seq = ping_seq]_vars
  BY <1>1
<1> QED
  BY <1>2, InvariantInv, PTL DEF Spec, PingAnswered

(* udp_receive hands out one datagram, whole or cut at the capacity: the   *)
(* loop ends with the first one that handle_udp copies.                    *)
THEOREM OneDatagramReceived == Spec => ReceivesOneDatagram
<1> DEFINE One ==
      \E d \in {m \in inFlight : m.kind = "UDP"} :
         LET n == IF d.len <= udp_rx_max_len THEN d.len ELSE udp_rx_max_len
         IN  /\ d.dport = udp_local_port
             /\ rx_data[arg] = [body |-> d.body, len |-> n]
             /\ ret'.value = n
<1>1. ASSUME Inv, [Next]_vars, Returned("udp_receive")
      PROVE  One
  <2>1. UdpReceiveReturn
    BY <1>1, Returning DEF Returned, Returns, ResolveReturn, PingReturn
  <2>2. udp_rx_done /\ ret'.value = udp_rx_current_len
    BY <1>1, <2>1 DEF UdpReceiveReturn, Finish, Returned
  <2>3. PICK d : Received(d)
    BY <1>1, <2>2 DEF Inv, Found, Returned
  <2> QED
    BY <2>2, <2>3 DEF Received, Datagram, Cut
<1>2. Inv /\ [Next]_vars => [Returned("udp_receive") => One]_vars
  BY <1>1
<1> QED
  BY <1>2, InvariantInv, PTL DEF Spec, ReceivesOneDatagram

(* No datagram is ever written into a buffer after udp_receive has         *)
(* returned, whichever API polls it.                                       *)
THEOREM BufferIsReturned == Spec => BufferReturned
<1>1. ASSUME Inv, [Next]_vars, rx_data' # rx_data
      PROVE  call' = "udp_receive"
  <2>1. CASE PollTurn
    <3>1. udp_rx_buffer # NULL /\ call' = call
      BY <1>1, <2>1, PollEffects DEF Inv, PollTurn, UdpPolled, udp
    <3> QED
      BY <1>1, <3>1 DEF Inv, Posted
  <2>2. CASE Receives
    BY <2>2 DEF Receives, UdpReceive, Start
  <2> QED
    BY <1>1, <2>1, <2>2, StepCases
    DEF Inv, vars, messageVars, Others, Returns, UdpReceiveReturn,
        ResolveReturn, PingReturn, SendsDatagram, UdpSend, Resolves,
        ResolveHostname, SendsPing, Ping, SendsQuery, DnsQuery, udp
<1>2. Inv /\ [Next]_vars => [rx_data' # rx_data => call' = "udp_receive"]_vars
  BY <1>1
<1> QED
  BY <1>2, InvariantInv, PTL DEF Spec, BufferReturned

(* A receive or a ping that times out has polled for all of timeout_ms.    *)
THEOREM TimeoutIsHonoured == Spec => TimeoutHonoured
<1>1. ASSUME Inv, [Next]_vars,
             call \in {"udp_receive", "ping"}, call' = "none",
             ret'.status = "TIMEOUT", ms * LoopsPerMs < Word
      PROVE  loops = ms * LoopsPerMs
  <2>1. loops >= max_loops
    BY <1>1, Returning
    DEF Returns, UdpReceiveReturn, ResolveReturn, PingReturn, Finish
  <2>2. max_loops = Turns(ms) /\ loops <= max_loops
        /\ ms \in Nat /\ loops \in Nat /\ max_loops \in Nat
    BY <1>1 DEF Inv, Counted, Typed
  <2>3. \A t \in Nat : t < Word => t % Word = t
    BY MessagesAssumption
  <2>4. ms * LoopsPerMs \in Nat
    BY <2>2, MessagesAssumption
  <2>5. Turns(ms) = ms * LoopsPerMs
    BY <1>1, <2>3, <2>4 DEF Turns
  <2> QED
    BY <2>1, <2>2, <2>5
<1>2. Inv /\ [Next]_vars =>
        [/\ call \in {"udp_receive", "ping"} /\ call' = "none"
         /\ ret'.status = "TIMEOUT" /\ ms * LoopsPerMs < Word
         => loops = ms * LoopsPerMs]_vars
  BY <1>1
<1> QED
  BY <1>2, InvariantInv, PTL DEF Spec, TimeoutHonoured

-----------------------------------------------------------------------------
(* The refinements of BlockingCall.                                        *)

Op == {"resolve_hostname", "udp_receive", "ping"}

(* What a call waits for has come.                                         *)
Event(op) ==
  /\ call = op
  /\ \/ op = "resolve_hostname" /\ dns_resolved
     \/ op = "udp_receive" /\ udp_rx_done
     \/ op = "ping" /\ ping_reply_received

CallStarts(op) ==
  /\ call = "none" /\ call' \in Op /\ ret' = ret
  /\ ~ Event(op)'

CallGoesOn(op) == UNCHANGED <<call, ret>> /\ (Event(op) => Event(op)')

CallReturns(op) ==
  /\ call \in Op /\ call' = "none" /\ ret'.op = call
  /\ call = op => ret'.status = IF Event(op) THEN "SUCCESS" ELSE "TIMEOUT"

OtherReturns == call = "none" /\ call' = "none" /\ ret'.op = "udp_send"

LEMMA CallSteps ==
  ASSUME Inv, [Next]_vars, NEW op \in Op
  PROVE  CallStarts(op) \/ CallGoesOn(op) \/ CallReturns(op) \/ OtherReturns
<1> USE DEF Op
<1>1. CASE UNCHANGED vars \/ Others
  <2>1. UNCHANGED <<call, ret, dns_resolved, udp_rx_done, ping_reply_received>>
    BY <1>1 DEF vars, messageVars, Others, control, udp, dns, icmp
  <2> QED
    BY <2>1 DEF CallGoesOn, Event
<1>2. CASE PollTurn
  <2>1. UNCHANGED <<call, ret>> /\ ~ Event(op)
    BY <1>2 DEF PollTurn, Turning, Event
  <2> QED
    BY <2>1 DEF CallGoesOn
<1>3. CASE Returns
  BY <1>3
  DEF Returns, UdpReceiveReturn, ResolveReturn, PingReturn, Finish,
      CallReturns, Event
<1>4. CASE SendsDatagram
  BY <1>4 DEF SendsDatagram, UdpSend, OtherReturns
<1>5. CASE Receives
  BY <1>5 DEF Receives, UdpReceive, Start, CallStarts, Event
<1>6. CASE Resolves
  BY <1>6 DEF Resolves, ResolveHostname, Start, CallStarts, Event
<1>7. CASE SendsPing
  BY <1>7 DEF SendsPing, Ping, Start, CallStarts, Event
<1>8. CASE SendsQuery
  BY <1>8 DEF SendsQuery, DnsQuery, CallGoesOn, Event
<1> QED
  BY <1>1, <1>2, <1>3, <1>4, <1>5, <1>6, <1>7, <1>8, StepCases DEF Inv

(* resolve_hostname implements the safety of BlockingCall: an answer left  *)
(* over from an earlier call never ends it.                                *)
THEOREM ResolveImplementsCall == Spec => ResolveCall!SafetySpec
<1>1. Init => ResolveCall!Init
  BY DEF Init, MessagesInit, ResolveCall!Init, ResultOf
<1>2. Inv /\ [Next]_vars => [ResolveCall!Next]_(ResolveCall!callVars)
  <2> SUFFICES ASSUME Inv, [Next]_vars
               PROVE  [ResolveCall!Next]_(ResolveCall!callVars)
    OBVIOUS
  <2> USE DEF ResolveCall!Next, ResolveCall!callVars, ResultOf, Op
  <2>1. CASE CallStarts("resolve_hostname")
    BY <2>1 DEF CallStarts, Event, ResolveCall!Start
  <2>2. CASE CallGoesOn("resolve_hostname")
    BY <2>2 DEF CallGoesOn, Event, ResolveCall!Arrive
  <2>3. CASE CallReturns("resolve_hostname")
    BY <2>3 DEF CallReturns, Event, ResolveCall!Return, ResolveCall!Forget
  <2>4. CASE OtherReturns
    BY <2>4 DEF OtherReturns, ResolveCall!Forget
  <2> QED
    BY <2>1, <2>2, <2>3, <2>4, CallSteps
<1> QED
  BY <1>1, <1>2, InvariantInv, PTL DEF Spec, ResolveCall!SafetySpec

(* udp_receive implements the safety of BlockingCall: a datagram handled   *)
(* before the call never ends it.                                          *)
THEOREM UdpImplementsCall == Spec => UdpCall!SafetySpec
<1>1. Init => UdpCall!Init
  BY DEF Init, MessagesInit, UdpCall!Init, ResultOf
<1>2. Inv /\ [Next]_vars => [UdpCall!Next]_(UdpCall!callVars)
  <2> SUFFICES ASSUME Inv, [Next]_vars
               PROVE  [UdpCall!Next]_(UdpCall!callVars)
    OBVIOUS
  <2> USE DEF UdpCall!Next, UdpCall!callVars, ResultOf, Op
  <2>1. CASE CallStarts("udp_receive")
    BY <2>1 DEF CallStarts, Event, UdpCall!Start
  <2>2. CASE CallGoesOn("udp_receive")
    BY <2>2 DEF CallGoesOn, Event, UdpCall!Arrive
  <2>3. CASE CallReturns("udp_receive")
    BY <2>3 DEF CallReturns, Event, UdpCall!Return, UdpCall!Forget
  <2>4. CASE OtherReturns
    BY <2>4 DEF OtherReturns, UdpCall!Forget
  <2> QED
    BY <2>1, <2>2, <2>3, <2>4, CallSteps
<1> QED
  BY <1>1, <1>2, InvariantInv, PTL DEF Spec, UdpCall!SafetySpec

(* ping implements the safety of BlockingCall: a reply handled before the  *)
(* call never ends it.                                                     *)
THEOREM PingImplementsCall == Spec => PingCall!SafetySpec
<1>1. Init => PingCall!Init
  BY DEF Init, MessagesInit, PingCall!Init, ResultOf
<1>2. Inv /\ [Next]_vars => [PingCall!Next]_(PingCall!callVars)
  <2> SUFFICES ASSUME Inv, [Next]_vars
               PROVE  [PingCall!Next]_(PingCall!callVars)
    OBVIOUS
  <2> USE DEF PingCall!Next, PingCall!callVars, ResultOf, Op
  <2>1. CASE CallStarts("ping")
    BY <2>1 DEF CallStarts, Event, PingCall!Start
  <2>2. CASE CallGoesOn("ping")
    BY <2>2 DEF CallGoesOn, Event, PingCall!Arrive
  <2>3. CASE CallReturns("ping")
    BY <2>3 DEF CallReturns, Event, PingCall!Return, PingCall!Forget
  <2>4. CASE OtherReturns
    BY <2>4 DEF OtherReturns, PingCall!Forget
  <2> QED
    BY <2>1, <2>2, <2>3, <2>4, CallSteps
<1> QED
  BY <1>1, <1>2, InvariantInv, PTL DEF Spec, PingCall!SafetySpec

=============================================================================
