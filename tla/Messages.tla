------------------------------- MODULE Messages -------------------------------
(***************************************************************************)
(* The connectionless half of the stack: api::udp_send and udp_receive,    *)
(* resolve_hostname and ping, with core::handle_udp, core::handle_icmp and *)
(* protocols::dns_query.                                                   *)
(*                                                                         *)
(* As in TcpClient a step runs from one read of the NIC to the next, and   *)
(* which frames can arrive is a parameter of every action that polls.      *)
(***************************************************************************)
EXTENDS Integers, Sequences

CONSTANTS
  Port,         (* Ephemeral ports rng::get_ephemeral_port can return.     *)
  DnsPort,      (* 53.                                                     *)
  Word16,       (* 16-bit identifiers drawn for DNS and ping.              *)
  Host,         (* Hostnames.                                              *)
  Ip,           (* IPv4 addresses.                                         *)
  NoIp,         (* The address 0.                                          *)
  Buffer,       (* Receive buffers of the application.                     *)
  NULL,         (* nullptr.                                                *)
  Nothing,      (* The content of a buffer no datagram was copied to.      *)
  MaxLen,       (* Capacities the application gives its receive buffers.   *)
  TimeoutMs,    (* Timeouts the application passes.                        *)
  LoopsPerMs,   (* Turns of a receive loop per millisecond: 10.            *)
  Word,         (* Modulus of a UINT32.                                    *)
  Retransmit,   (* TIMEOUT_RETRANSMIT.                                     *)
  MaxLoops,     (* TIMEOUT_TCP_LOOPS, which resolve_hostname uses too.     *)
  EchoLen,      (* Payload of the echo requests the stack sends: 32.       *)
  EchoMax       (* Longest echo payload that still fits a frame.           *)

ASSUME MessagesAssumption ==
  /\ Port \subseteq Nat \ {0}
  /\ DnsPort \in Nat
  /\ Word16 \subseteq Nat /\ 0 \in Word16
  /\ NoIp \notin Ip
  /\ NULL \notin Buffer
  /\ MaxLen \subseteq Nat
  /\ TimeoutMs \subseteq Nat
  /\ LoopsPerMs \in Nat
  /\ Word \in Nat \ {0}
  /\ Retransmit \in Nat \ {0}
  /\ MaxLoops \in Nat
  /\ EchoLen \in Nat /\ EchoMax \in Nat

VARIABLES
  udp_local_port,                (* 0 before the first udp_send.           *)
  udp_rx_buffer, udp_rx_max_len, udp_rx_current_len, udp_rx_done,
  rx_data,                       (* What was copied into each buffer:      *)
                                 (* a body and the length of the copy.     *)
  dns_current_id, dns_local_port, dns_resolved_ip, dns_resolved,
  ping_id, ping_seq, ping_reply_received,
  call,                          (* The API call in progress.              *)
  arg,                           (* Its argument: hostname or address.     *)
  ms,                            (* Its timeout_ms.                        *)
  loops, max_loops, timeout,
  ret,                           (* What the latest finished call returned *)
  tx                             (* Messages the latest step transmitted.  *)

udp == <<udp_local_port, udp_rx_buffer, udp_rx_max_len, udp_rx_current_len,
         udp_rx_done, rx_data>>
dns == <<dns_current_id, dns_local_port, dns_resolved_ip, dns_resolved>>
icmp == <<ping_id, ping_seq, ping_reply_received>>
control == <<call, arg, ms, loops, max_loops, timeout, ret>>
messageVars == <<udp, dns, icmp, control, tx>>

(* A datagram is [kind |-> "UDP", sport, dport, len, body]; the body, read *)
(* as a DNS message, has an id, a response bit and a sequence of answers   *)
(* [type, ip].  An echo message is [kind, id, seq, len, host], with the    *)
(* other end as host.                                                      *)
Records(body) == SelectSeq(body.answers, LAMBDA r : r.type = "A")

-----------------------------------------------------------------------------
(* core::handle_udp.  Its two halves do not exclude each other.            *)

(* Faulty variant: the copy is not cut at the capacity.                    *)
CopyLenUncut(len) == len

(* A datagram for the user's port is copied, as far as it fits, while a    *)
(* buffer is posted.                                                       *)
CopyLen(len) == IF len > udp_rx_max_len THEN udp_rx_max_len ELSE len

UserDatagram(d) ==
  IF /\ d.dport = udp_local_port /\ udp_local_port # 0
     /\ d.len > 0 /\ udp_rx_buffer # NULL
  THEN /\ rx_data' = [rx_data EXCEPT ![udp_rx_buffer] =
                        [body |-> d.body, len |-> CopyLen(d.len)]]
       /\ udp_rx_current_len' = CopyLen(d.len)
       /\ udp_rx_done' = TRUE
       /\ UNCHANGED <<udp_local_port, udp_rx_buffer, udp_rx_max_len>>
  ELSE UNCHANGED udp

(* Faulty variant: the id is not compared.                                 *)
AnswersQueryAnyId(d) ==
  /\ d.dport = dns_local_port /\ dns_local_port # 0
  /\ d.sport = DnsPort
  /\ d.body.response

(* The response to the query in progress: right ports, right id.           *)
AnswersQuery(d) ==
  /\ d.dport = dns_local_port /\ dns_local_port # 0
  /\ d.sport = DnsPort
  /\ d.body.id = dns_current_id
  /\ d.body.response

(* The first A record among the answers counts; if there is none the       *)
(* response is passed over.                                                *)
DnsResponse(d) ==
  IF AnswersQuery(d) /\ Records(d.body) # <<>>
  THEN /\ dns_resolved_ip' = Head(Records(d.body)).ip
       /\ dns_resolved' = TRUE
       /\ UNCHANGED <<dns_current_id, dns_local_port>>
  ELSE UNCHANGED dns

HandleUdp(d) ==
  /\ d.kind = "UDP"
  /\ UserDatagram(d)
  /\ DnsResponse(d)
  /\ tx' = <<>>
  /\ UNCHANGED icmp

-----------------------------------------------------------------------------
(* core::handle_icmp                                                       *)

HandleEchoRequest(m) ==
  /\ m.kind = "ECHO_REQUEST"
  /\ tx' = IF m.len > EchoMax THEN <<>>
           ELSE <<[m EXCEPT !.kind = "ECHO_REPLY"]>>
  /\ UNCHANGED <<udp, dns, icmp>>

(* Faulty variant: the sequence number is not compared.                    *)
HandleEchoReplyAnySeq(m) ==
  /\ m.kind = "ECHO_REPLY"
  /\ ping_reply_received' = (ping_reply_received \/ m.id = ping_id)
  /\ tx' = <<>>
  /\ UNCHANGED <<udp, dns, ping_id, ping_seq>>

HandleEchoReply(m) ==
  /\ m.kind = "ECHO_REPLY"
  /\ ping_reply_received' =
       (ping_reply_received \/ (m.id = ping_id /\ m.seq = ping_seq))
  /\ tx' = <<>>
  /\ UNCHANGED <<udp, dns, ping_id, ping_seq>>

(* core::poll: no frame, another protocol's, or one of the frames.         *)
Poll(frames) ==
  \/ tx' = <<>> /\ UNCHANGED <<udp, dns, icmp>>
  \/ \E f \in frames :
       HandleUdp(f) \/ HandleEchoRequest(f) \/ HandleEchoReply(f)

-----------------------------------------------------------------------------
(* What the calls have in common: they start, take turns and return.       *)

Start(op, argument, timeout_ms, turns) ==
  /\ call = "none"
  /\ call' = op
  /\ arg' = argument
  /\ ms' = timeout_ms
  /\ loops' = 0
  /\ max_loops' = turns
  /\ UNCHANGED ret

(* Faulty variant: the turns are not counted.                              *)
TurnUncounted(frames) ==
  /\ loops < max_loops
  /\ Poll(frames)
  /\ UNCHANGED <<call, arg, ms, loops, max_loops, ret>>

Turn(frames) ==
  /\ loops < max_loops
  /\ Poll(frames)
  /\ loops' = loops + 1
  /\ UNCHANGED <<call, arg, ms, max_loops, ret>>

Finish(done, value) ==
  /\ done \/ loops >= max_loops
  /\ ret' = [op |-> call, status |-> IF done THEN "SUCCESS" ELSE "TIMEOUT",
             value |-> value]
  /\ call' = "none"
  /\ tx' = <<>>
  /\ UNCHANGED <<arg, ms, loops, max_loops, timeout, dns, icmp>>

(* Faulty variant: a turn is taken for a millisecond.                      *)
TurnsOfMs(timeout_ms) == timeout_ms % Word

(* The loop bound of udp_receive and ping.                                 *)
Turns(timeout_ms) == (timeout_ms * LoopsPerMs) % Word

-----------------------------------------------------------------------------
(* api::udp_send and udp_receive                                           *)

(* core::send_udp                                                          *)
SendDatagram(sport, dport, len, body) ==
  [kind |-> "UDP", sport |-> sport, dport |-> dport, len |-> len,
   body |-> body]

UdpSend(port, dport, len, body) ==
  /\ call = "none"
  /\ udp_local_port' = IF udp_local_port = 0 THEN port ELSE udp_local_port
  /\ tx' = <<SendDatagram(udp_local_port', dport, len, body)>>
  /\ ret' = [op |-> "udp_send", status |-> "SUCCESS", value |-> 0]
  /\ UNCHANGED <<udp_rx_buffer, udp_rx_max_len, udp_rx_current_len,
                 udp_rx_done, rx_data, dns, icmp, call, arg, ms, loops,
                 max_loops, timeout>>

(* Faulty variant: the completion of the previous call is left behind.     *)
UdpReceiveKeepsDone(buffer, max_len, timeout_ms) ==
  /\ Start("udp_receive", buffer, timeout_ms, Turns(timeout_ms))
  /\ udp_rx_buffer' = buffer
  /\ udp_rx_max_len' = max_len
  /\ udp_rx_current_len' = 0
  /\ rx_data' = [rx_data EXCEPT ![buffer] = Nothing]
  /\ tx' = <<>>
  /\ UNCHANGED <<udp_local_port, udp_rx_done, dns, icmp, timeout>>

UdpReceive(buffer, max_len, timeout_ms) ==
  /\ Start("udp_receive", buffer, timeout_ms, Turns(timeout_ms))
  /\ udp_rx_buffer' = buffer
  /\ udp_rx_max_len' = max_len
  /\ udp_rx_current_len' = 0
  /\ udp_rx_done' = FALSE
  /\ rx_data' = [rx_data EXCEPT ![buffer] = Nothing]
  /\ tx' = <<>>
  /\ UNCHANGED <<udp_local_port, dns, icmp, timeout>>

UdpReceivePoll(frames) ==
  /\ call = "udp_receive" /\ ~ udp_rx_done
  /\ Turn(frames)
  /\ UNCHANGED timeout

(* Faulty variant: the buffer stays posted.                                *)
UdpReceiveReturnKeepsBuffer ==
  /\ call = "udp_receive"
  /\ Finish(udp_rx_done, udp_rx_current_len)
  /\ UNCHANGED udp

UdpReceiveReturn ==
  /\ call = "udp_receive"
  /\ Finish(udp_rx_done, udp_rx_current_len)
  /\ udp_rx_buffer' = NULL
  /\ UNCHANGED <<udp_local_port, udp_rx_max_len, udp_rx_current_len,
                 udp_rx_done, rx_data>>

-----------------------------------------------------------------------------
(* api::resolve_hostname                                                   *)

(* Faulty variant: the answer to the previous call is left behind.         *)
ResolveHostnameKeepsAnswer(host) ==
  /\ Start("resolve_hostname", host, 0, MaxLoops)
  /\ timeout' = 0
  /\ tx' = <<>>
  /\ UNCHANGED <<dns, udp, icmp>>

ResolveHostname(host) ==
  /\ Start("resolve_hostname", host, 0, MaxLoops)
  /\ dns_resolved' = FALSE
  /\ dns_resolved_ip' = NoIp
  /\ timeout' = 0
  /\ tx' = <<>>
  /\ UNCHANGED <<dns_current_id, dns_local_port, udp, icmp>>

(* protocols::dns_query: every repetition draws a new port and a new id.   *)
DnsQuery(port, id) ==
  /\ call = "resolve_hostname" /\ ~ dns_resolved
  /\ loops < max_loops
  /\ timeout = 0
  /\ dns_local_port' = port
  /\ dns_current_id' = id
  /\ tx' = <<[kind |-> "QUERY", host |-> arg, id |-> id, sport |-> port]>>
  /\ timeout' = Retransmit
  /\ UNCHANGED <<dns_resolved, dns_resolved_ip, udp, icmp, call, arg, ms,
                 loops, max_loops, ret>>

ResolvePoll(frames) ==
  /\ call = "resolve_hostname" /\ ~ dns_resolved
  /\ timeout > 0
  /\ Turn(frames)
  /\ timeout' = timeout - 1

ResolveReturn ==
  /\ call = "resolve_hostname"
  /\ Finish(dns_resolved, dns_resolved_ip)
  /\ UNCHANGED udp

-----------------------------------------------------------------------------
(* api::ping                                                               *)

(* core::send_icmp_echo                                                    *)
SendEcho(target, id, seq) ==
  [kind |-> "ECHO_REQUEST", host |-> target, id |-> id, seq |-> seq,
   len |-> EchoLen]

(* Faulty variant: the reply to the previous call is left behind.          *)
PingKeepsReply(target, id, seq, timeout_ms) ==
  /\ Start("ping", target, timeout_ms, Turns(timeout_ms))
  /\ ping_id' = id
  /\ ping_seq' = seq
  /\ tx' = <<SendEcho(target, id, seq)>>
  /\ UNCHANGED <<udp, dns, ping_reply_received, timeout>>

Ping(target, id, seq, timeout_ms) ==
  /\ Start("ping", target, timeout_ms, Turns(timeout_ms))
  /\ ping_id' = id
  /\ ping_seq' = seq
  /\ ping_reply_received' = FALSE
  /\ tx' = <<SendEcho(target, id, seq)>>
  /\ UNCHANGED <<udp, dns, timeout>>

PingPoll(frames) ==
  /\ call = "ping" /\ ~ ping_reply_received
  /\ Turn(frames)
  /\ UNCHANGED timeout

PingReturn ==
  /\ call = "ping"
  /\ Finish(ping_reply_received, 0)
  /\ UNCHANGED udp

-----------------------------------------------------------------------------
(* A turn of the loop of tcp_connect, tcp_receive, tcp_close or of the     *)
(* resolution of the gateway.                                              *)
PollElsewhere(frames) ==
  /\ call = "none"
  /\ Poll(frames)
  /\ UNCHANGED control

CallStep(frames) ==
  \/ UdpReceivePoll(frames)
  \/ UdpReceiveReturn
  \/ ResolvePoll(frames)
  \/ ResolveReturn
  \/ PingPoll(frames)
  \/ PingReturn

MessagesInit ==
  /\ udp_local_port = 0 /\ udp_rx_buffer = NULL /\ udp_rx_max_len = 0
  /\ udp_rx_current_len = 0 /\ udp_rx_done = FALSE
  /\ rx_data = [b \in Buffer |-> Nothing]
  /\ dns_current_id = 0 /\ dns_local_port = 0
  /\ dns_resolved_ip = NoIp /\ dns_resolved = FALSE
  /\ ping_id = 0 /\ ping_seq = 0 /\ ping_reply_received = FALSE
  /\ call = "none" /\ arg = NULL /\ ms = 0
  /\ loops = 0 /\ max_loops = 0 /\ timeout = 0
  /\ ret = [op |-> "none", status |-> "SUCCESS", value |-> 0]
  /\ tx = <<>>

=============================================================================
