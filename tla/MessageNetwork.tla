---------------------------- MODULE MessageNetwork ----------------------------
(***************************************************************************)
(* Messages on a network with a DNS server, hosts that answer and send     *)
(* echo requests and a UDP service, all outside the repository.  What they *)
(* send may be lost, delayed, repeated and overtaken.                      *)
(***************************************************************************)
EXTENDS Messages, FiniteSets, SequencesExt

CONSTANTS
  Zone,          (* Zone[h]: the answer records of hostname h.             *)
  DnsLen,        (* Length of a DNS response.                              *)
  Service,       (* Port of the UDP service.                               *)
  Greeting,      (* What the application sends it: [len, body].            *)
  Datagrams,     (* What it sends: [len, body].                            *)
  Asking,        (* Echo requests the hosts may send.                      *)
  Draws,         (* Ports and ids of DNS queries: pairs <<port, id>>.      *)
  UserPorts,     (* Ports udp_send may draw.                               *)
  Pings,         (* Pings: [host, id, seq], the latter two drawn.          *)
  MaxCalls       (* Bound on the calls the application makes.              *)

ASSUME NetworkAssumption ==
  /\ DnsLen \in Nat \ {0}
  /\ Draws \subseteq Port \X Word16
  /\ UserPorts \subseteq Port
  /\ Pings \subseteq [host : Ip, id : Word16, seq : Word16]
  /\ Asking \subseteq [kind : {"ECHO_REQUEST"}, host : Ip, id : Nat,
                       seq : Nat, len : Nat]
  /\ Service \in Nat \ {DnsPort}
  /\ \A d \in Datagrams : d.len \in Nat
  /\ MaxCalls \in Nat

VARIABLES
  sent,          (* Everything the stack has transmitted.                  *)
  inFlight,      (* Everything the others have.                            *)
  calls          (* Calls made so far.                                     *)

netVars == <<sent, inFlight, calls>>
vars == <<messageVars, netVars>>

(* Ports, ids and sequence numbers are random; a combination is assumed    *)
(* not to come up again while answers to its first use may still travel.   *)
FreshDraws ==
  Draws \ {<<q.sport, q.id>> : q \in {m \in sent : m.kind = "QUERY"}}
FreshPings ==
  {p \in Pings : \A m \in sent : m.kind = "ECHO_REQUEST" =>
                   <<m.id, m.seq>> # <<p.id, p.seq>>}

(* Queries one call may need.                                              *)
QueriesPerCall == (MaxLoops + Retransmit - 1) \div Retransmit

-----------------------------------------------------------------------------
(* The others (external).                                                  *)

DnsServer ==
  \E q \in sent :
    /\ q.kind = "QUERY"
    /\ inFlight' = inFlight \cup
         {[kind |-> "UDP", sport |-> DnsPort, dport |-> q.sport,
           len |-> DnsLen,
           body |-> [id |-> q.id, response |-> TRUE,
                     answers |-> Zone[q.host]]]}

EchoHost ==
  \E m \in sent :
    /\ m.kind = "ECHO_REQUEST"
    /\ inFlight' = inFlight \cup {[m EXCEPT !.kind = "ECHO_REPLY"]}

(* One such request is enough: it may be delivered again and again.        *)
PingingHost ==
  /\ inFlight \cap Asking = {}
  /\ \E m \in Asking : inFlight' = inFlight \cup {m}

UdpService ==
  \E m \in sent, d \in Datagrams :
    /\ m.kind = "UDP" /\ m.dport = Service
    /\ inFlight' = inFlight \cup
         {[kind |-> "UDP", sport |-> Service, dport |-> m.sport,
           len |-> d.len, body |-> d.body]}

Others ==
  /\ DnsServer \/ EchoHost \/ PingingHost \/ UdpService
  /\ tx' = <<>>
  /\ UNCHANGED <<udp, dns, icmp, control, sent, calls>>

-----------------------------------------------------------------------------
(* The application and the stack.                                          *)

Call ==
  \/ \E port \in UserPorts : UdpSend(port, Service, Greeting.len, Greeting.body)
  \/ \E b \in Buffer, n \in MaxLen, t \in TimeoutMs : UdpReceive(b, n, t)
  \/ Cardinality(FreshDraws) >= QueriesPerCall
       /\ \E h \in Host : ResolveHostname(h)
  \/ \E p \in FreshPings, t \in TimeoutMs : Ping(p.host, p.id, p.seq, t)

Application == Call /\ calls < MaxCalls /\ calls' = calls + 1

StackStep ==
  \/ CallStep(inFlight)
  \/ \E d \in FreshDraws : DnsQuery(d[1], d[2])

Stack ==
  /\ \/ Application
     \/ (StackStep \/ PollElsewhere(inFlight)) /\ UNCHANGED calls
  /\ sent' = sent \cup {m \in ToSet(tx') : m.kind # "ECHO_REPLY"}
  /\ UNCHANGED inFlight

Init == MessagesInit /\ sent = {} /\ inFlight = {} /\ calls = 0

Next == Stack \/ Others

(* The processor keeps running the call it is in.                          *)
Spec == Init /\ [][Next]_vars /\ WF_vars(StackStep /\ Stack)

-----------------------------------------------------------------------------
(* Properties.                                                             *)

Returned(op) == call = op /\ call' = "none" /\ ret'.status = "SUCCESS"

(* An address resolve_hostname returns is the first A record of the very   *)
(* hostname it was asked for, whatever answers to earlier or repeated      *)
(* queries arrive, and in whatever order.                                  *)
NameResolved ==
  [][Returned("resolve_hostname") =>
       ret'.value = Head(SelectSeq(Zone[arg], LAMBDA r : r.type = "A")).ip]_vars

(* A ping succeeds only if its target has answered this very request.      *)
PingAnswered ==
  [][Returned("ping") =>
       \E m \in inFlight : /\ m.kind = "ECHO_REPLY" /\ m.host = arg
                           /\ m.id = ping_id /\ m.seq = ping_seq]_vars

(* What udp_receive hands out is one datagram to the user's port, whole or *)
(* cut at the capacity, and its length.                                    *)
ReceivesOneDatagram ==
  [][Returned("udp_receive") =>
       \E d \in {m \in inFlight : m.kind = "UDP"} :
         LET n == IF d.len <= udp_rx_max_len THEN d.len ELSE udp_rx_max_len
         IN  /\ d.dport = udp_local_port
             /\ rx_data[arg] = [body |-> d.body, len |-> n]
             /\ ret'.value = n]_vars

(* A buffer given to udp_receive is the application's again afterwards.    *)
BufferReturned ==
  [][rx_data' # rx_data => call' = "udp_receive"]_vars

(* A call that times out has polled for all of timeout_ms (api.hpp:498,    *)
(* api.hpp:530), however many frames for others it has handled meanwhile,  *)
(* as long as the number of turns fits its 32 bits.                        *)
TimeoutHonoured ==
  [][/\ call \in {"udp_receive", "ping"} /\ call' = "none"
     /\ ret'.status = "TIMEOUT" /\ ms * LoopsPerMs < Word
     => loops = ms * LoopsPerMs]_vars

ResultOf(op) == IF ret.op = op THEN ret.status ELSE "none"

ResolveCall == INSTANCE BlockingCall WITH
  waiting <- (call = "resolve_hostname"),
  arrived <- (call = "resolve_hostname" /\ dns_resolved),
  result <- ResultOf("resolve_hostname")

UdpCall == INSTANCE BlockingCall WITH
  waiting <- (call = "udp_receive"),
  arrived <- (call = "udp_receive" /\ udp_rx_done),
  result <- ResultOf("udp_receive")

PingCall == INSTANCE BlockingCall WITH
  waiting <- (call = "ping"),
  arrived <- (call = "ping" /\ ping_reply_received),
  result <- ResultOf("ping")

(* resolve_hostname, udp_receive and ping succeed exactly when what they   *)
(* wait for has come during the call itself: nothing left over from an     *)
(* earlier call, and nothing polled in between, counts.                    *)
ResolveIsBlockingCall == ResolveCall!Spec
UdpIsBlockingCall == UdpCall!Spec
PingIsBlockingCall == PingCall!Spec

=============================================================================
