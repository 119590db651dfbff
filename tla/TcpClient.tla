------------------------------ MODULE TcpClient ------------------------------
(***************************************************************************)
(* The TCP session of the stack: the globals of globals.hpp, the segment   *)
(* handler core::handle_tcp and the four blocking calls api::tcp_connect,  *)
(* tcp_send, tcp_receive and tcp_close.                                    *)
(*                                                                         *)
(* The program is single threaded.  The world changes under it only where  *)
(* core::poll takes a frame from the NIC, so one step of this module runs  *)
(* from one such point to the next: the body of a call up to its loop, one *)
(* turn of the loop, or the code after the loop.                           *)
(*                                                                         *)
(* Which segments can arrive is a parameter of every action that polls.    *)
(* Spec lets any segment of Segment arrive at any time; TcpSession         *)
(* restricts that to what a peer and a network really produce.             *)
(***************************************************************************)
EXTENDS Integers, Sequences

CONSTANTS
  Port,         (* Ephemeral ports rng::get_ephemeral_port can return.     *)
  Word,         (* Modulus of a UINT32: 2^32 in the program.               *)
  Byte,         (* Values of a payload byte.                               *)
  Segment,      (* Segments that may arrive.                               *)
  Payload,      (* Payloads the application may hand to tcp_send.          *)
  ISN,          (* Initial sequence numbers rng::get_u32 can return.       *)
  Buffer,       (* Receive buffers of the application.                     *)
  NULL,         (* nullptr.                                                *)
  MaxLen,       (* Capacities the application gives its receive buffers.   *)
  TimeoutMs,    (* Timeouts the application passes to tcp_receive.         *)
  LoopsPerMs,   (* Turns of the receive loop per millisecond: 10.          *)
  Retransmit,   (* TIMEOUT_RETRANSMIT.                                     *)
  MaxLoops,     (* TIMEOUT_TCP_LOOPS.                                      *)
  CloseLoops    (* TIMEOUT_CLOSE_LOOPS.                                    *)

Flag == {"FIN", "SYN", "RST", "PSH", "ACK"}

(* A segment in either direction; port is the client's port.               *)
SegmentType ==
  [port : Port, flags : SUBSET Flag, seq : 0 .. Word - 1,
   ack : 0 .. Word - 1, data : Seq(Byte)]

ASSUME TcpAssumption ==
  /\ Port \subseteq Nat \ {0}
  /\ Word \in Nat \ {0}
  /\ Segment \subseteq SegmentType
  /\ Payload \subseteq Seq(Byte)
  /\ ISN \subseteq 0 .. Word - 1
  /\ NULL \notin Buffer
  /\ MaxLen \subseteq Nat
  /\ TimeoutMs \subseteq Nat
  /\ LoopsPerMs \in Nat
  /\ Retransmit \in Nat \ {0}
  /\ MaxLoops \in Nat
  /\ CloseLoops \in Nat

VARIABLES
  tcp_local_port,     (* 0 when no session is open.                        *)
  tcp_state,
  tcp_seq,            (* Next sequence number to send.                     *)
  tcp_ack,            (* Next acknowledgement number to send.              *)
  tcp_rx_buffer,      (* The posted buffer, or NULL.                       *)
  tcp_rx_max_len,
  tcp_rx_current_len,
  tcp_rx_done,
  rx_data,            (* What the latest call wrote into each buffer.      *)
  call,               (* The API call in progress.                         *)
  loops, max_loops,   (* Loop counter and bound of that call.              *)
  timeout,            (* Turns before the next retransmission.             *)
  ret,                (* What the latest finished call returned.           *)
  tx                  (* Segments the latest step put on the wire.         *)

session == <<tcp_local_port, tcp_state, tcp_seq, tcp_ack>>
receiver == <<tcp_rx_buffer, tcp_rx_max_len, tcp_rx_current_len, tcp_rx_done,
              rx_data>>
control == <<call, loops, max_loops, timeout, ret>>
clientVars == <<session, receiver, control, tx>>

(* Faulty variant: sequence numbers do not wrap.                           *)
PlusNoWrap(a, b) == a + b

Plus(a, b) == (a + b) % Word

(* send_tcp_internal: the segment built from the session's port.           *)
SendTcp(flags, seq, ack, data) ==
  [port |-> tcp_local_port, flags |-> flags, seq |-> seq, ack |-> ack,
   data |-> data]

Return(op, status, len) ==
  /\ ret' = [op |-> op, status |-> status, len |-> len]
  /\ call' = "none"

-----------------------------------------------------------------------------
(* core::handle_tcp                                                        *)

(* Faulty variant: the destination port is not compared.                   *)
ForUsAnyPort(seg) == tcp_local_port # 0

ForUs(seg) == seg.port = tcp_local_port /\ tcp_local_port # 0

(* A reset aborts the session whatever its state.                          *)
HandleRst(seg) ==
  /\ "RST" \in seg.flags
  /\ tcp_state' = "CLOSED"
  /\ tcp_rx_done' = TRUE
  /\ tx' = <<>>
  /\ UNCHANGED <<tcp_local_port, tcp_seq, tcp_ack, tcp_rx_buffer,
                 tcp_rx_max_len, tcp_rx_current_len, rx_data>>

(* Faulty variant: the SYN does not consume a sequence number.             *)
HandleSynAckKeepsSeq(seg) ==
  /\ "RST" \notin seg.flags
  /\ tcp_state = "SYN_SENT"
  /\ {"SYN", "ACK"} \subseteq seg.flags
  /\ tcp_ack' = Plus(seg.seq, 1)
  /\ tx' = <<SendTcp({"ACK"}, tcp_seq, tcp_ack', <<>>)>>
  /\ tcp_state' = "ESTABLISHED"
  /\ UNCHANGED <<tcp_local_port, tcp_seq, receiver>>

(* The second step of the three-way handshake.                             *)
HandleSynAck(seg) ==
  /\ "RST" \notin seg.flags
  /\ tcp_state = "SYN_SENT"
  /\ {"SYN", "ACK"} \subseteq seg.flags
  /\ tcp_seq' = seg.ack
  /\ tcp_ack' = Plus(seg.seq, 1)
  /\ tx' = <<SendTcp({"ACK"}, tcp_seq', tcp_ack', <<>>)>>
  /\ tcp_state' = "ESTABLISHED"
  /\ UNCHANGED <<tcp_local_port, receiver>>

(* Faulty variant: the copy is not cut at the capacity.                    *)
CopyLenUncut(n) == IF tcp_rx_buffer = NULL THEN 0 ELSE n

(* Bytes of a payload of length n that still fit the posted buffer.        *)
CopyLen(n) ==
  LET space_left == tcp_rx_max_len - tcp_rx_current_len
  IN  IF tcp_rx_buffer = NULL THEN 0
      ELSE IF n > space_left THEN space_left ELSE n

(* Faulty variant: the copy does not complete the receive.                 *)
CopyPayloadNotDone(data) ==
  LET n == CopyLen(Len(data)) IN
  IF n > 0
  THEN /\ rx_data' = [rx_data EXCEPT ![tcp_rx_buffer] =
                        @ \o SubSeq(data, 1, n)]
       /\ tcp_rx_current_len' = tcp_rx_current_len + n
       /\ UNCHANGED <<tcp_rx_buffer, tcp_rx_max_len, tcp_rx_done>>
  ELSE UNCHANGED receiver

CopyPayload(data) ==
  LET n == CopyLen(Len(data)) IN
  IF n > 0
  THEN /\ rx_data' = [rx_data EXCEPT ![tcp_rx_buffer] =
                        @ \o SubSeq(data, 1, n)]
       /\ tcp_rx_current_len' = tcp_rx_current_len + n
       /\ tcp_rx_done' = TRUE
       /\ UNCHANGED <<tcp_rx_buffer, tcp_rx_max_len>>
  ELSE UNCHANGED receiver

(* Faulty variant: segments are still handled after the last FIN.          *)
OpenForever == tcp_state \in {"ESTABLISHED", "FIN_WAIT", "CLOSED_DONE"}

Open == tcp_state \in {"ESTABLISHED", "FIN_WAIT"}

(* Faulty variant: one byte too many is acknowledged.                      *)
HandleDataAckMore(seg) ==
  /\ {"RST", "FIN"} \intersect seg.flags = {}
  /\ Open
  /\ seg.data # <<>>
  /\ CopyPayload(seg.data)
  /\ tcp_seq' = seg.ack
  /\ tcp_ack' = Plus(seg.seq, Len(seg.data) + 1)
  /\ tx' = <<SendTcp({"ACK"}, tcp_seq', tcp_ack', <<>>)>>
  /\ UNCHANGED <<tcp_local_port, tcp_state>>

(* Payload without FIN: copy what fits, acknowledge all of it.             *)
HandleData(seg) ==
  /\ {"RST", "FIN"} \intersect seg.flags = {}
  /\ Open
  /\ seg.data # <<>>
  /\ CopyPayload(seg.data)
  /\ tcp_seq' = seg.ack
  /\ tcp_ack' = Plus(seg.seq, Len(seg.data))
  /\ tx' = <<SendTcp({"ACK"}, tcp_seq', tcp_ack', <<>>)>>
  /\ UNCHANGED <<tcp_local_port, tcp_state>>

(* FIN, with or without payload: the payload is handled first, then the    *)
(* FIN is answered with a FIN.                                             *)
HandleFin(seg) ==
  LET n == Len(seg.data)
      dataAck == SendTcp({"ACK"}, seg.ack, Plus(seg.seq, n), <<>>)
  IN
  /\ "RST" \notin seg.flags
  /\ "FIN" \in seg.flags
  /\ Open
  /\ CopyPayload(seg.data)
  /\ tcp_seq' = seg.ack
  /\ tcp_ack' = Plus(seg.seq, n + 1)
  /\ tx' = (IF n > 0 THEN <<dataAck>> ELSE <<>>)
             \o <<SendTcp({"FIN", "ACK"}, tcp_seq', tcp_ack', <<>>)>>
  /\ tcp_state' = "CLOSED_DONE"
  /\ UNCHANGED tcp_local_port

(* Everything the handler drops without a trace.                           *)
Dropped(seg) ==
  \/ ~ ForUs(seg)
  \/ /\ "RST" \notin seg.flags
     /\ \/ tcp_state \in {"CLOSED", "CLOSED_DONE"}
        \/ tcp_state = "SYN_SENT" /\ ~ {"SYN", "ACK"} \subseteq seg.flags
        \/ Open /\ seg.data = <<>> /\ "FIN" \notin seg.flags

HandleTcp(seg) ==
  \/ ForUs(seg) /\ HandleRst(seg)
  \/ ForUs(seg) /\ HandleSynAck(seg)
  \/ ForUs(seg) /\ HandleData(seg)
  \/ ForUs(seg) /\ HandleFin(seg)
  \/ Dropped(seg) /\ tx' = <<>> /\ UNCHANGED <<session, receiver>>

(* core::poll as the session sees it: no frame, a frame for another        *)
(* protocol, a receive error, or one of the segments.                      *)
Poll(segments) ==
  \/ tx' = <<>> /\ UNCHANGED <<session, receiver>>
  \/ \E seg \in segments : HandleTcp(seg)

-----------------------------------------------------------------------------
(* api::tcp_connect                                                        *)

(* Faulty variant: a session that is still open is kept.                   *)
TcpConnectKeepsOpen(port, isn) ==
  /\ call = "none"
  /\ tcp_local_port' = port
  /\ tcp_seq' = isn
  /\ tcp_ack' = 0
  /\ tcp_state' = IF tcp_state = "CLOSED" THEN "SYN_SENT" ELSE tcp_state
  /\ call' = "tcp_connect"
  /\ loops' = 0
  /\ timeout' = 0
  /\ tx' = <<>>
  /\ UNCHANGED <<receiver, max_loops, ret>>

TcpConnect(port, isn) ==
  /\ call = "none"
  /\ tcp_local_port' = port
  /\ tcp_seq' = isn
  /\ tcp_ack' = 0
  /\ tcp_state' = "SYN_SENT"
  /\ call' = "tcp_connect"
  /\ loops' = 0
  /\ timeout' = 0
  /\ tx' = <<>>
  /\ UNCHANGED <<receiver, max_loops, ret>>

(* The loop goes on: neither established, reset nor out of turns.          *)
Connecting ==
  /\ call = "tcp_connect"
  /\ tcp_state \notin {"ESTABLISHED", "CLOSED"}
  /\ loops < MaxLoops

ConnectSend ==
  /\ Connecting
  /\ timeout = 0
  /\ tx' = <<SendTcp({"SYN"}, tcp_seq, tcp_ack, <<>>)>>
  /\ timeout' = Retransmit
  /\ UNCHANGED <<session, receiver, call, loops, max_loops, ret>>

ConnectPoll(segments) ==
  /\ Connecting
  /\ timeout > 0
  /\ Poll(segments)
  /\ timeout' = timeout - 1
  /\ loops' = loops + 1
  /\ UNCHANGED <<call, max_loops, ret>>

ConnectReturn ==
  /\ call = "tcp_connect"
  /\ ~ Connecting
  /\ Return("tcp_connect",
            IF tcp_state = "ESTABLISHED" THEN "SUCCESS" ELSE "TIMEOUT", 0)
  /\ tx' = <<>>
  /\ UNCHANGED <<session, receiver, loops, max_loops, timeout>>

-----------------------------------------------------------------------------
(* api::tcp_send.  What core::send_raw returns is ignored.                 *)

(* Faulty variant: the data does not consume sequence numbers.             *)
TcpSendKeepsSeq(data) ==
  /\ call = "none"
  /\ IF tcp_state = "ESTABLISHED"
     THEN /\ tx' = <<SendTcp({"PSH", "ACK"}, tcp_seq, tcp_ack, data)>>
          /\ Return("tcp_send", "SUCCESS", Len(data))
     ELSE /\ tx' = <<>>
          /\ Return("tcp_send", "NOT_READY", 0)
  /\ UNCHANGED <<session, receiver, loops, max_loops, timeout>>

TcpSend(data) ==
  /\ call = "none"
  /\ IF tcp_state = "ESTABLISHED"
     THEN /\ tx' = <<SendTcp({"PSH", "ACK"}, tcp_seq, tcp_ack, data)>>
          /\ tcp_seq' = Plus(tcp_seq, Len(data))
          /\ Return("tcp_send", "SUCCESS", Len(data))
     ELSE /\ tx' = <<>>
          /\ Return("tcp_send", "NOT_READY", 0)
          /\ UNCHANGED tcp_seq
  /\ UNCHANGED <<tcp_local_port, tcp_state, tcp_ack, receiver, loops,
                 max_loops, timeout>>

-----------------------------------------------------------------------------
(* api::tcp_receive                                                        *)

(* Faulty variant: the completion of the previous call is left behind.     *)
TcpReceiveKeepsDone(buffer, max_len, timeout_ms) ==
  /\ call = "none"
  /\ tcp_rx_buffer' = buffer
  /\ tcp_rx_max_len' = max_len
  /\ tcp_rx_current_len' = 0
  /\ rx_data' = [rx_data EXCEPT ![buffer] = <<>>]
  /\ call' = "tcp_receive"
  /\ loops' = 0
  /\ max_loops' = (timeout_ms * LoopsPerMs) % Word
  /\ tx' = <<>>
  /\ UNCHANGED <<session, tcp_rx_done, timeout, ret>>

TcpReceive(buffer, max_len, timeout_ms) ==
  /\ call = "none"
  /\ tcp_rx_buffer' = buffer
  /\ tcp_rx_max_len' = max_len
  /\ tcp_rx_current_len' = 0
  /\ tcp_rx_done' = FALSE
  /\ rx_data' = [rx_data EXCEPT ![buffer] = <<>>]
  /\ call' = "tcp_receive"
  /\ loops' = 0
  /\ max_loops' = (timeout_ms * LoopsPerMs) % Word
  /\ tx' = <<>>
  /\ UNCHANGED <<session, timeout, ret>>

Receiving ==
  /\ call = "tcp_receive"
  /\ ~ tcp_rx_done
  /\ loops < max_loops
  /\ tcp_state \notin {"CLOSED", "CLOSED_DONE"}

(* Faulty variant: the turns of the loop are not counted.                  *)
ReceivePollUncounted(segments) ==
  /\ Receiving
  /\ Poll(segments)
  /\ UNCHANGED control

ReceivePoll(segments) ==
  /\ Receiving
  /\ Poll(segments)
  /\ loops' = loops + 1
  /\ UNCHANGED <<call, max_loops, timeout, ret>>

(* Faulty variant: the buffer stays posted.                                *)
ReceiveReturnKeepsBuffer ==
  /\ call = "tcp_receive"
  /\ ~ Receiving
  /\ Return("tcp_receive", IF tcp_rx_done THEN "SUCCESS" ELSE "TIMEOUT",
            tcp_rx_current_len)
  /\ tx' = <<>>
  /\ UNCHANGED <<session, receiver, loops, max_loops, timeout>>

ReceiveReturn ==
  /\ call = "tcp_receive"
  /\ ~ Receiving
  /\ tcp_rx_buffer' = NULL
  /\ Return("tcp_receive", IF tcp_rx_done THEN "SUCCESS" ELSE "TIMEOUT",
            tcp_rx_current_len)
  /\ tx' = <<>>
  /\ UNCHANGED <<session, tcp_rx_max_len, tcp_rx_current_len, tcp_rx_done,
                 rx_data, loops, max_loops, timeout>>

-----------------------------------------------------------------------------
(* api::tcp_close.  Unless the session is established there is no loop to  *)
(* run: its bound is 0 turns.                                              *)

TcpClose ==
  /\ call = "none"
  /\ call' = "tcp_close"
  /\ loops' = 0
  /\ IF tcp_state = "ESTABLISHED"
     THEN /\ tx' = <<SendTcp({"FIN", "ACK"}, tcp_seq, tcp_ack, <<>>)>>
          /\ tcp_state' = "FIN_WAIT"
          /\ max_loops' = CloseLoops
     ELSE /\ tx' = <<>>
          /\ max_loops' = 0
          /\ UNCHANGED tcp_state
  /\ UNCHANGED <<tcp_local_port, tcp_seq, tcp_ack, receiver, timeout, ret>>

Draining ==
  /\ call = "tcp_close"
  /\ tcp_state # "CLOSED_DONE"
  /\ loops < max_loops

ClosePoll(segments) ==
  /\ Draining
  /\ Poll(segments)
  /\ loops' = loops + 1
  /\ UNCHANGED <<call, max_loops, timeout, ret>>

CloseReturn ==
  /\ call = "tcp_close"
  /\ ~ Draining
  /\ tcp_local_port' = 0
  /\ tcp_state' = "CLOSED"
  /\ Return("tcp_close", "SUCCESS", 0)
  /\ tx' = <<>>
  /\ UNCHANGED <<tcp_seq, tcp_ack, receiver, loops, max_loops, timeout>>

-----------------------------------------------------------------------------
(* A turn of another API's loop (resolve_hostname, udp_receive, ping): the *)
(* segments it polls are handled while no TCP call is in progress.         *)
PollElsewhere(segments) ==
  /\ call = "none"
  /\ Poll(segments)
  /\ UNCHANGED control

-----------------------------------------------------------------------------
(* The globals before the first call.                                      *)
ClientInit ==
  /\ tcp_local_port = 0 /\ tcp_state = "CLOSED" /\ tcp_seq = 0 /\ tcp_ack = 0
  /\ tcp_rx_buffer = NULL /\ tcp_rx_max_len = 0 /\ tcp_rx_current_len = 0
  /\ tcp_rx_done = FALSE /\ rx_data = [b \in Buffer |-> <<>>]
  /\ call = "none" /\ loops = 0 /\ max_loops = 0 /\ timeout = 0
  /\ ret = [op |-> "none", status |-> "SUCCESS", len |-> 0]
  /\ tx = <<>>

(* What the application does next.                                         *)
Application(payloads) ==
  \/ \E port \in Port, isn \in ISN : TcpConnect(port, isn)
  \/ \E data \in payloads : TcpSend(data)
  \/ \E b \in Buffer, n \in MaxLen, ms \in TimeoutMs : TcpReceive(b, n, ms)
  \/ TcpClose

(* What the program does of itself while a call is in progress.            *)
CallStep(segments) ==
  \/ ConnectSend
  \/ ConnectPoll(segments)
  \/ ConnectReturn
  \/ ReceivePoll(segments)
  \/ ReceiveReturn
  \/ ClosePoll(segments)
  \/ CloseReturn

ClientNext(segments, payloads) ==
  \/ Application(payloads)
  \/ CallStep(segments)
  \/ PollElsewhere(segments)

Init == ClientInit

Next == ClientNext(Segment, Payload)

(* The processor keeps running the call it is in; nothing obliges the      *)
(* application to make a call or the network to deliver a segment.         *)
Spec == Init /\ [][Next]_clientVars /\ WF_clientVars(CallStep(Segment))

=============================================================================
