---------------------------- MODULE TcpClientProps ----------------------------
(***************************************************************************)
(* What the TCP code guarantees whatever segments arrive: none of these    *)
(* properties assumes anything of the peer or of the network.              *)
(***************************************************************************)
EXTENDS TcpClient

TcpState == {"CLOSED", "SYN_SENT", "ESTABLISHED", "FIN_WAIT", "CLOSED_DONE"}
Call == {"none", "tcp_connect", "tcp_receive", "tcp_close"}
Result == [op : Call \cup {"tcp_send"},
           status : {"SUCCESS", "TIMEOUT", "NOT_READY"}, len : Nat]

SessionType ==
  /\ tcp_local_port \in Port \cup {0}
  /\ tcp_state \in TcpState
  /\ tcp_seq \in 0 .. Word - 1
  /\ tcp_ack \in 0 .. Word - 1

ReceiverType ==
  /\ tcp_rx_buffer \in Buffer \cup {NULL}
  /\ tcp_rx_max_len \in Nat
  /\ tcp_rx_current_len \in Nat
  /\ tcp_rx_done \in BOOLEAN
  /\ rx_data \in [Buffer -> Seq(Byte)]

(* The variables hold values of their C++ types.                           *)
TypeOK ==
  /\ SessionType
  /\ ReceiverType
  /\ call \in Call
  /\ loops \in Nat
  /\ max_loops \in Nat
  /\ timeout \in 0 .. Retransmit
  /\ ret \in Result
  /\ tx \in Seq(SegmentType)

(* The copy in handle_tcp never runs past the caller's capacity, and the   *)
(* length it counts is the length it wrote.                                *)
Accounting ==
  /\ tcp_rx_current_len <= tcp_rx_max_len
  /\ tcp_rx_buffer # NULL =>
       Len(rx_data[tcp_rx_buffer]) = tcp_rx_current_len

(* A posted buffer holds exactly the bytes tcp_receive will report, never  *)
(* more than the caller's capacity, and a buffer is posted exactly while   *)
(* tcp_receive runs (handle_tcp's copy and the nullptr at its end).        *)
BufferAccounting ==
  /\ tcp_rx_buffer # NULL <=> call = "tcp_receive"
  /\ Accounting

(* Memory the application gave to tcp_receive is its own again when the    *)
(* call returns: segments polled later, by whatever API, do not write it.  *)
BufferReturned ==
  [][rx_data' # rx_data => call' = "tcp_receive"]_clientVars

(* tcp_receive never hides bytes behind TIMEOUT, and reports an empty      *)
(* success only when a reset has closed the session.                       *)
ReceiveReport ==
  /\ ret'.op = "tcp_receive" /\ call = "tcp_receive"
  => /\ ret'.status = "TIMEOUT" => ret'.len = 0
     /\ ret'.status = "SUCCESS" /\ ret'.len = 0 => tcp_state' = "CLOSED"

HonestReceive == [][call' # call => ReceiveReport]_clientVars

(* A closed session is silent: after tcp_close, a reset or the exchange of *)
(* FINs, nothing is transmitted until the next tcp_connect.                *)
SilentWhenClosed ==
  [][(tcp_state \in {"CLOSED", "CLOSED_DONE"}) => tx' = <<>>]_clientVars

-----------------------------------------------------------------------------
(* tcp_connect and tcp_receive keep the promise of BlockingCall.           *)

ResultOf(op) == IF ret.op = op THEN ret.status ELSE "none"

ConnectCall == INSTANCE BlockingCall WITH
  waiting <- (call = "tcp_connect"),
  arrived <- (call = "tcp_connect" /\ tcp_state = "ESTABLISHED"),
  result <- ResultOf("tcp_connect")

ReceiveCall == INSTANCE BlockingCall WITH
  waiting <- (call = "tcp_receive"),
  arrived <- (call = "tcp_receive" /\ tcp_rx_done),
  result <- ResultOf("tcp_receive")

(* tcp_connect succeeds exactly when the session was established during    *)
(* this very call, and otherwise times out.                                *)
ConnectIsBlockingCall == ConnectCall!Spec

(* tcp_receive succeeds exactly when something completed it after it       *)
(* started; a completion left over from before is not taken for one.       *)
ReceiveIsBlockingCall == ReceiveCall!Spec

=============================================================================
