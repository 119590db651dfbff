--------------------------- MODULE TcpSessionProps ---------------------------
(* What the client and a conforming server achieve together.               *)
EXTENDS TcpSession

Synchronised == tcp_state \in {"ESTABLISHED", "FIN_WAIT", "CLOSED_DONE"}

Server == peer[tcp_local_port]

(* The client believes in a connection only if the server of this very     *)
(* port has accepted this very call's SYN: no late SYN-ACK of an earlier,  *)
(* timed-out tcp_connect is taken for the answer to a new one.             *)
HandshakeGenuine ==
  Synchronised => /\ Server.state # "LISTEN"
                  /\ Server.irs = opened[tcp_local_port]

(* No segment acknowledges a byte or a FIN the server has not sent: the    *)
(* acknowledgement number handle_tcp computes is right for data, for FIN   *)
(* and for both together, around the wrap of the sequence space as well.   *)
NeverAcksUnsent ==
  \A seg \in toPeer : "ACK" \in seg.flags =>
    LET p == peer[seg.port] IN
    /\ p.state # "LISTEN"
    /\ Ahead(seg.ack, Plus(p.iss, 1)) <= Ahead(SndNxt(p), Plus(p.iss, 1))

(* Whatever the network reorders or repeats, one tcp_receive hands out     *)
(* consecutive bytes of the stream of the current connection, never a      *)
(* patchwork of two segments.                                              *)
DeliveredIsContiguous ==
  \A b \in Buffer : rx_data[b] # <<>> =>
    LET d == rx_data[b] IN
    \E port \in DOMAIN opened, first \in 0 .. StreamLen :
      /\ d = Stream(port, first, first + Len(d))
      /\ tcp_rx_buffer = b => port = tcp_local_port

(* tcp_seq is set back by the acknowledgement of any data segment          *)
(* (core.hpp:382), but only once a later tcp_send has moved it past that   *)
(* acknowledgement.  So with a server that answers, the first two sends of *)
(* a connection are numbered right whatever the network does, and a FIN    *)
(* after the first; a third send, or a FIN after two, may be given numbers *)
(* that are taken.                                                         *)
SendsNumbered(port) == Len(sent[port]) <= 2
FinNumbered(port) == Len(sent[port]) <= 1

(* What the server reads of up to two tcp_sends is what the application    *)
(* handed over, in order and without a gap; and of up to one, it sees the  *)
(* end of the stream only after all of it.                                 *)
PeerReadsInOrder ==
  \A port \in Port :
    /\ SendsNumbered(port) => IsPrefix(peer[port].read, BytesSent(port))
    /\ FinNumbered(port) /\ peer[port].finRead =>
         peer[port].read = BytesSent(port)

(* The byte a segment carries under a sequence number.                     *)
ByteAt(seg, n) ==
  LET off == Ahead(n, seg.seq) IN
  IF off < Len(seg.data) THEN seg.data[off + 1] ELSE <<>>

(* tcp_seq is the "Next sequence number to send" (globals.hpp:76): on a    *)
(* connection with up to two tcp_sends no sequence number is used for two  *)
(* different bytes, and with up to one not for a byte and the FIN either.  *)
SequenceNumbersUnique ==
  \A s, t \in toPeer : s.port = t.port =>
    /\ SendsNumbered(s.port) =>
         \A n \in 0 .. Word - 1 :
           ByteAt(s, n) # <<>> /\ ByteAt(t, n) # <<>> =>
             ByteAt(s, n) = ByteAt(t, n)
    /\ FinNumbered(s.port) /\ "FIN" \in s.flags =>
         ByteAt(t, Plus(s.seq, Len(s.data))) = <<>>

=============================================================================
