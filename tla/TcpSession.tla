------------------------------ MODULE TcpSession ------------------------------
(***************************************************************************)
(* TcpClient composed with the server at the other end and the network     *)
(* between them.                                                           *)
(*                                                                         *)
(* The network keeps every segment ever sent and delivers any of them at   *)
(* any time: a segment may be lost, delayed, duplicated and overtaken.     *)
(* The server is outside the repository; it follows RFC 793: it accepts    *)
(* one connection per client port, keeps the bytes that arrive in sequence *)
(* and drops the rest, sends a stream of its own and ends it with FIN.     *)
(*                                                                         *)
(* A byte is <<owner, i>>: the i-th byte of the stream that the server     *)
(* sends to port owner, or of the client's own stream when owner is 0.     *)
(***************************************************************************)
EXTENDS TcpClient, SequencesExt, FiniteSetsExt

CONSTANTS
  ISS,            (* Initial sequence numbers the server may choose.       *)
  StreamLen,      (* Length of the stream the server sends.                *)
  ChunkLen,       (* Lengths of the data the application sends at once.    *)
  Sends,          (* How often it sends on one connection.                 *)
  ServerFirst,    (* Does the server send before it has read anything?     *)
  MaxSegments     (* Bound on the segments the servers send.               *)

ASSUME SessionAssumption ==
  /\ ISS \subseteq 0 .. Word - 1
  /\ StreamLen \in Nat
  /\ ChunkLen \subseteq Nat
  /\ Sends \in Nat
  /\ ServerFirst \in BOOLEAN
  /\ MaxSegments \in Nat

VARIABLES
  peer,       (* The server's end of the connection of every client port.  *)
  toClient,   (* Every segment the servers have sent.                      *)
  toPeer,     (* Every segment the client has sent.                        *)
  opened,     (* For every port tcp_connect has used: the client's ISN.    *)
  sent        (* What tcp_send accepted on each port, one item per call.   *)

network == <<peer, toClient, toPeer>>
history == <<opened, sent>>
vars == <<clientVars, network, history>>

(* How far x is ahead of y in the sequence space.                          *)
Ahead(x, y) == (x - y) % Word

Stream(owner, first, last) ==
  [k \in 1 .. last - first |-> <<owner, first + k>>]

Listening == [state |-> "LISTEN", irs |-> 0, iss |-> 0, read |-> <<>>,
              finRead |-> FALSE, snt |-> 0, finSent |-> FALSE]

(* RCV.NXT of the server.                                                  *)
RcvNxt(p) ==
  Plus(p.irs, 1 + Len(p.read) + (IF p.finRead THEN 1 ELSE 0))

(* SND.NXT of the server.                                                  *)
SndNxt(p) == Plus(p.iss, 1 + p.snt + (IF p.finSent THEN 1 ELSE 0))

FromPeer(port, flags, seq, ack, data) ==
  [port |-> port, flags |-> flags, seq |-> seq, ack |-> ack, data |-> data]

-----------------------------------------------------------------------------
(* The server (external).                                                  *)

PeerAccept(port) ==
  \E seg \in toPeer, iss \in ISS :
    /\ peer[port].state = "LISTEN"
    /\ seg.port = port /\ seg.flags = {"SYN"}
    /\ peer' = [peer EXCEPT ![port] =
                  [Listening EXCEPT !.state = "SYN_RCVD", !.irs = seg.seq,
                                    !.iss = iss]]
    /\ toClient' = toClient \cup
         {FromPeer(port, {"SYN", "ACK"}, iss, Plus(seg.seq, 1), <<>>)}

(* A segment after the SYN: establish the connection, read what is in      *)
(* sequence of the payload and the FIN.                                    *)
PeerRead(port) ==
  \E seg \in toPeer :
    LET p == peer[port]
        off == Ahead(RcvNxt(p), seg.seq)
        inSequence == ~ p.finRead /\ off <= Len(seg.data)
    IN
    /\ p.state \in {"SYN_RCVD", "ESTABLISHED"}
    /\ seg.port = port /\ "ACK" \in seg.flags
    /\ Ahead(seg.ack, Plus(p.iss, 1)) <= Ahead(SndNxt(p), Plus(p.iss, 1))
    /\ peer' = [peer EXCEPT ![port] =
         [p EXCEPT
            !.state = "ESTABLISHED",
            !.read = IF inSequence
                     THEN p.read \o SubSeq(seg.data, off + 1, Len(seg.data))
                     ELSE p.read,
            !.finRead = p.finRead \/ (inSequence /\ "FIN" \in seg.flags)]]
    /\ UNCHANGED toClient

(* Bytes first + 1 to last of the server's stream, for the first time or   *)
(* again, perhaps with the FIN; a bare acknowledgement when first = last.  *)
PeerSend(port) ==
  \E last \in 0 .. StreamLen, fin \in BOOLEAN :
  \E first \in 0 .. last :
    LET p == peer[port] IN
    /\ p.state = "ESTABLISHED"
    /\ ServerFirst \/ p.read # <<>> \/ p.finRead
    /\ first <= p.snt
    /\ fin => last = StreamLen
    /\ Cardinality(toClient) < MaxSegments
    /\ peer' = [peer EXCEPT ![port].snt = IF last > @ THEN last ELSE @,
                            ![port].finSent = @ \/ fin]
    /\ toClient' = toClient \cup
         {FromPeer(port, {"ACK"} \cup (IF fin THEN {"FIN"} ELSE {}),
                   Plus(p.iss, 1 + first), RcvNxt(p),
                   Stream(port, first, last))}

PeerReset(port) ==
  /\ peer[port].state \in {"SYN_RCVD", "ESTABLISHED"}
  /\ peer' = [peer EXCEPT ![port].state = "CLOSED"]
  /\ toClient' = toClient \cup
       {FromPeer(port, {"RST", "ACK"}, SndNxt(peer[port]),
                 RcvNxt(peer[port]), <<>>)}

PeerStep ==
  /\ \E port \in Port :
       PeerAccept(port) \/ PeerRead(port) \/ PeerSend(port) \/ PeerReset(port)
  /\ tx' = <<>>
  /\ UNCHANGED <<session, receiver, control, toPeer, history>>

-----------------------------------------------------------------------------
(* The client.                                                             *)

Transmit == toPeer' = toPeer \cup Range(tx')

BytesSent(port) == FlattenSeq(sent[port])

(* A port is taken from a range of 16384 at random; it is assumed not to   *)
(* come up again while segments of its earlier connection still travel.    *)
Connect ==
  \E port \in Port \ DOMAIN opened, isn \in ISN :
    /\ TcpConnect(port, isn)
    /\ opened' = [p \in DOMAIN opened \cup {port} |->
                    IF p = port THEN isn ELSE opened[p]]
    /\ UNCHANGED sent

(* The application's next n bytes.                                         *)
Send ==
  \E n \in ChunkLen :
    LET port == tcp_local_port
        done == Len(BytesSent(port))
        data == Stream(0, done, done + n)
    IN
    /\ port # 0
    /\ Len(sent[port]) < Sends
    /\ TcpSend(data)
    /\ sent' = IF ret'.status = "SUCCESS"
               THEN [sent EXCEPT ![port] = Append(@, data)]
               ELSE sent
    /\ UNCHANGED opened

Receive ==
  /\ \E b \in Buffer, n \in MaxLen, ms \in TimeoutMs : TcpReceive(b, n, ms)
  /\ UNCHANGED history

ClientStep ==
  /\ \/ Connect
     \/ Send
     \/ Receive
     \/ TcpClose /\ UNCHANGED history
     \/ CallStep(toClient) /\ UNCHANGED history
     \/ PollElsewhere(toClient) /\ UNCHANGED history
  /\ Transmit
  /\ UNCHANGED <<peer, toClient>>

SessionInit ==
  /\ ClientInit
  /\ peer = [port \in Port |-> Listening]
  /\ toClient = {} /\ toPeer = {}
  /\ opened = [port \in {} |-> 0]
  /\ sent = [port \in Port |-> <<>>]

SessionNext == ClientStep \/ PeerStep

SessionSpec == SessionInit /\ [][SessionNext]_vars

=============================================================================
