--------------------------- MODULE TcpClientProofs ---------------------------
(***************************************************************************)
(* Proofs about TcpClient for every set of ports, segments and buffers,    *)
(* every sequence-space size and every loop bound.                         *)
(***************************************************************************)
EXTENDS TcpClientProps, SequenceTheorems, TLAPS

-----------------------------------------------------------------------------
(* Segments built from the session are well typed.                         *)
LEMMA SendTcpType ==
  ASSUME tcp_local_port \in Port, NEW flags \in SUBSET Flag,
         NEW seq \in 0 .. Word - 1, NEW ack \in 0 .. Word - 1,
         NEW data \in Seq(Byte)
  PROVE  SendTcp(flags, seq, ack, data) \in SegmentType
BY DEF SendTcp, SegmentType

(* The copy never exceeds the payload nor the space left.                  *)
LEMMA CopyLenBounds ==
  ASSUME ReceiverType, Accounting, NEW n \in Nat
  PROVE  /\ CopyLen(n) \in 0 .. n
         /\ CopyLen(n) <= tcp_rx_max_len - tcp_rx_current_len
         /\ CopyLen(n) > 0 => tcp_rx_buffer \in Buffer /\ tcp_rx_buffer # NULL
BY DEF ReceiverType, Accounting, CopyLen

(* What a copy does to the posted buffer and its counters.                 *)
LEMMA CopyPayloadEffect ==
  ASSUME ReceiverType, Accounting, NEW data \in Seq(Byte), CopyPayload(data)
  PROVE  /\ ReceiverType' /\ Accounting'
         /\ UNCHANGED <<tcp_rx_buffer, tcp_rx_max_len>>
         /\ rx_data' # rx_data => tcp_rx_buffer # NULL
         /\ tcp_rx_done => tcp_rx_done'
         /\ tcp_rx_current_len' = tcp_rx_current_len \/ tcp_rx_done'
         /\ tcp_rx_done' => tcp_rx_done \/ tcp_rx_current_len' > 0
         /\ tcp_rx_current_len <= tcp_rx_current_len'
<1> DEFINE n == CopyLen(Len(data))
           part == SubSeq(data, 1, n)
<1>1. Len(data) \in Nat
  BY LenProperties
<1>2. /\ n \in 0 .. Len(data)
      /\ n <= tcp_rx_max_len - tcp_rx_current_len
      /\ n > 0 => tcp_rx_buffer \in Buffer /\ tcp_rx_buffer # NULL
  BY <1>1, CopyLenBounds
<1>3. CASE n > 0
  <2>1. /\ rx_data' = [rx_data EXCEPT ![tcp_rx_buffer] = @ \o part]
        /\ tcp_rx_current_len' = tcp_rx_current_len + n
        /\ tcp_rx_done' = TRUE
        /\ UNCHANGED <<tcp_rx_buffer, tcp_rx_max_len>>
    BY <1>3 DEF CopyPayload
  <2>2. part \in Seq(Byte) /\ Len(part) = n
    BY <1>1, <1>2, <1>3, SubSeqProperties
  <2>3. tcp_rx_buffer \in Buffer /\ tcp_rx_buffer # NULL
    BY <1>2, <1>3
  <2>4. rx_data[tcp_rx_buffer] \in Seq(Byte)
    BY <2>3 DEF ReceiverType
  <2>5. /\ rx_data[tcp_rx_buffer] \o part \in Seq(Byte)
        /\ Len(rx_data[tcp_rx_buffer] \o part)
             = Len(rx_data[tcp_rx_buffer]) + n
    BY <2>2, <2>4, ConcatProperties
  <2>6. rx_data' \in [Buffer -> Seq(Byte)]
    BY <2>1, <2>3, <2>5 DEF ReceiverType
  <2>7. rx_data'[tcp_rx_buffer] = rx_data[tcp_rx_buffer] \o part
    BY <2>1, <2>3 DEF ReceiverType
  <2> HIDE DEF part, n
  <2> QED
    BY <1>1, <1>2, <1>3, <2>1, <2>3, <2>5, <2>6, <2>7
    DEF ReceiverType, Accounting
<1>4. CASE ~ (n > 0)
  <2>1. UNCHANGED receiver
    BY <1>4 DEF CopyPayload
  <2> QED
    BY <2>1 DEF receiver, ReceiverType, Accounting
<1> QED
  BY <1>3, <1>4

-----------------------------------------------------------------------------
(* What one poll, and in it handle_tcp, can do to the session.             *)
PollEffect ==
  /\ SessionType' /\ ReceiverType' /\ Accounting'
  /\ tx' \in Seq(SegmentType)
  /\ UNCHANGED <<tcp_local_port, tcp_rx_buffer, tcp_rx_max_len>>
  /\ rx_data' # rx_data => tcp_rx_buffer # NULL
  /\ tcp_state \in {"CLOSED", "CLOSED_DONE"} => tx' = <<>>
  /\ \/ tcp_state' \in {tcp_state, "CLOSED"}
     \/ tcp_state = "SYN_SENT" /\ tcp_state' = "ESTABLISHED"
     \/ Open /\ tcp_state' = "CLOSED_DONE"
  /\ tcp_state = "CLOSED" => tcp_state' = "CLOSED"
  /\ tcp_rx_done => tcp_rx_done'
  /\ tcp_rx_current_len' = tcp_rx_current_len \/ tcp_rx_done'
  /\ tcp_rx_done' =>
       tcp_rx_done \/ tcp_rx_current_len' > 0 \/ tcp_state' = "CLOSED"
  /\ tcp_rx_current_len <= tcp_rx_current_len'

LEMMA HandleTcpEffect ==
  ASSUME SessionType, ReceiverType, Accounting,
         NEW seg \in SegmentType, HandleTcp(seg)
  PROVE  PollEffect
<1> USE DEF Open, ForUs, TcpState
<1>1. /\ seg.flags \in SUBSET Flag /\ seg.port \in Port
      /\ seg.seq \in 0 .. Word - 1 /\ seg.ack \in 0 .. Word - 1
      /\ seg.data \in Seq(Byte)
  BY DEF SegmentType
<1>2. /\ seg.seq \in Int /\ Len(seg.data) \in Nat
      /\ <<>> \in Seq(Byte) /\ <<>> \in Seq(SegmentType)
      /\ {"ACK"} \in SUBSET Flag /\ {"FIN", "ACK"} \in SUBSET Flag
  BY <1>1, TcpAssumption, LenProperties, EmptySeq DEF Flag
<1>3. CASE ForUs(seg) /\ HandleRst(seg)
  BY <1>2, <1>3
  DEF HandleRst, PollEffect, SessionType, ReceiverType, Accounting
<1>4. CASE ForUs(seg) /\ HandleSynAck(seg)
  <2>0. Plus(seg.seq, 1) \in 0 .. Word - 1
    BY <1>2, TcpAssumption DEF Plus
  <2>1. tcp_seq' \in 0 .. Word - 1 /\ tcp_ack' \in 0 .. Word - 1
    BY <1>1, <1>4, <2>0 DEF HandleSynAck
  <2>2. SendTcp({"ACK"}, tcp_seq', tcp_ack', <<>>) \in SegmentType
    BY <1>1, <1>2, <1>4, <2>1, SendTcpType DEF SessionType
  <2>3. tx' \in Seq(SegmentType)
    BY <1>4, <2>2 DEF HandleSynAck
  <2> QED
    BY <1>4, <2>1, <2>3
    DEF HandleSynAck, PollEffect, SessionType, ReceiverType, Accounting,
        receiver
<1>5. CASE ForUs(seg) /\ HandleData(seg)
  <2>1. tcp_seq' \in 0 .. Word - 1 /\ tcp_ack' \in 0 .. Word - 1
    BY <1>1, <1>2, <1>5, TcpAssumption DEF HandleData, Plus
  <2>2. SendTcp({"ACK"}, tcp_seq', tcp_ack', <<>>) \in SegmentType
    BY <1>1, <1>2, <1>5, <2>1, SendTcpType DEF SessionType
  <2>3. tx' \in Seq(SegmentType)
    BY <1>5, <2>2 DEF HandleData
  <2>4. CopyPayload(seg.data)
    BY <1>5 DEF HandleData
  <2> QED
    BY <1>1, <1>5, <2>1, <2>3, <2>4, CopyPayloadEffect
    DEF HandleData, PollEffect, SessionType
<1>6. CASE ForUs(seg) /\ HandleFin(seg)
  <2> DEFINE dataAck == SendTcp({"ACK"}, seg.ack,
                                Plus(seg.seq, Len(seg.data)), <<>>)
             finAck == SendTcp({"FIN", "ACK"}, tcp_seq', tcp_ack', <<>>)
  <2>1. tcp_seq' \in 0 .. Word - 1 /\ tcp_ack' \in 0 .. Word - 1
    BY <1>1, <1>2, <1>6, TcpAssumption DEF HandleFin, Plus
  <2>0. Plus(seg.seq, Len(seg.data)) \in 0 .. Word - 1
    BY <1>2, TcpAssumption DEF Plus
  <2>2. dataAck \in SegmentType
    BY <1>1, <1>2, <1>6, <2>0, SendTcpType DEF SessionType
  <2>3. finAck \in SegmentType
    BY <1>1, <1>2, <1>6, <2>1, SendTcpType DEF SessionType
  <2>4. tx' = (IF Len(seg.data) > 0 THEN <<dataAck>> ELSE <<>>) \o <<finAck>>
    BY <1>6 DEF HandleFin
  <2>5. tx' \in Seq(SegmentType)
    <3> HIDE DEF dataAck, finAck
    <3>1. <<dataAck>> \in Seq(SegmentType) /\ <<finAck>> \in Seq(SegmentType)
      BY <2>2, <2>3
    <3> QED
      BY <1>2, <2>4, <3>1, ConcatProperties
  <2>6. CopyPayload(seg.data)
    BY <1>6 DEF HandleFin
  <2> QED
    BY <1>1, <1>6, <2>1, <2>5, <2>6, CopyPayloadEffect
    DEF HandleFin, PollEffect, SessionType
<1>7. CASE Dropped(seg) /\ tx' = <<>> /\ UNCHANGED <<session, receiver>>
  BY <1>2, <1>7
  DEF PollEffect, SessionType, ReceiverType, Accounting, session, receiver
<1> QED
  BY <1>3, <1>4, <1>5, <1>6, <1>7 DEF HandleTcp

LEMMA PollEffects ==
  ASSUME SessionType, ReceiverType, Accounting,
         Poll(Segment)
  PROVE  PollEffect
<1>1. CASE tx' = <<>> /\ UNCHANGED <<session, receiver>>
  BY <1>1, EmptySeq
  DEF PollEffect, SessionType, ReceiverType, Accounting, session, receiver
<1>2. CASE \E seg \in Segment : HandleTcp(seg)
  BY <1>2, HandleTcpEffect, TcpAssumption
<1> QED
  BY <1>1, <1>2 DEF Poll

-----------------------------------------------------------------------------
(* The state tcp_connect sees: only its own handshake can change it.       *)
ConnectState ==
  call = "tcp_connect" => tcp_state \in {"SYN_SENT", "ESTABLISHED", "CLOSED"}

(* tcp_rx_done stands for bytes in the buffer or for a reset.              *)
DoneMeans ==
  call = "tcp_receive" =>
    /\ tcp_rx_current_len > 0 => tcp_rx_done
    /\ tcp_rx_done => tcp_rx_current_len > 0 \/ tcp_state = "CLOSED"

(* Only a closed session may be without a port.                            *)
OpenHasPort == tcp_local_port = 0 => tcp_state = "CLOSED"

IInv ==
  TypeOK /\ BufferAccounting /\ ConnectState /\ DoneMeans /\ OpenHasPort

LEMMA InitIInv == Init => IInv
<1> SUFFICES ASSUME Init PROVE IInv
  OBVIOUS
<1> USE TcpAssumption, EmptySeq DEF Init, ClientInit
<1>1. TypeOK
  <2>1. SessionType
    BY DEF SessionType, TcpState
  <2>2. ReceiverType
    BY DEF ReceiverType
  <2>3. ret \in Result /\ call \in Call
    BY DEF Result, Call
  <2>4. tx \in Seq(SegmentType)
    OBVIOUS
  <2> QED
    BY <2>1, <2>2, <2>3, <2>4 DEF TypeOK
<1>2. BufferAccounting /\ ConnectState /\ DoneMeans /\ OpenHasPort
  BY DEF BufferAccounting, Accounting, ConnectState, DoneMeans, OpenHasPort
<1> QED
  BY <1>1, <1>2 DEF IInv

(* The steps that poll.                                                    *)
PollTurn ==
  /\ Poll(Segment)
  /\ UNCHANGED <<call, ret, max_loops>>
  /\ loops' \in {loops, loops + 1}
  /\ \/ timeout' = timeout
     \/ timeout > 0 /\ timeout' = timeout - 1
  /\ call = "tcp_connect" => tcp_state = "SYN_SENT"
  /\ call = "tcp_receive" => ~ tcp_rx_done

LEMMA PollKeepsIInv ==
  ASSUME IInv, PollTurn
  PROVE  IInv'
<1> USE DEF PollTurn
<1>1. PollEffect
  BY PollEffects DEF IInv, TypeOK, BufferAccounting
<1>2. TypeOK'
  BY <1>1, TcpAssumption DEF IInv, TypeOK, PollEffect
<1>3. BufferAccounting'
  BY <1>1 DEF IInv, BufferAccounting, PollEffect
<1>4. ConnectState'
  BY <1>1 DEF PollEffect, ConnectState, Open
<1>5. DoneMeans'
  BY <1>1 DEF IInv, TypeOK, ReceiverType, PollEffect, DoneMeans
<1>6. OpenHasPort'
  BY <1>1 DEF IInv, PollEffect, OpenHasPort
<1> QED
  BY <1>2, <1>3, <1>4, <1>5, <1>6 DEF IInv

(* The invariant is inductive.                                             *)
LEMMA NextIInv == IInv /\ [Next]_clientVars => IInv'
<1> SUFFICES ASSUME IInv, [Next]_clientVars PROVE IInv'
  OBVIOUS
<1> USE TcpAssumption DEF IInv
<1>0. /\ <<>> \in Seq(SegmentType) /\ <<>> \in Seq(Byte)
      /\ {"SYN"} \in SUBSET Flag /\ {"PSH", "ACK"} \in SUBSET Flag
      /\ {"FIN", "ACK"} \in SUBSET Flag
      /\ tcp_state # "CLOSED" => tcp_local_port \in Port
  BY EmptySeq DEF Flag, OpenHasPort, TypeOK, SessionType
<1>1. ASSUME NEW port \in Port, NEW isn \in ISN, TcpConnect(port, isn)
      PROVE  IInv'
  BY <1>0, <1>1
  DEF TcpConnect, TypeOK, SessionType, ReceiverType, BufferAccounting,
      Accounting, ConnectState, DoneMeans, OpenHasPort, TcpState, Call,
      receiver
<1>2. ASSUME NEW data \in Payload, TcpSend(data)
      PROVE  IInv'
  <2>1. data \in Seq(Byte) /\ Len(data) \in Nat
    BY LenProperties
  <2>2. tcp_seq' \in 0 .. Word - 1
    BY <1>2, <2>1 DEF TcpSend, Plus, TypeOK, SessionType
  <2>3. ret' \in Result
    BY <1>2, <2>1 DEF TcpSend, Return, Result
  <2>4. tx' \in Seq(SegmentType)
    <3>1. CASE tcp_state = "ESTABLISHED"
      <4>1. SendTcp({"PSH", "ACK"}, tcp_seq, tcp_ack, data) \in SegmentType
        BY <1>0, <2>1, <3>1, SendTcpType DEF TypeOK, SessionType
      <4>2. tx' = <<SendTcp({"PSH", "ACK"}, tcp_seq, tcp_ack, data)>>
        BY <1>2, <3>1 DEF TcpSend
      <4> QED
        BY <4>1, <4>2
    <3>2. CASE tcp_state # "ESTABLISHED"
      BY <1>0, <1>2, <3>2 DEF TcpSend
    <3> QED
      BY <3>1, <3>2
  <2>5. UNCHANGED <<tcp_local_port, tcp_state, tcp_ack, receiver, call, loops,
                    max_loops, timeout>>
    BY <1>2 DEF TcpSend, Return
  <2> QED
    BY <2>2, <2>3, <2>4, <2>5
    DEF TypeOK, SessionType, ReceiverType, BufferAccounting, Accounting,
        ConnectState, DoneMeans, OpenHasPort, receiver
<1>3. ASSUME NEW b \in Buffer, NEW n \in MaxLen, NEW ms \in TimeoutMs,
             TcpReceive(b, n, ms)
      PROVE  IInv'
  <2>1. max_loops' \in Nat
    BY <1>3 DEF TcpReceive
  <2>2. /\ rx_data' \in [Buffer -> Seq(Byte)]
        /\ rx_data'[tcp_rx_buffer'] = <<>>
        /\ tcp_rx_buffer' \in Buffer
    BY <1>0, <1>3 DEF TcpReceive, TypeOK, ReceiverType
  <2>3. TypeOK'
    BY <1>0, <1>3, <2>1, <2>2
    DEF TcpReceive, TypeOK, SessionType, ReceiverType, Call, session
  <2>4. BufferAccounting'
    BY <1>0, <1>3, <2>2, EmptySeq
    DEF TcpReceive, BufferAccounting, Accounting
  <2>5. ConnectState' /\ DoneMeans' /\ OpenHasPort'
    BY <1>3 DEF TcpReceive, ConnectState, DoneMeans, OpenHasPort, session
  <2> QED
    BY <2>3, <2>4, <2>5
<1>4. CASE TcpClose
  <2>1. tx' \in Seq(SegmentType)
    <3>1. CASE tcp_state = "ESTABLISHED"
      <4>1. SendTcp({"FIN", "ACK"}, tcp_seq, tcp_ack, <<>>) \in SegmentType
        BY <1>0, <3>1, SendTcpType DEF TypeOK, SessionType
      <4>2. tx' = <<SendTcp({"FIN", "ACK"}, tcp_seq, tcp_ack, <<>>)>>
        BY <1>4, <3>1 DEF TcpClose
      <4> QED
        BY <4>1, <4>2
    <3>2. CASE tcp_state # "ESTABLISHED"
      BY <1>0, <1>4, <3>2 DEF TcpClose
    <3> QED
      BY <3>1, <3>2
  <2> QED
    BY <1>4, <2>1
    DEF TcpClose, TypeOK, SessionType, ReceiverType, BufferAccounting,
        Accounting, ConnectState, DoneMeans, OpenHasPort, TcpState, Call,
        receiver
<1>5. CASE ConnectSend
  <2>1. tx' \in Seq(SegmentType)
    <3>1. SendTcp({"SYN"}, tcp_seq, tcp_ack, <<>>) \in SegmentType
      BY <1>0, <1>5, SendTcpType
      DEF ConnectSend, Connecting, TypeOK, SessionType
    <3> QED
      BY <1>5, <3>1 DEF ConnectSend
  <2> QED
    BY <1>5, <2>1
    DEF ConnectSend, TypeOK, SessionType, ReceiverType, BufferAccounting,
        Accounting, ConnectState, DoneMeans, OpenHasPort, session, receiver
<1>6. CASE ConnectPoll(Segment)
  <2>1. PollTurn
    BY <1>6 DEF ConnectPoll, Connecting, ConnectState, PollTurn
  <2> QED
    BY <2>1, PollKeepsIInv
<1>7. CASE ReceivePoll(Segment)
  <2>1. PollTurn
    BY <1>7 DEF ReceivePoll, Receiving, PollTurn
  <2> QED
    BY <2>1, PollKeepsIInv
<1>8. CASE ClosePoll(Segment)
  <2>1. PollTurn
    BY <1>8 DEF ClosePoll, Draining, PollTurn
  <2> QED
    BY <2>1, PollKeepsIInv
<1>9. CASE PollElsewhere(Segment)
  <2>1. PollTurn
    BY <1>9 DEF PollElsewhere, control, PollTurn
  <2> QED
    BY <2>1, PollKeepsIInv
<1>10. CASE ConnectReturn
  BY <1>0, <1>10
  DEF ConnectReturn, Return, TypeOK, SessionType, ReceiverType,
      BufferAccounting, Accounting, ConnectState, DoneMeans, OpenHasPort,
      Call, Result, session, receiver
<1>11. CASE ReceiveReturn
  BY <1>0, <1>11
  DEF ReceiveReturn, Return, TypeOK, SessionType, ReceiverType,
      BufferAccounting, Accounting, ConnectState, DoneMeans, OpenHasPort,
      Call, Result, session
<1>12. CASE CloseReturn
  BY <1>0, <1>12
  DEF CloseReturn, Return, TypeOK, SessionType, ReceiverType,
      BufferAccounting, Accounting, ConnectState, DoneMeans, OpenHasPort,
      TcpState, Call, Result, receiver
<1>13. CASE UNCHANGED clientVars
  BY <1>13
  DEF TypeOK, SessionType, ReceiverType, BufferAccounting, Accounting,
      ConnectState, DoneMeans, OpenHasPort, clientVars, session, receiver,
      control
<1> QED
  BY <1>1, <1>2, <1>3, <1>4, <1>5, <1>6, <1>7, <1>8, <1>9, <1>10, <1>11,
     <1>12, <1>13
  DEF Next, ClientNext, Application, CallStep

LEMMA InvariantIInv == Spec => []IInv
<1>1. Init => IInv
  BY InitIInv
<1>2. IInv /\ [Next]_clientVars => IInv'
  BY NextIInv
<1> QED
  BY <1>1, <1>2, PTL DEF Spec

-----------------------------------------------------------------------------
(* The variables keep their types, for every Word, MaxLoops and Segment.   *)
THEOREM TypeCorrect == Spec => []TypeOK
<1>1. IInv => TypeOK
  BY DEF IInv
<1> QED
  BY <1>1, InvariantIInv, PTL

(* handle_tcp never writes past the buffer given to tcp_receive, whatever  *)
(* the payload lengths, and tcp_receive reports what was written.          *)
THEOREM AccountingCorrect == Spec => []BufferAccounting
<1>1. IInv => BufferAccounting
  BY DEF IInv
<1> QED
  BY <1>1, InvariantIInv, PTL

(* What a step that is not a poll does to the wire and to the buffers.     *)
QuietStep ==
  \/ UNCHANGED clientVars
  \/ \E port \in Port, isn \in ISN : TcpConnect(port, isn)
  \/ \E b \in Buffer, n \in MaxLen, ms \in TimeoutMs : TcpReceive(b, n, ms)
  \/ ConnectReturn
  \/ ReceiveReturn
  \/ CloseReturn

LEMMA StepCases ==
  ASSUME IInv, [Next]_clientVars
  PROVE  \/ QuietStep
         \/ PollTurn
         \/ ConnectSend
         \/ TcpClose
         \/ \E data \in Payload : TcpSend(data)
<1> USE DEF IInv
<1>1. CASE ConnectPoll(Segment)
  BY <1>1 DEF ConnectPoll, Connecting, ConnectState, PollTurn
<1>2. CASE ReceivePoll(Segment)
  BY <1>2 DEF ReceivePoll, Receiving, PollTurn
<1>3. CASE ClosePoll(Segment)
  BY <1>3 DEF ClosePoll, Draining, PollTurn
<1>4. CASE PollElsewhere(Segment)
  BY <1>4 DEF PollElsewhere, control, PollTurn
<1> QED
  BY <1>1, <1>2, <1>3, <1>4
  DEF Next, ClientNext, Application, CallStep, QuietStep

(* Nothing writes a receive buffer outside tcp_receive: the pointer it     *)
(* clears is the only one handle_tcp copies through.                       *)
THEOREM BufferIsReturned == Spec => BufferReturned
<1>1. IInv /\ [Next]_clientVars
        => [rx_data' # rx_data => call' = "tcp_receive"]_clientVars
  <2> SUFFICES ASSUME IInv, [Next]_clientVars, rx_data' # rx_data
               PROVE  call' = "tcp_receive"
    OBVIOUS
  <2>1. CASE PollTurn
    <3>1. tcp_rx_buffer # NULL /\ call' = call
      BY <2>1, PollEffects
      DEF PollTurn, PollEffect, IInv, TypeOK, BufferAccounting
    <3> QED
      BY <3>1 DEF IInv, BufferAccounting
  <2>2. CASE QuietStep
    BY <2>2
    DEF QuietStep, clientVars, receiver, TcpConnect, TcpReceive,
        ConnectReturn, ReceiveReturn, CloseReturn
  <2>3. CASE ConnectSend \/ TcpClose \/ \E data \in Payload : TcpSend(data)
    BY <2>3 DEF ConnectSend, TcpClose, TcpSend, receiver
  <2> QED
    BY <2>1, <2>2, <2>3, StepCases
<1> QED
  BY <1>1, InvariantIInv, PTL DEF Spec, BufferReturned

(* A session that is closed, reset or past the exchange of FINs transmits  *)
(* nothing until the next tcp_connect.                                     *)
THEOREM ClosedIsSilent == Spec => SilentWhenClosed
<1>1. IInv /\ [Next]_clientVars
        => [(tcp_state \in {"CLOSED", "CLOSED_DONE"}) => tx' = <<>>]_clientVars
  <2> SUFFICES ASSUME IInv, [Next]_clientVars, clientVars' # clientVars,
                      tcp_state \in {"CLOSED", "CLOSED_DONE"}
               PROVE  tx' = <<>>
    BY DEF clientVars
  <2>1. CASE PollTurn
    BY <2>1, PollEffects
    DEF PollTurn, PollEffect, IInv, TypeOK, BufferAccounting
  <2>2. CASE QuietStep
    BY <2>2
    DEF QuietStep, TcpConnect, TcpReceive, ConnectReturn, ReceiveReturn,
        CloseReturn
  <2>3. CASE ConnectSend
    BY <2>3 DEF ConnectSend, Connecting, IInv, ConnectState
  <2>4. CASE TcpClose \/ \E data \in Payload : TcpSend(data)
    BY <2>4 DEF TcpClose, TcpSend
  <2> QED
    BY <2>1, <2>2, <2>3, <2>4, StepCases
<1> QED
  BY <1>1, InvariantIInv, PTL DEF Spec, SilentWhenClosed

(* tcp_receive neither hides bytes behind a timeout nor reports an empty   *)
(* success unless a reset has closed the session.                          *)
THEOREM ReceiveIsHonest == Spec => HonestReceive
<1>1. IInv /\ [Next]_clientVars => [call' # call => ReceiveReport]_clientVars
  <2> SUFFICES ASSUME IInv, [Next]_clientVars, call' # call,
                      call = "tcp_receive"
               PROVE  ReceiveReport
    BY DEF ReceiveReport
  <2>1. ReceiveReturn
    BY StepCases
    DEF QuietStep, PollTurn, ConnectSend, Connecting, TcpClose, TcpSend,
        TcpConnect, TcpReceive, ConnectReturn, CloseReturn, clientVars, control
  <2>2. tcp_rx_current_len \in Nat /\ tcp_rx_done \in BOOLEAN
    BY DEF IInv, TypeOK, ReceiverType
  <2> QED
    BY <2>1, <2>2
    DEF ReceiveReturn, Return, ReceiveReport, IInv, DoneMeans, session
<1> QED
  BY <1>1, InvariantIInv, PTL DEF Spec, HonestReceive

-----------------------------------------------------------------------------
(* tcp_connect is a blocking call: it succeeds exactly when the session    *)
(* became established while it ran.                                        *)
THEOREM ConnectImplementsCall == Spec => ConnectCall!SafetySpec
<1> USE DEF ResultOf
<1>1. Init => ConnectCall!Init
  BY DEF Init, ClientInit, ConnectCall!Init
<1>2. IInv /\ [Next]_clientVars => [ConnectCall!Next]_(ConnectCall!callVars)
  <2> SUFFICES ASSUME IInv, [Next]_clientVars
               PROVE  [ConnectCall!Next]_(ConnectCall!callVars)
    OBVIOUS
  <2> USE DEF ConnectCall!Next, ConnectCall!callVars
  <2>1. CASE PollTurn
    <3>1. call' = call /\ ret' = ret
      BY <2>1 DEF PollTurn
    <3>2. CASE call = "tcp_connect"
      BY <2>1, <3>1, <3>2 DEF PollTurn, ConnectCall!Arrive
    <3>3. CASE call # "tcp_connect"
      BY <3>1, <3>3
    <3> QED
      BY <3>2, <3>3
  <2>2. CASE UNCHANGED clientVars
    BY <2>2 DEF clientVars, session, control
  <2>3. ASSUME NEW port \in Port, NEW isn \in ISN, TcpConnect(port, isn)
        PROVE  ConnectCall!Start
    BY <2>3 DEF TcpConnect, ConnectCall!Start
  <2>4. CASE ConnectReturn
    BY <2>4 DEF ConnectReturn, Return, ConnectCall!Return
  <2>5. ASSUME NEW b \in Buffer, NEW n \in MaxLen, NEW ms \in TimeoutMs,
               TcpReceive(b, n, ms)
        PROVE  UNCHANGED ConnectCall!callVars
    BY <2>5 DEF TcpReceive
  <2>6. CASE TcpClose
    BY <2>6 DEF TcpClose
  <2>7. CASE ConnectSend
    BY <2>7 DEF ConnectSend, session
  <2>8. CASE ReceiveReturn
    BY <2>8 DEF ReceiveReturn, Return, ConnectCall!Forget
  <2>9. CASE CloseReturn
    BY <2>9 DEF CloseReturn, Return, ConnectCall!Forget
  <2>10. CASE \E data \in Payload : TcpSend(data)
    BY <2>10 DEF TcpSend, Return, ConnectCall!Forget
  <2> QED
    BY <2>1, <2>2, <2>3, <2>4, <2>5, <2>6, <2>7, <2>8, <2>9, <2>10, StepCases
    DEF QuietStep
<1> QED
  BY <1>1, <1>2, InvariantIInv, PTL DEF Spec, ConnectCall!SafetySpec

(* tcp_receive is a blocking call: a completion left over from an earlier  *)
(* call never ends it.                                                     *)
THEOREM ReceiveImplementsCall == Spec => ReceiveCall!SafetySpec
<1> USE DEF ResultOf
<1>1. Init => ReceiveCall!Init
  BY DEF Init, ClientInit, ReceiveCall!Init
<1>2. IInv /\ [Next]_clientVars => [ReceiveCall!Next]_(ReceiveCall!callVars)
  <2> SUFFICES ASSUME IInv, [Next]_clientVars
               PROVE  [ReceiveCall!Next]_(ReceiveCall!callVars)
    OBVIOUS
  <2> USE DEF ReceiveCall!Next, ReceiveCall!callVars
  <2>1. CASE PollTurn
    <3>1. call' = call /\ ret' = ret
      BY <2>1 DEF PollTurn
    <3>2. CASE call = "tcp_receive"
      <4>1. ~ tcp_rx_done /\ tcp_rx_done' \in BOOLEAN
        BY <2>1, <3>2, PollEffects
        DEF PollTurn, PollEffect, IInv, TypeOK, BufferAccounting, ReceiverType
      <4> QED
        BY <3>1, <3>2, <4>1 DEF ReceiveCall!Arrive
    <3>3. CASE call # "tcp_receive"
      BY <3>1, <3>3
    <3> QED
      BY <3>2, <3>3
  <2>2. CASE UNCHANGED clientVars
    BY <2>2 DEF clientVars, receiver, control
  <2>3. ASSUME NEW b \in Buffer, NEW n \in MaxLen, NEW ms \in TimeoutMs,
               TcpReceive(b, n, ms)
        PROVE  ReceiveCall!Start
    BY <2>3 DEF TcpReceive, ReceiveCall!Start
  <2>4. CASE ReceiveReturn
    BY <2>4 DEF ReceiveReturn, Return, ReceiveCall!Return
  <2>5. ASSUME NEW port \in Port, NEW isn \in ISN, TcpConnect(port, isn)
        PROVE  UNCHANGED ReceiveCall!callVars
    BY <2>5 DEF TcpConnect
  <2>6. CASE TcpClose
    BY <2>6 DEF TcpClose
  <2>7. CASE ConnectSend
    BY <2>7 DEF ConnectSend, Connecting
  <2>8. CASE ConnectReturn
    BY <2>8 DEF ConnectReturn, Return, ReceiveCall!Forget
  <2>9. CASE CloseReturn
    BY <2>9 DEF CloseReturn, Return, ReceiveCall!Forget
  <2>10. CASE \E data \in Payload : TcpSend(data)
    BY <2>10 DEF TcpSend, Return, ReceiveCall!Forget
  <2> QED
    BY <2>1, <2>2, <2>3, <2>4, <2>5, <2>6, <2>7, <2>8, <2>9, <2>10, StepCases
    DEF QuietStep
<1> QED
  BY <1>1, <1>2, InvariantIInv, PTL DEF Spec, ReceiveCall!SafetySpec

=============================================================================
