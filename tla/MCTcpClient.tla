----------------------------- MODULE MCTcpClient -----------------------------
(* TcpClient with every segment of a small universe arriving at any time.  *)
EXTENDS TcpClientProps

MCPayload == {<<>>, <<0>>, <<0, 0>>}

MCFlags == {{"SYN", "ACK"}, {"ACK"}, {"FIN", "ACK"}, {"RST"}}

MCSegment ==
  [port : Port, flags : MCFlags, seq : {Word - 1}, ack : {0, 1},
   data : MCPayload]

=============================================================================
