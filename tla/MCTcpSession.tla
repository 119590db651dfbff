----------------------------- MODULE MCTcpSession -----------------------------
(* Values of the constants of TcpSession: bytes for two sends of two, and  *)
(* initial sequence numbers next to the wrap of the sequence space.        *)
EXTENDS TcpSessionProps

MCByte == (Port \cup {0}) \X (1 .. 4)

=============================================================================
