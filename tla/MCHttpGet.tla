------------------------------ MODULE MCHttpGet ------------------------------
(* Two connections one after the other, each by a call of http_get;        *)
(* initial sequence numbers next to the wrap of the sequence space.        *)
EXTENDS HttpGet

MCByte == (Port \cup {0}) \X (1 .. 2)

=============================================================================
