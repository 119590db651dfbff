------------------------------- MODULE MCLinkTx -------------------------------
(* LinkTx with a handful of frames.                                        *)
EXTENDS LinkTx

=============================================================================
