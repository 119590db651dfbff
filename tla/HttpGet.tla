------------------------------- MODULE HttpGet -------------------------------
(***************************************************************************)
(* api::http_get: resolve_hostname, tcp_connect, tcp_send, tcp_receive and *)
(* tcp_close one after the other, on the session of TcpSession and with    *)
(* its server and network.  The application makes such calls, and between  *)
(* them calls of other APIs that poll.                                     *)
(*                                                                         *)
(* The calls themselves are the actions of TcpClient; what is added here   *)
(* is the control state of http_get around them.  resolve_hostname matters *)
(* only for the segments its loop polls.                                   *)
(***************************************************************************)
EXTENDS TcpSessionProps

CONSTANTS
  ResolveLoops    (* Turns of the loop of resolve_hostname.                *)

ASSUME HttpAssumption == ResolveLoops \in Nat

VARIABLES
  http,           (* The call http_get is in or about to make, or idle.    *)
  turns,          (* Loop counter of resolve_hostname.                     *)
  st,             (* The local st of http_get.                             *)
  httpRet         (* What the latest http_get returned, with actual_len.   *)

httpVars == <<http, turns, st, httpRet>>
allVars == <<vars, httpVars>>

None == [status |-> "none", len |-> 0]

Finish(result) == http' = "idle" /\ httpRet' = result

HttpGet ==
  /\ http = "idle" /\ call = "none"
  /\ http' = "resolve" /\ turns' = 0
  /\ tx' = <<>>
  /\ UNCHANGED <<session, receiver, control, history, st, httpRet>>

(* A turn of resolve_hostname: a late segment of the previous connection   *)
(* may be handled here.                                                    *)
ResolvePoll ==
  /\ http = "resolve"
  /\ turns < ResolveLoops
  /\ PollElsewhere(toClient)
  /\ turns' = turns + 1
  /\ UNCHANGED <<history, http, st, httpRet>>

ResolveFails ==
  /\ http = "resolve" /\ turns = ResolveLoops
  /\ Finish([status |-> "TIMEOUT", len |-> 0])
  /\ tx' = <<>>
  /\ UNCHANGED <<session, receiver, control, history, turns, st>>

HttpConnect ==
  /\ http = "resolve" /\ turns > 0
  /\ Connect
  /\ http' = "connect"
  /\ UNCHANGED <<turns, st, httpRet>>

(* tcp_connect has returned an error, and so does http_get: the session    *)
(* stays as it is.                                                         *)
HttpConnectFailed ==
  /\ http = "connect" /\ call = "none"
  /\ ret.status # "SUCCESS"
  /\ Finish([status |-> ret.status, len |-> 0])
  /\ tx' = <<>>
  /\ UNCHANGED <<session, receiver, control, history, turns, st>>

(* The request, cut to the buffer it is built in, is one tcp_send; should  *)
(* it fail, the session is closed.                                         *)
HttpSend ==
  /\ http = "connect" /\ call = "none"
  /\ ret.status = "SUCCESS"
  /\ Send
  /\ http' = IF ret'.status = "SUCCESS" THEN "receive" ELSE "close"
  /\ UNCHANGED <<turns, st, httpRet>>

HttpReceive ==
  /\ http = "receive" /\ call = "none"
  /\ Receive
  /\ http' = "close"
  /\ UNCHANGED <<turns, st, httpRet>>

(* Faulty variant: what was received is taken for the end of the session.  *)
HttpCloseOnTimeout ==
  /\ http = "close" /\ call = "none"
  /\ st' = [status |-> ret.status, len |-> ret.len]
  /\ IF ret.status = "SUCCESS"
     THEN /\ Finish(st')
          /\ tx' = <<>>
          /\ UNCHANGED <<session, receiver, control>>
     ELSE /\ TcpClose
          /\ http' = "return"
          /\ UNCHANGED httpRet
  /\ UNCHANGED <<history, turns>>

HttpClose ==
  /\ http = "close" /\ call = "none"
  /\ st' = [status |-> ret.status, len |-> ret.len]
  /\ TcpClose
  /\ http' = "return"
  /\ UNCHANGED <<history, turns, httpRet>>

HttpReturn ==
  /\ http = "return" /\ call = "none"
  /\ Finish(st)
  /\ tx' = <<>>
  /\ UNCHANGED <<session, receiver, control, history, turns, st>>

(* What http_get does of itself between the steps of the calls it makes.   *)
GetStep ==
  /\ \/ ResolvePoll \/ ResolveFails \/ HttpConnect \/ HttpConnectFailed
     \/ HttpSend \/ HttpReceive \/ HttpClose \/ HttpReturn
  /\ Transmit
  /\ UNCHANGED <<peer, toClient>>

(* A step of the TCP call in progress, whoever has made it.                *)
TcpStep ==
  /\ CallStep(toClient)
  /\ Transmit
  /\ UNCHANGED <<peer, toClient, history, httpVars>>

(* What the application does while no http_get is in progress.             *)
Program ==
  /\ \/ HttpGet
     \/ /\ http = "idle"
        /\ PollElsewhere(toClient)
        /\ UNCHANGED <<history, httpVars>>
  /\ Transmit
  /\ UNCHANGED <<peer, toClient>>

HttpInit ==
  /\ SessionInit
  /\ http = "idle" /\ turns = 0 /\ st = None /\ httpRet = None

HttpNext ==
  \/ Program
  \/ GetStep
  \/ TcpStep
  \/ PeerStep /\ UNCHANGED httpVars

(* The program keeps running what it is in.                                *)
HttpSpec ==
  /\ HttpInit /\ [][HttpNext]_allVars
  /\ WF_allVars(GetStep) /\ WF_allVars(TcpStep)

-----------------------------------------------------------------------------
(* Properties.                                                             *)

(* "receives the response" (api.hpp:562): what http_get hands out is the   *)
(* beginning of one segment that the server has sent on the connection of  *)
(* this very call, as much of it as fits, whatever other segments of this  *)
(* or an earlier connection are polled during the call.                    *)
OneSegment ==
  \E b \in Buffer, seg \in toClient :
    /\ seg.port = tcp_local_port
    /\ st'.len = CHOOSE n \in {tcp_rx_max_len, Len(seg.data)} :
                    n <= tcp_rx_max_len /\ n <= Len(seg.data)
    /\ rx_data[b] = SubSeq(seg.data, 1, st'.len)

ResponseIsOneSegment ==
  [][http = "close" /\ http' # "close" /\ st'.status = "SUCCESS" /\ st'.len > 0
     => OneSegment]_allVars

(* However http_get ends once it has called tcp_connect, it leaves neither *)
(* an open session nor a posted buffer behind; only the SYN of a           *)
(* connection that was never answered may be (api.hpp:580).                *)
GetLeavesNoSession ==
  [][http \notin {"idle", "resolve"} /\ http' = "idle" =>
       /\ tcp_state' \in {"CLOSED", "SYN_SENT"}
       /\ tcp_rx_buffer' = NULL
       /\ httpRet'.status = "SUCCESS" => tcp_local_port' = 0]_allVars

(* http_get returns, whatever the server and the network do.               *)
GetReturns == http # "idle" ~> http = "idle"

=============================================================================
