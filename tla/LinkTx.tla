-------------------------------- MODULE LinkTx --------------------------------
(***************************************************************************)
(* core::send_raw and the transmit half of the NIC behind the Simple       *)
(* Network Protocol.  There is one transmit buffer, tx_pkt.  Transmit only *)
(* queues a reference to it; the NIC reads the buffer later and reports    *)
(* the completion through GetStatus, once per frame.  Between two frames   *)
(* core::poll may reset the NIC, which empties its queues.                 *)
(***************************************************************************)
EXTENDS Integers, Sequences

CONSTANTS
  MaxFrames,     (* Bound on the frames handed to send_raw.                *)
  TxRetries      (* TIMEOUT_TX_RETRIES.                                    *)

ASSUME LinkTxAssumption ==
  /\ MaxFrames \in Nat
  /\ TxRetries \in Nat \ {0}

VARIABLES
  frame,         (* Number of the latest frame handed to send_raw.         *)
  pc,            (* Where send_raw is.                                     *)
  retries,
  status,        (* What the latest send_raw returned.                     *)
  tx_pkt,        (* The frame in the transmit buffer; 0 when none was.     *)
  queued,        (* Frames the NIC has accepted and not yet read.          *)
  completions,   (* Frames it has sent and not yet reported.               *)
  accepted,      (* History: frames whose Transmit succeeded, less lost.   *)
  wire,          (* History: what the NIC has put on the wire for each.    *)
  lost,          (* History: frames a reset has thrown out of the queue.   *)
  gaveUp         (* History: the retries have run out at least once.       *)

sender == <<frame, pc, retries, status, tx_pkt>>
nic == <<queued, completions, accepted, wire, lost>>
linkVars == <<sender, nic, gaveUp>>

(* The GetStatus before Transmit, whose answer is not looked at: it takes  *)
(* one completion from the NIC if there is one, unless it fails.           *)
GetStatus ==
  completions' \in {completions, IF completions > 0 THEN completions - 1 ELSE 0}

(* Faulty variant: the frame is not copied.                                *)
SendRawNoCopy ==
  /\ pc = "idle"
  /\ frame < MaxFrames
  /\ frame' = frame + 1
  /\ GetStatus
  /\ pc' = "transmit"
  /\ UNCHANGED <<retries, status, tx_pkt, queued, accepted, wire, lost, gaveUp>>

(* The copy into the buffer, and a GetStatus.                              *)
SendRaw ==
  /\ pc = "idle"
  /\ frame < MaxFrames
  /\ frame' = frame + 1
  /\ tx_pkt' = frame + 1
  /\ GetStatus
  /\ pc' = "transmit"
  /\ UNCHANGED <<retries, status, queued, accepted, wire, lost, gaveUp>>

(* Transmit fails, for instance because the NIC's queue is full.           *)
TransmitFails ==
  /\ pc = "transmit"
  /\ pc' = "idle"
  /\ status' = "ERROR"
  /\ UNCHANGED <<frame, retries, tx_pkt, nic, gaveUp>>

(* Faulty variant: no wait for the completion.                             *)
TransmitNoWait ==
  /\ pc = "transmit"
  /\ queued' = queued + 1
  /\ accepted' = Append(accepted, frame)
  /\ status' = "SUCCESS"
  /\ pc' = "idle"
  /\ UNCHANGED <<frame, retries, tx_pkt, completions, wire, lost, gaveUp>>

Transmit ==
  /\ pc = "transmit"
  /\ queued' = queued + 1
  /\ accepted' = Append(accepted, frame)
  /\ retries' = TxRetries
  /\ pc' = "wait"
  /\ UNCHANGED <<frame, status, tx_pkt, completions, wire, lost, gaveUp>>

Finish ==
  /\ pc' = "idle"
  /\ status' = "SUCCESS"

(* GetStatus reports a recycled buffer.                                    *)
Completed ==
  /\ pc = "wait" /\ retries > 0
  /\ completions > 0
  /\ completions' = completions - 1
  /\ Finish
  /\ UNCHANGED <<frame, retries, tx_pkt, queued, accepted, wire, lost, gaveUp>>

(* Faulty variant: the retries are not counted.                            *)
NotYetForever ==
  /\ pc = "wait" /\ retries > 0
  /\ UNCHANGED linkVars

(* GetStatus reports none, or fails.                                       *)
NotYet ==
  /\ pc = "wait" /\ retries > 0
  /\ retries' = retries - 1
  /\ UNCHANGED <<frame, pc, status, tx_pkt, nic, gaveUp>>

(* The retries are used up.                                                *)
GiveUp ==
  /\ pc = "wait" /\ retries = 0
  /\ Finish
  /\ gaveUp' = TRUE
  /\ UNCHANGED <<frame, retries, tx_pkt, nic>>

(* The NIC (external) reads the buffer as it is by then, and sends it.     *)
NicSends ==
  /\ queued > 0
  /\ queued' = queued - 1
  /\ wire' = Append(wire, tx_pkt)
  /\ completions' = completions + 1
  /\ UNCHANGED <<sender, accepted, lost, gaveUp>>

(* poll's answer to a receive error: Reset, whose status is ignored.  It   *)
(* empties the queue; completions not yet reported may be forgotten too.   *)
ResetNic ==
  /\ pc = "idle"
  /\ lost' = lost \cup {accepted[k] : k \in Len(wire) + 1 .. Len(accepted)}
  /\ accepted' = SubSeq(accepted, 1, Len(wire))
  /\ queued' = 0
  /\ completions' \in {0, completions}
  /\ UNCHANGED <<sender, wire, gaveUp>>

Init ==
  /\ frame = 0 /\ pc = "idle" /\ retries = 0 /\ status = "SUCCESS"
  /\ tx_pkt = 0
  /\ queued = 0 /\ completions = 0 /\ accepted = <<>> /\ wire = <<>>
  /\ lost = {} /\ gaveUp = FALSE

SendStep == TransmitFails \/ Transmit \/ Completed \/ NotYet \/ GiveUp

Next == SendRaw \/ SendStep \/ NicSends \/ ResetNic

(* send_raw keeps running; nothing obliges the NIC to send.                *)
Spec == Init /\ [][Next]_linkVars /\ WF_linkVars(SendStep)

-----------------------------------------------------------------------------
(* Properties.                                                             *)

TypeOK ==
  /\ frame \in 0 .. MaxFrames /\ tx_pkt \in 0 .. MaxFrames
  /\ pc \in {"idle", "transmit", "wait"}
  /\ retries \in 0 .. TxRetries
  /\ status \in {"SUCCESS", "ERROR"}
  /\ queued \in Nat /\ completions \in Nat
  /\ accepted \in Seq(1 .. MaxFrames) /\ wire \in Seq(0 .. MaxFrames)
  /\ lost \subseteq 1 .. MaxFrames /\ gaveUp \in BOOLEAN

(* As long as no completion has taken longer than all the retries, what    *)
(* goes out on the wire is what the callers passed: every accepted frame   *)
(* once, in order and with its own contents, and no reset throws one away. *)
FramesIntact ==
  ~ gaveUp =>
    /\ lost = {}
    /\ Len(wire) + queued = Len(accepted)
    /\ \A k \in DOMAIN wire : wire[k] = accepted[k]

(* "polls GetStatus() until the NIC signals completion" (core.hpp:26): a   *)
(* send_raw that returns success has sent its frame.                       *)
SuccessMeansSent ==
  pc = "idle" /\ status = "SUCCESS" /\ frame > 0 =>
    \E k \in DOMAIN wire : wire[k] = frame

(* That much is true until the retries run out for the first time.         *)
SuccessMeansSentInTime == ~ gaveUp => SuccessMeansSent

(* However late the NIC reads the buffer, what it sends is never older than *)
(* the frame it was asked to send.                                         *)
WireNeverOlder == \A k \in DOMAIN wire : wire[k] >= accepted[k]

(* send_raw returns, whether or not the NIC ever completes a frame.        *)
SendReturns == pc # "idle" ~> pc = "idle"

=============================================================================
