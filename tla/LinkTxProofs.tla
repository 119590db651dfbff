----------------------------- MODULE LinkTxProofs -----------------------------
(***************************************************************************)
(* Proofs about LinkTx, for any number of frames and retries and a NIC     *)
(* that sends and completes them as late as it likes.                      *)
(***************************************************************************)
EXTENDS LinkTx, TLAPS

(* While send_raw runs there is a frame, and the NIC owes one transmission *)
(* for every accepted frame it has not sent.                               *)
Owing ==
  /\ pc # "idle" => frame > 0
  /\ Len(wire) + queued = Len(accepted)

(* The buffer holds the frame send_raw was called with last, and nothing   *)
(* accepted is younger than that.                                          *)
InBuffer ==
  /\ tx_pkt = frame
  /\ \A k \in DOMAIN accepted : accepted[k] <= tx_pkt
  /\ WireNeverOlder

(* As long as the retries have sufficed there is no frame left in the NIC  *)
(* when send_raw is about to pass it one, and exactly this one after that. *)
OnTime ==
  /\ pc # "wait" => queued = 0 /\ completions = 0
  /\ pc = "wait" =>
       /\ queued + completions = 1
       /\ accepted # <<>> /\ accepted[Len(accepted)] = frame
  /\ lost = {}
  /\ \A k \in DOMAIN wire : wire[k] = accepted[k]
  /\ SuccessMeansSent

Typed == TypeOK /\ Owing

IInv == Typed /\ InBuffer /\ (~ gaveUp => OnTime)

-----------------------------------------------------------------------------
(* The types are kept by every step, and so is what the NIC owes: a reset  *)
(* cancels the debt together with the frames.                              *)
LEMMA TypeStep == Typed /\ [Next]_linkVars => Typed'
<1> SUFFICES ASSUME Typed, [Next]_linkVars PROVE Typed'
  OBVIOUS
<1> USE LinkTxAssumption DEF Typed, TypeOK, Owing
<1>1. CASE SendRaw
  BY <1>1 DEF SendRaw, GetStatus
<1>2. CASE TransmitFails
  BY <1>2 DEF TransmitFails, nic
<1>3. CASE Transmit
  <2>1. frame \in 1 .. MaxFrames
    BY <1>3 DEF Transmit
  <2>2. /\ Append(accepted, frame) \in Seq(1 .. MaxFrames)
        /\ Len(Append(accepted, frame)) = Len(accepted) + 1
    BY <2>1
  <2>3. TypeOK'
    BY <1>3, <2>2 DEF Transmit
  <2>4. Owing'
    BY <1>3, <2>2 DEF Transmit
  <2> QED
    BY <2>3, <2>4
<1>4. CASE Completed
  BY <1>4 DEF Completed, Finish
<1>5. CASE NotYet
  BY <1>5 DEF NotYet, nic
<1>6. CASE GiveUp
  BY <1>6 DEF GiveUp, Finish, nic
<1>7. CASE NicSends
  <2>1. /\ wire' \in Seq(0 .. MaxFrames)
        /\ Len(wire') = Len(wire) + 1
    BY <1>7 DEF NicSends
  <2>2. /\ queued > 0 /\ queued' = queued - 1
        /\ completions' = completions + 1
        /\ UNCHANGED <<frame, pc, retries, status, tx_pkt, accepted, lost, gaveUp>>
    BY <1>7 DEF NicSends, sender
  <2>3. TypeOK'
    BY <2>1, <2>2
  <2>4. Owing'
    <3>1. Len(wire') + queued' = Len(wire) + queued
      BY <2>1, <2>2
    <3> QED
      BY <3>1, <2>2
  <2> QED
    BY <2>3, <2>4
<1>8. CASE ResetNic
  <2>1. /\ accepted' \in Seq(1 .. MaxFrames)
        /\ Len(accepted') = Len(wire)
    BY <1>8 DEF ResetNic
  <2>2. lost' \subseteq 1 .. MaxFrames
    <3>1. \A k \in Len(wire) + 1 .. Len(accepted) : accepted[k] \in 1 .. MaxFrames
      OBVIOUS
    <3> QED
      BY <1>8, <3>1 DEF ResetNic
  <2>3. /\ queued' = 0 /\ completions' \in {0, completions}
        /\ UNCHANGED <<frame, pc, retries, status, tx_pkt, wire, gaveUp>>
    BY <1>8 DEF ResetNic, sender
  <2> QED
    BY <2>1, <2>2, <2>3
<1>9. CASE UNCHANGED linkVars
  BY <1>9 DEF linkVars, sender, nic
<1> QED
  BY <1>1, <1>2, <1>3, <1>4, <1>5, <1>6, <1>7, <1>8, <1>9 DEF Next, SendStep

(* No step makes the buffer older than what the NIC is to send from it.    *)
LEMMA BufferStep == Typed /\ InBuffer /\ [Next]_linkVars => InBuffer'
<1> SUFFICES ASSUME Typed, InBuffer, [Next]_linkVars PROVE InBuffer'
  OBVIOUS
<1> USE LinkTxAssumption DEF Typed, TypeOK, Owing, InBuffer, WireNeverOlder
<1>1. CASE SendRaw
  BY <1>1 DEF SendRaw, GetStatus
<1>2. CASE TransmitFails
  BY <1>2 DEF TransmitFails, nic
<1>3. CASE Transmit
  BY <1>3 DEF Transmit
<1>4. CASE Completed
  BY <1>4 DEF Completed, Finish
<1>5. CASE NotYet
  BY <1>5 DEF NotYet, nic
<1>6. CASE GiveUp
  BY <1>6 DEF GiveUp, Finish, nic
<1>7. CASE NicSends
  BY <1>7 DEF NicSends, sender
<1>8. CASE ResetNic
  BY <1>8 DEF ResetNic, sender
<1>9. CASE UNCHANGED linkVars
  BY <1>9 DEF linkVars, sender, nic
<1> QED
  BY <1>1, <1>2, <1>3, <1>4, <1>5, <1>6, <1>7, <1>8, <1>9 DEF Next, SendStep

(* A frame is passed to the NIC only when it has sent the one before, as   *)
(* long as the retries have sufficed.                                      *)
LEMMA OnTimeStep ==
  IInv /\ ~ gaveUp' /\ [Next]_linkVars => OnTime'
<1> SUFFICES ASSUME IInv, ~ gaveUp', [Next]_linkVars PROVE OnTime'
  OBVIOUS
<1> USE LinkTxAssumption
    DEF IInv, Typed, TypeOK, Owing, InBuffer, OnTime, SuccessMeansSent
<1>1. CASE SendRaw
  BY <1>1 DEF SendRaw, GetStatus
<1>2. CASE TransmitFails
  BY <1>2 DEF TransmitFails, nic
<1>3. CASE Transmit
  BY <1>3 DEF Transmit
<1>4. CASE Completed
  BY <1>4 DEF Completed, Finish
<1>5. CASE NotYet
  BY <1>5 DEF NotYet, nic
<1>6. CASE GiveUp
  BY <1>6 DEF GiveUp
<1>7. CASE NicSends
  BY <1>7 DEF NicSends, sender
<1>8. CASE ResetNic
  <2>1. queued = 0 /\ completions = 0 /\ lost = {}
    BY <1>8 DEF ResetNic
  <2>2. Len(wire) + 1 .. Len(accepted) = {}
    BY <2>1
  <2>3. SubSeq(accepted, 1, Len(wire)) = accepted
    BY <2>1
  <2>4. accepted' = accepted /\ lost' = {}
    BY <1>8, <2>1, <2>2, <2>3 DEF ResetNic
  <2> QED
    BY <1>8, <2>1, <2>4 DEF ResetNic, sender
<1>9. CASE UNCHANGED linkVars
  BY <1>9 DEF linkVars, sender, nic
<1> QED
  BY <1>1, <1>2, <1>3, <1>4, <1>5, <1>6, <1>7, <1>8, <1>9 DEF Next, SendStep

LEMMA Inductive == Spec => []IInv
<1>1. Init => IInv
  <2> SUFFICES ASSUME Init PROVE IInv
    OBVIOUS
  <2>1. Typed
    <3>1. /\ accepted \in Seq(1 .. MaxFrames) /\ wire \in Seq(0 .. MaxFrames)
          /\ Len(accepted) = 0 /\ Len(wire) = 0
      BY DEF Init
    <3>2. lost \subseteq 1 .. MaxFrames /\ gaveUp \in BOOLEAN
      BY DEF Init
    <3>3. /\ frame \in 0 .. MaxFrames /\ tx_pkt \in 0 .. MaxFrames
          /\ retries \in 0 .. TxRetries
      BY LinkTxAssumption DEF Init
    <3> QED
      BY <3>1, <3>2, <3>3 DEF Init, Typed, TypeOK, Owing
  <2>2. InBuffer /\ OnTime
    BY DEF Init, InBuffer, OnTime, WireNeverOlder, SuccessMeansSent
  <2> QED
    BY <2>1, <2>2 DEF IInv
<1>2. IInv /\ [Next]_linkVars => IInv'
  <2> SUFFICES ASSUME IInv, [Next]_linkVars PROVE IInv'
    OBVIOUS
  <2>1. Typed'
    BY TypeStep DEF IInv
  <2>2. InBuffer'
    BY BufferStep DEF IInv
  <2>3. ~ gaveUp' => OnTime'
    BY OnTimeStep
  <2> QED
    BY <2>1, <2>2, <2>3 DEF IInv
<1> QED
  BY <1>1, <1>2, PTL DEF Spec

-----------------------------------------------------------------------------
(* send_raw and the NIC keep their types for every number of retries.      *)
THEOREM TypeCorrect == Spec => []TypeOK
<1>1. IInv => TypeOK
  BY DEF IInv, Typed
<1> QED
  BY <1>1, Inductive, PTL

(* The single transmit buffer is safe until the retries run out: every     *)
(* accepted frame goes out once, in order, with its own contents.          *)
THEOREM FramesStayIntact == Spec => []FramesIntact
<1>1. IInv => FramesIntact
  BY DEF IInv, Typed, Owing, OnTime, FramesIntact
<1> QED
  BY <1>1, Inductive, PTL

(* Until then a success of send_raw means that the frame has been sent.    *)
THEOREM SuccessIsTrueInTime == Spec => []SuccessMeansSentInTime
<1>1. IInv => SuccessMeansSentInTime
  BY DEF IInv, OnTime, SuccessMeansSentInTime
<1> QED
  BY <1>1, Inductive, PTL

(* Even after that the NIC never sends a frame older than the accepted one *)
(* it was to send.                                                         *)
THEOREM NothingOldIsSent == Spec => []WireNeverOlder
<1>1. IInv => WireNeverOlder
  BY DEF IInv, InBuffer
<1> QED
  BY <1>1, Inductive, PTL

=============================================================================
