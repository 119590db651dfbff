------------------------------- MODULE BringUp -------------------------------
(***************************************************************************)
(* How init_network and init_network_static bring up the NIC: two pages    *)
(* and the SNP handle from the firmware, OpenProtocol with the attribute   *)
(* EXCLUSIVE, then Stop, Start, Initialize and ReceiveFilters, of which no *)
(* status is looked at.  What the firmware's services do is external; it   *)
(* is modelled from the states of EFI_SIMPLE_NETWORK_MODE the code tests.  *)
(***************************************************************************)
VARIABLES
  snp,           (* This image holds the protocol open, exclusively.       *)
  nic            (* Mode->State.                                           *)

firmware == <<snp, nic>>

NicState == {"Stopped", "Started", "Initialized"}

(* What each service may leave of a NIC in state s, whether it works or    *)
(* fails.  A driver that DisconnectController removes stops the NIC.       *)
Disconnect(s) == {s, "Stopped"}
Stop(s) == IF s = "Started" THEN {s, "Stopped"} ELSE {s}
Start(s) == IF s = "Stopped" THEN {s, "Started"} ELSE {s}
Initialize(s) == IF s = "Started" THEN {s, "Initialized"} ELSE {s}

Each(Service(_), states) == UNION {Service(s) : s \in states}

(* No memory, no NIC, or access denied for the second time as well: a      *)
(* protocol opened exclusively, by this very image too, is denied.         *)
BringUpFails ==
  /\ nic' \in Disconnect(nic)
  /\ UNCHANGED snp

BringUpWorks ==
  /\ ~ snp
  /\ snp' = TRUE
  /\ nic' \in Each(Initialize, Each(Start, Each(Stop, Disconnect(nic))))

(* An image that ends has its protocols closed by the firmware.            *)
CloseProtocols ==
  /\ snp' = FALSE
  /\ UNCHANGED nic

PowerCycle == snp' = FALSE /\ nic' = "Stopped"

FirmwareInit == snp = FALSE /\ nic \in NicState

=============================================================================
