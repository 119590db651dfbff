----------------------------- MODULE NetworkInit -----------------------------
(***************************************************************************)
(* api::init_network and api::init_network_static: the DHCP loop, which    *)
(* reads the NIC itself, then the ARP loop, which runs core::poll and with *)
(* it core::handle_arp and the ARP cache.                                  *)
(*                                                                         *)
(* A step runs from one read of the NIC to the next.  Bringing up the NIC  *)
(* is part of the first one.                                               *)
(***************************************************************************)
EXTENDS ArpCache, BringUp

CONSTANTS
  Xid,           (* Transaction IDs rng::get_u32 can return.               *)
  Retransmit,    (* TIMEOUT_RETRANSMIT.                                    *)
  MaxDhcpLoops,  (* TIMEOUT_DHCP_LOOPS.                                    *)
  MaxArpLoops    (* TIMEOUT_ARP_LOOPS.                                     *)

ASSUME InitAssumption ==
  /\ Retransmit \in Nat \ {0}
  /\ MaxDhcpLoops \in Nat
  /\ MaxArpLoops \in Nat

(* The globals router_ip, dns_server_ip, subnet_mask and dhcp_lease_time,  *)
(* all filled from options in the same way; NoIp stands for 0 in each.     *)
Option == {"router", "dns", "mask", "lease"}

VARIABLES
  my_ip, dhcp_server_ip,
  config,                         (* The settings of Option.               *)
  router_mac,
  arp_target_ip, arp_target_mac, arp_resolved,
  phase,                          (* idle, or the loop that is running.    *)
  dhcp_state, dhcp_xid,
  timeout, loops,
  result,                         (* What the latest init call returned.   *)
  tx                              (* Messages the latest step broadcast.   *)

identity == <<my_ip, dhcp_server_ip, config>>
arp == <<cacheVars, router_mac, arp_target_ip, arp_target_mac, arp_resolved>>
dhcp == <<dhcp_state, dhcp_xid>>
initVars ==
  <<firmware, identity, arp, dhcp, phase, timeout, loops, result, tx>>

router_ip == config["router"]

(* settings, a function on some of the options, overwrites those.          *)
Override(settings) ==
  [o \in Option |-> IF o \in DOMAIN settings THEN settings[o] ELSE config[o]]

(* A frame handed to a NIC that is not initialized is lost without a trace *)
(* (the callers of send_raw ignore its status), and none is received.      *)
Ready == nic = "Initialized"

OnWire(messages) == IF Ready THEN messages ELSE {}

-----------------------------------------------------------------------------
(* core::handle_arp                                                        *)

(* Faulty variant: the gateway's address is taken down once only.          *)
HandleArpReplyOnce(f) ==
  /\ f.oper = "REPLY"
  /\ Update(f.spa, f.sha)
  /\ IF f.spa = arp_target_ip
     THEN arp_target_mac' = f.sha /\ arp_resolved' = TRUE
     ELSE UNCHANGED <<arp_target_mac, arp_resolved>>
  /\ router_mac' = IF f.spa = router_ip /\ router_mac = NoMac
                   THEN f.sha ELSE router_mac
  /\ tx' = {}
  /\ UNCHANGED arp_target_ip

HandleArpReply(f) ==
  /\ f.oper = "REPLY"
  /\ Update(f.spa, f.sha)
  /\ IF f.spa = arp_target_ip
     THEN arp_target_mac' = f.sha /\ arp_resolved' = TRUE
     ELSE UNCHANGED <<arp_target_mac, arp_resolved>>
  /\ router_mac' = IF f.spa = router_ip THEN f.sha ELSE router_mac
  /\ tx' = {}
  /\ UNCHANGED arp_target_ip

HandleArpRequest(f) ==
  /\ f.oper = "REQUEST"
  /\ tx' = IF f.tpa = my_ip /\ my_ip # NoIp
           THEN OnWire({[kind |-> "ARP_REPLY", spa |-> my_ip, tpa |-> f.spa]})
           ELSE {}
  /\ UNCHANGED arp

(* core::poll as far as ARP is concerned; nothing changes without a frame, *)
(* nor by the reset that follows an error.                                 *)
Poll(frames) ==
  \/ Ready /\ \E f \in frames : HandleArpReply(f) \/ HandleArpRequest(f)
  \/ tx' = {} /\ UNCHANGED arp

-----------------------------------------------------------------------------
(* The DHCP loop of init_network.                                          *)

InitNetwork(xid) ==
  /\ phase = "idle"
  /\ BringUpWorks
  /\ phase' = "dhcp"
  /\ dhcp_xid' = xid
  /\ dhcp_state' = "DISCOVER"
  /\ timeout' = 0 /\ loops' = 0
  /\ tx' = {}
  /\ UNCHANGED <<identity, arp, result>>

DhcpRunning ==
  /\ phase = "dhcp"
  /\ dhcp_state # "BOUND"
  /\ loops < MaxDhcpLoops

(* protocols::send_dhcp                                                    *)
DhcpMessage ==
  [kind |-> "DHCP", xid |-> dhcp_xid,
   type |-> IF dhcp_state = "DISCOVER" THEN "DISCOVER" ELSE "REQUEST",
   requested |-> IF dhcp_state = "DISCOVER" THEN NoIp ELSE my_ip,
   server |-> IF dhcp_state = "DISCOVER" THEN NoIp ELSE dhcp_server_ip]

DhcpSend ==
  /\ DhcpRunning
  /\ timeout = 0
  /\ tx' = OnWire({DhcpMessage})
  /\ timeout' = Retransmit
  /\ UNCHANGED <<identity, arp, dhcp, phase, loops, result>>

(* Faulty variant: no fallback to the sender of the offer.                 *)
AcceptOfferSiaddr(m) ==
  /\ dhcp_state = "DISCOVER"
  /\ m.type \in {"OFFER", "none"}
  /\ my_ip' = m.yiaddr
  /\ dhcp_server_ip' = m.siaddr
  /\ config' = Override(m.options)
  /\ dhcp_state' = "OFFER_RCVD"
  /\ timeout' = 0

(* An offer in the state DISCOVER; a reply without a type is a BOOTP one.  *)
AcceptOffer(m) ==
  /\ dhcp_state = "DISCOVER"
  /\ m.type \in {"OFFER", "none"}
  /\ my_ip' = m.yiaddr
  /\ dhcp_server_ip' = IF m.siaddr = NoIp THEN m.saddr ELSE m.siaddr
  /\ config' = Override(m.options)
  /\ dhcp_state' = "OFFER_RCVD"
  /\ timeout' = 0

(* Faulty variants: a refusal is taken for the acknowledgement, and the    *)
(* options of the acknowledgement are passed over.                         *)
AcceptAckOrNak(m) ==
  /\ dhcp_state = "OFFER_RCVD"
  /\ m.type \in {"ACK", "NAK", "none"}
  /\ config' = Override(m.options)
  /\ dhcp_state' = "BOUND"
  /\ UNCHANGED <<my_ip, dhcp_server_ip, timeout>>

AcceptAckKeepsSettings(m) ==
  /\ dhcp_state = "OFFER_RCVD"
  /\ m.type \in {"ACK", "none"}
  /\ dhcp_state' = "BOUND"
  /\ UNCHANGED <<identity, timeout>>

AcceptAck(m) ==
  /\ dhcp_state = "OFFER_RCVD"
  /\ m.type \in {"ACK", "none"}
  /\ LET settings == Override(m.options) IN
     config' = IF settings["router"] = NoIp
               THEN [settings EXCEPT !["router"] = dhcp_server_ip]
               ELSE settings
  /\ dhcp_state' = "BOUND"
  /\ UNCHANGED <<my_ip, dhcp_server_ip, timeout>>

(* Any other reply still leaves its options behind.                        *)
OptionsOnly(m) ==
  /\ \/ dhcp_state = "DISCOVER" /\ m.type \notin {"OFFER", "none"}
     \/ dhcp_state = "OFFER_RCVD" /\ m.type \notin {"ACK", "none"}
  /\ config' = Override(m.options)
  /\ UNCHANGED <<my_ip, dhcp_server_ip, dhcp_state, timeout>>

DhcpReceive(replies) ==
  /\ DhcpRunning
  /\ Ready
  /\ timeout > 0
  /\ \E m \in replies : AcceptOffer(m) \/ AcceptAck(m) \/ OptionsOnly(m)
  /\ loops' = loops + 1
  /\ tx' = {}
  /\ UNCHANGED <<arp, dhcp_xid, phase, result>>

(* Faulty variant: the turns of the loop are not counted.                  *)
DhcpIdleUncounted ==
  /\ DhcpRunning
  /\ timeout > 0
  /\ timeout' \in {timeout, timeout - 1}
  /\ tx' = {}
  /\ UNCHANGED <<identity, arp, dhcp, phase, loops, result>>

(* The NIC has no frame, or fails, or has one that is not for the DHCP     *)
(* client; only the first brings the retransmission nearer.                *)
DhcpIdle ==
  /\ DhcpRunning
  /\ timeout > 0
  /\ timeout' \in {timeout, timeout - 1}
  /\ loops' = loops + 1
  /\ tx' = {}
  /\ UNCHANGED <<identity, arp, dhcp, phase, result>>

-----------------------------------------------------------------------------
(* The ARP loop of both functions.                                         *)

ResolveGateway(gateway) ==
  /\ phase' = "arp"
  /\ arp_resolved' = FALSE
  /\ arp_target_ip' = gateway
  /\ timeout' = 0 /\ loops' = 0
  /\ tx' = {}
  /\ UNCHANGED <<cacheVars, router_mac, arp_target_mac, dhcp, result>>

DhcpBound ==
  /\ phase = "dhcp" /\ dhcp_state = "BOUND"
  /\ ResolveGateway(router_ip)
  /\ UNCHANGED identity

(* settings: the gateway, mask and DNS server of the caller, any of which  *)
(* may be 0; the lease time is left alone.                                 *)
InitNetworkStatic(ip, settings) ==
  /\ phase = "idle"
  /\ BringUpWorks
  /\ my_ip' = ip
  /\ config' = [o \in Option |-> IF o = "lease" THEN config[o] ELSE settings[o]]
  /\ ResolveGateway(config'["router"])
  /\ UNCHANGED dhcp_server_ip

ArpRunning == phase = "arp" /\ ~ arp_resolved /\ loops < MaxArpLoops

(* protocols::arp_request                                                  *)
ArpSend ==
  /\ ArpRunning
  /\ timeout = 0
  /\ tx' = OnWire({[kind |-> "ARP_REQUEST", spa |-> my_ip, tpa |-> router_ip]})
  /\ timeout' = Retransmit
  /\ UNCHANGED <<identity, arp, dhcp, phase, loops, result>>

ArpPoll(frames) ==
  /\ ArpRunning
  /\ timeout > 0
  /\ Poll(frames)
  /\ timeout' = timeout - 1
  /\ loops' = loops + 1
  /\ UNCHANGED <<identity, dhcp, phase, result>>

-----------------------------------------------------------------------------
(* Both functions return, and frames polled by other calls.                *)

Return(status) ==
  /\ phase' = "idle"
  /\ result' = status
  /\ tx' = {}
  /\ UNCHANGED <<identity, arp, dhcp, timeout, loops>>

(* Either function returns before its loops.                               *)
InitFails == phase = "idle" /\ BringUpFails /\ Return("ERROR")

DhcpTimeout ==
  /\ phase = "dhcp" /\ dhcp_state # "BOUND" /\ ~ DhcpRunning
  /\ Return("TIMEOUT")

ArpReturn ==
  /\ phase = "arp" /\ ~ ArpRunning
  /\ Return(IF arp_resolved THEN "SUCCESS" ELSE "TIMEOUT")

(* The rest of the API is used once an init call has succeeded.            *)
PollElsewhere(frames) ==
  /\ phase = "idle" /\ result = "SUCCESS"
  /\ Poll(frames)
  /\ UNCHANGED <<firmware, identity, dhcp, phase, timeout, loops, result>>

InitStep(replies, frames) ==
  /\ \/ DhcpSend
     \/ DhcpReceive(replies)
     \/ DhcpIdle
     \/ DhcpBound
     \/ DhcpTimeout
     \/ ArpSend
     \/ ArpPoll(frames)
     \/ ArpReturn
  /\ UNCHANGED firmware

(* The globals of an image that has just been loaded.                      *)
Fresh ==
  /\ CacheInit
  /\ my_ip = NoIp /\ dhcp_server_ip = NoIp
  /\ config = [o \in Option |-> NoIp]
  /\ router_mac = NoMac
  /\ arp_target_ip = NoIp /\ arp_target_mac = NoMac /\ arp_resolved = FALSE
  /\ phase = "idle"
  /\ dhcp_state = "DISCOVER" /\ dhcp_xid \in Xid
  /\ timeout = 0 /\ loops = 0
  /\ result = "none" /\ tx = {}

NetworkInitInit == Fresh /\ FirmwareInit

=============================================================================
