-------------------------- MODULE DhcpNetworkProofs --------------------------
(***************************************************************************)
(* Proofs about DhcpNetwork: any number of servers, hosts, programs and    *)
(* runs, retry limits and sizes of the ARP cache.                          *)
(***************************************************************************)
EXTENDS DhcpNetwork, ArpCacheProofs

(* Every reply comes from a server and carries its options.                *)
FromServer(r, s) ==
  /\ r.yiaddr = Address[s] /\ r.siaddr = NextServer[s] /\ r.saddr = s
  /\ \/ r.type = "ACK" /\ r.options = Settings[s]
     \/ r.type \in {"OFFER", "NAK"} /\ r.options = Proposal[s]

RepliesFromServers == \A r \in replies : \E s \in Server : FromServer(r, s)

Typed == TypeOK /\ NoDuplicateIp /\ RepliesFromServers

-----------------------------------------------------------------------------
(* Lemmas about the operators.                                             *)

LEMMA OverrideType ==
  ASSUME config \in [Option -> Ip \cup {NoIp}], NEW f, IsSettings(f)
  PROVE  Override(f) \in [Option -> Ip \cup {NoIp}]
BY DEF Override, IsSettings

LEMMA ReplyType ==
  ASSUME NEW r, NEW s \in Server, FromServer(r, s)
  PROVE  /\ r.yiaddr \in Ip /\ r.siaddr \in Ip \cup {NoIp} /\ r.saddr \in Ip
         /\ IsSettings(r.options)
<1>1. s \in Ip /\ Address[s] \in Ip /\ NextServer[s] \in Ip \cup {NoIp}
  BY DhcpNetworkAssumption
<1>2. IsSettings(Settings[s]) /\ IsSettings(Proposal[s])
  BY DhcpNetworkAssumption
<1> QED
  BY <1>1, <1>2 DEF FromServer

LEMMA FrameType ==
  ASSUME NEW f \in Frames
  PROVE  f.spa \in Hosts /\ f.spa \in Ip /\ f.sha \in Mac /\ f.sha \in MacsOf[f.spa]
BY DhcpNetworkAssumption DEF Frames, Hosts

(* What a poll of the hosts' frames does to the cache and the addresses.       *)
LEMMA PollType ==
  ASSUME Typed, Poll(Frames)
  PROVE  /\ CacheTypeOK' /\ NoDuplicateIp'
         /\ {router_mac, arp_target_mac}' \subseteq Mac \cup {NoMac}
         /\ arp_target_ip' = arp_target_ip /\ arp_resolved' \in BOOLEAN
<1> USE DEF Typed, TypeOK
<1>1. CASE UNCHANGED arp
  BY <1>1 DEF arp, cacheVars, CacheTypeOK, NoDuplicateIp
<1>2. ASSUME NEW f \in Frames, HandleArpReply(f)
      PROVE  /\ CacheTypeOK' /\ NoDuplicateIp'
             /\ {router_mac, arp_target_mac}' \subseteq Mac \cup {NoMac}
             /\ arp_target_ip' = arp_target_ip /\ arp_resolved' \in BOOLEAN
  <2>1. f.spa \in Ip /\ f.sha \in Mac
    BY FrameType
  <2>2. CacheTypeOK' /\ NoDuplicateIp'
    BY <1>2, <2>1, UpdateKeepsInv DEF HandleArpReply, CacheInv
  <2> QED
    BY <1>2, <2>1, <2>2 DEF HandleArpReply
<1> QED
  BY <1>1, <1>2 DEF Poll, HandleArpRequest

-----------------------------------------------------------------------------
(* Types.                                                                  *)

(* Where the addresses of Option, of arp and of identity stand.            *)
ArpTyped ==
  /\ CacheTypeOK /\ NoDuplicateIp
  /\ {router_mac, arp_target_mac} \subseteq Mac \cup {NoMac}
  /\ arp_target_ip \in Ip \cup {NoIp} /\ arp_resolved \in BOOLEAN

IdentityTyped ==
  /\ my_ip \in Ip \cup {NoIp} /\ dhcp_server_ip \in Ip \cup {NoIp}
  /\ config \in [Option -> Ip \cup {NoIp}]

ControlTyped ==
  /\ phase \in {"idle", "dhcp", "arp"}
  /\ dhcp_state \in {"DISCOVER", "OFFER_RCVD", "BOUND"}
  /\ timeout \in 0 .. Retransmit /\ loops \in Nat
  /\ result \in {"none", "SUCCESS", "TIMEOUT", "ERROR"}

FirmwareTyped == snp \in BOOLEAN /\ nic \in NicState

LEMMA TypedParts ==
  Typed <=> /\ ArpTyped /\ IdentityTyped /\ ControlTyped /\ FirmwareTyped
            /\ RepliesFromServers
BY DEF Typed, TypeOK, ArpTyped, IdentityTyped, ControlTyped, FirmwareTyped

LEMMA BringUpType ==
  ASSUME FirmwareTyped, BringUpWorks \/ BringUpFails
  PROVE  FirmwareTyped'
BY DEF FirmwareTyped, BringUpWorks, BringUpFails, Each, Disconnect, Stop,
       Start, Initialize, NicState

LEMMA InitCallStepType ==
  ASSUME Typed, InitCallStep(replies, Frames)
  PROVE  /\ ArpTyped' /\ IdentityTyped' /\ ControlTyped' /\ FirmwareTyped'
<1>1. /\ ArpTyped /\ IdentityTyped /\ ControlTyped /\ FirmwareTyped
      /\ RepliesFromServers
  BY TypedParts
<1>2. FirmwareTyped'
  BY <1>1 DEF InitCallStep, InitStep, firmware, FirmwareTyped
<1> SUFFICES ArpTyped' /\ IdentityTyped' /\ ControlTyped'
  BY <1>2
<1>3. UNCHANGED arp => ArpTyped'
  BY <1>1 DEF arp, cacheVars, ArpTyped, CacheTypeOK, NoDuplicateIp
<1>4. UNCHANGED identity => IdentityTyped'
  BY <1>1 DEF identity, IdentityTyped
<1>5. CASE DhcpSend
  <2>1. ControlTyped'
    BY <1>1, <1>5, InitAssumption DEF DhcpSend, dhcp, ControlTyped
  <2> QED
    BY <1>3, <1>4, <1>5, <2>1 DEF DhcpSend
<1>6. CASE DhcpReceive(replies)
  <2>1. PICK m \in replies : AcceptOffer(m) \/ AcceptAck(m) \/ OptionsOnly(m)
    BY <1>6 DEF DhcpReceive
  <2>2. PICK s \in Server : FromServer(m, s)
    BY <1>1 DEF RepliesFromServers
  <2>3. Override(m.options) \in [Option -> Ip \cup {NoIp}]
    BY <1>1, <2>2, ReplyType, OverrideType DEF IdentityTyped
  <2>4. /\ m.yiaddr \in Ip /\ m.siaddr \in Ip \cup {NoIp} /\ m.saddr \in Ip
    BY <2>2, ReplyType
  <2>5. IdentityTyped'
    <3>1. CASE AcceptOffer(m)
      BY <1>1, <2>3, <2>4, <3>1 DEF AcceptOffer, IdentityTyped
    <3>2. CASE AcceptAck(m)
      BY <1>1, <2>3, <3>2 DEF AcceptAck, IdentityTyped, Option
    <3>3. CASE OptionsOnly(m)
      BY <1>1, <2>3, <3>3 DEF OptionsOnly, IdentityTyped
    <3> QED
      BY <2>1, <3>1, <3>2, <3>3
  <2>6. ControlTyped'
    BY <1>1, <1>6, <2>1, InitAssumption
    DEF DhcpReceive, AcceptOffer, AcceptAck, OptionsOnly, ControlTyped
  <2> QED
    BY <1>3, <1>6, <2>5, <2>6 DEF DhcpReceive
<1>7. CASE DhcpIdle
  <2>1. ControlTyped'
    BY <1>1, <1>7, InitAssumption DEF DhcpIdle, dhcp, ControlTyped
  <2> QED
    BY <1>3, <1>4, <1>7, <2>1 DEF DhcpIdle
<1>8. CASE DhcpBound
  <2>1. ControlTyped'
    BY <1>1, <1>8, InitAssumption
    DEF DhcpBound, ResolveGateway, dhcp, ControlTyped
  <2>2. ArpTyped'
    BY <1>1, <1>8
    DEF DhcpBound, ResolveGateway, cacheVars, ArpTyped, CacheTypeOK,
        NoDuplicateIp, IdentityTyped, router_ip, Option
  <2> QED
    BY <1>4, <1>8, <2>1, <2>2 DEF DhcpBound
<1>9. CASE DhcpTimeout \/ ArpReturn
  <2>1. ControlTyped'
    BY <1>1, <1>9 DEF DhcpTimeout, ArpReturn, Return, dhcp, ControlTyped
  <2> QED
    BY <1>3, <1>4, <1>9, <2>1 DEF DhcpTimeout, ArpReturn, Return
<1>10. CASE ArpSend
  <2>1. ControlTyped'
    BY <1>1, <1>10, InitAssumption DEF ArpSend, dhcp, ControlTyped
  <2> QED
    BY <1>3, <1>4, <1>10, <2>1 DEF ArpSend
<1>11. CASE ArpPoll(Frames)
  <2>1. ControlTyped'
    BY <1>1, <1>11, InitAssumption DEF ArpPoll, dhcp, ControlTyped
  <2>2. ArpTyped'
    BY <1>1, <1>11, PollType DEF ArpPoll, ArpTyped
  <2> QED
    BY <1>4, <1>11, <2>1, <2>2 DEF ArpPoll
<1> QED
  BY <1>5, <1>6, <1>7, <1>8, <1>9, <1>10, <1>11
  DEF InitCallStep, InitStep

LEMMA TypedStep ==
  ASSUME Typed, [Next]_vars
  PROVE  Typed'
<1>1. /\ ArpTyped /\ IdentityTyped /\ ControlTyped /\ FirmwareTyped
      /\ RepliesFromServers
  BY TypedParts
<1>2. UNCHANGED arp => ArpTyped'
  BY <1>1 DEF arp, cacheVars, ArpTyped, CacheTypeOK, NoDuplicateIp
<1>3. UNCHANGED identity => IdentityTyped'
  BY <1>1 DEF identity, IdentityTyped
<1>4. UNCHANGED firmware => FirmwareTyped'
  BY <1>1 DEF firmware, FirmwareTyped
<1>5. UNCHANGED <<dhcp, phase, timeout, loops, result>> => ControlTyped'
  BY <1>1 DEF dhcp, ControlTyped
<1>6. UNCHANGED replies => RepliesFromServers'
  BY <1>1 DEF RepliesFromServers
<1>7. SUFFICES /\ ArpTyped' /\ IdentityTyped' /\ ControlTyped'
               /\ FirmwareTyped' /\ RepliesFromServers'
  BY TypedParts, PTL
<1>8. CASE ServerStep
  <2>1. RepliesFromServers'
    BY <1>1, <1>8 DEF ServerStep, RepliesFromServers, FromServer, Reply
  <2> QED
    BY <1>2, <1>3, <1>4, <1>5, <1>8, <2>1 DEF ServerStep
<1>9. CASE Machine
  <2>1. RepliesFromServers'
    BY <1>6, <1>9 DEF Machine, Network
  <2>2. CASE Load \/ CallReturns
    BY <1>2, <1>3, <1>4, <1>5, <2>1, <2>2 DEF Load, CallReturns
  <2>3. ASSUME NEW xid \in Xid, MakeCall(xid)
        PROVE  /\ ArpTyped' /\ IdentityTyped' /\ ControlTyped'
               /\ FirmwareTyped'
    <3>1. CASE InitNetwork(xid)
      <4>1. ControlTyped'
        BY <1>1, <3>1, InitAssumption DEF InitNetwork, ControlTyped
      <4>2. FirmwareTyped'
        BY <1>1, <3>1, BringUpType DEF InitNetwork
      <4> QED
        BY <1>2, <1>3, <3>1, <4>1, <4>2 DEF InitNetwork
    <3>2. ASSUME NEW args \in Static,
                 InitNetworkStatic(args.ip, args.settings)
          PROVE  /\ ArpTyped' /\ IdentityTyped' /\ ControlTyped'
                 /\ FirmwareTyped'
      <4>1. /\ args.ip \in Ip
            /\ args.settings \in [Option \ {"lease"} -> Ip \cup {NoIp}]
        BY DhcpNetworkAssumption
      <4>2. IdentityTyped'
        BY <1>1, <3>2, <4>1
        DEF InitNetworkStatic, IdentityTyped
      <4>3. ControlTyped'
        BY <1>1, <3>2, InitAssumption
        DEF InitNetworkStatic, ResolveGateway, dhcp, ControlTyped
      <4>4. ArpTyped'
        BY <1>1, <3>2, <4>2
        DEF InitNetworkStatic, ResolveGateway, cacheVars, ArpTyped,
            CacheTypeOK, NoDuplicateIp, IdentityTyped, Option
      <4>5. FirmwareTyped'
        BY <1>1, <3>2, BringUpType DEF InitNetworkStatic
      <4> QED
        BY <4>2, <4>3, <4>4, <4>5
    <3>3. CASE InitFails
      <4>1. ControlTyped'
        BY <1>1, <3>3 DEF InitFails, Return, dhcp, ControlTyped
      <4>2. FirmwareTyped'
        BY <1>1, <3>3, BringUpType DEF InitFails
      <4> QED
        BY <1>2, <1>3, <3>3, <4>1, <4>2 DEF InitFails, Return
    <3>4. CASE UNCHANGED <<firmware, identity, arp, dhcp, phase, timeout,
                           loops, result>>
      BY <1>2, <1>3, <1>4, <1>5, <3>4
    <3> QED
      BY <2>3, <3>1, <3>2, <3>3, <3>4 DEF MakeCall
  <2>4. CASE CallPolls(Frames)
    <3>1. ArpTyped'
      BY <1>1, <2>4, PollType DEF CallPolls, PollElsewhere, ArpTyped
    <3> QED
      BY <1>3, <1>4, <1>5, <2>1, <2>4, <3>1 DEF CallPolls, PollElsewhere
  <2>5. CASE InitCallStep(replies, Frames)
    BY <2>1, <2>5, InitCallStepType
  <2>6. CASE Exit \/ MachineReset
    <3>1. Unload
      BY <2>6 DEF Exit, MachineReset
    <3>2. FirmwareTyped'
      BY <1>1, <2>6
      DEF Exit, MachineReset, CloseProtocols, PowerCycle, FirmwareTyped,
          NicState
    <3>3. ControlTyped'
      BY <3>1, InitAssumption DEF Unload, ControlTyped
    <3>4. ArpTyped'
      <4>1. CacheTypeOK' /\ NoDuplicateIp'
        BY <3>1, ArpCacheAssumption
        DEF Unload, CacheClear, CacheTypeOK, NoDuplicateIp, Slot
      <4> QED
        BY <3>1, <4>1 DEF Unload, ArpTyped
    <3>5. IdentityTyped'
      BY <3>1 DEF Unload, IdentityTyped
    <3> QED
      BY <2>1, <3>2, <3>3, <3>4, <3>5
  <2> QED
    BY <1>9, <2>1, <2>2, <2>3, <2>4, <2>5, <2>6
    DEF Machine, ProgramStep, FreshCall
<1>10. CASE UNCHANGED vars
  BY <1>2, <1>3, <1>4, <1>5, <1>6, <1>10
  DEF vars, initVars, netVars
<1> QED
  BY <1>8, <1>9, <1>10 DEF Next

LEMMA TypedInvariant == Spec => []Typed
<1>1. Init => Typed
  <2> SUFFICES ASSUME Init PROVE Typed
    OBVIOUS
  <2>1. Fresh /\ FirmwareInit /\ replies = {}
    BY DEF Init, ProgramsInit, NetworkInitInit
  <2>2. CacheTypeOK /\ NoDuplicateIp
    BY <2>1, ArpCacheAssumption
    DEF Fresh, CacheInit, CacheTypeOK, NoDuplicateIp, Slot
  <2>3. ArpTyped
    BY <2>1, <2>2 DEF Fresh, ArpTyped
  <2>4. IdentityTyped
    BY <2>1 DEF Fresh, IdentityTyped
  <2>5. ControlTyped
    BY <2>1, InitAssumption DEF Fresh, ControlTyped
  <2>6. FirmwareTyped /\ RepliesFromServers
    BY <2>1 DEF FirmwareInit, FirmwareTyped, RepliesFromServers
  <2> QED
    BY <2>3, <2>4, <2>5, <2>6, TypedParts
<1> QED
  BY <1>1, TypedStep, PTL DEF Spec

(* The globals always hold values of their types, whatever programs run.   *)
THEOREM TypeCorrect == Spec => []TypeOK
<1>1. Typed => TypeOK
  BY DEF Typed
<1> QED
  BY <1>1, TypedInvariant, PTL

-----------------------------------------------------------------------------
(* The gateway's address.                                                  *)

Up == phase = "idle" /\ result = "SUCCESS"

(* The cache has no other address of the gateway's than router_mac.        *)
CacheAgrees ==
  \A i \in Slot : table[i].valid /\ table[i].ip = router_ip =>
    table[i].mac = router_mac

(* What the ARP loop works towards and later polls keep.                   *)
Coherent ==
  /\ phase = "arp" \/ Up =>
       /\ arp_target_ip = router_ip /\ snp /\ my_ip \in Ip
       /\ arp_resolved =>
            /\ Ready /\ router_ip \in Hosts
            /\ router_mac \in MacsOf[router_ip]
            /\ arp_target_mac = router_mac
            /\ CacheAgrees
  /\ Up => arp_resolved
  /\ phase = "dhcp" => snp /\ (dhcp_state # "DISCOVER" => my_ip \in Ip)

(* A host that is found after an update was found before, under the same   *)
(* address, or is the one that has given its address.                      *)
LEMMA UpdateFinds ==
  ASSUME Typed, NEW f \in Frames, Update(f.spa, f.sha), NEW i \in Slot,
         table'[i].valid
  PROVE  \/ table'[i].ip = f.spa /\ table'[i].mac = f.sha
         \/ table'[i].ip # f.spa /\ table'[i] = table[i]
<1>1. f.spa \in Ip
  BY FrameType
<1>2. CacheTypeOK /\ CacheInv
  BY DEF Typed, TypeOK, CacheInv
<1>3. CASE Hits(f.spa) # {}
  <2>1. PICK j \in Hits(f.spa) : TRUE
    BY <1>3
  <2>2. j \in Slot /\ table[j].ip = f.spa /\ FirstHit(f.spa) = j
    BY <1>1, <1>2, <2>1, FirstHitIsOnly DEF Hits
  <2>3. table' = [table EXCEPT ![j].mac = f.sha]
    BY <1>3, <2>2 DEF Update
  <2>4. CASE i = j
    BY <1>2, <2>2, <2>3, <2>4 DEF CacheTypeOK
  <2>5. CASE i # j
    <3>1. table'[i] = table[i]
      BY <1>2, <2>3, <2>5 DEF CacheTypeOK
    <3>2. table[i].ip # f.spa
      BY <1>1, <1>2, <2>1, <2>2, <2>5, <3>1, FirstHitIsOnly DEF Hits
    <3> QED
      BY <3>1, <3>2
  <2> QED
    BY <2>4, <2>5
<1>4. CASE Hits(f.spa) = {}
  <2>1. table' = [table EXCEPT ![next_slot] =
                    [ip |-> f.spa, mac |-> f.sha, valid |-> TRUE]]
    BY <1>4 DEF Update
  <2> QED
    BY <1>2, <1>4, <2>1 DEF CacheTypeOK, Hits
<1> QED
  BY <1>3, <1>4

LEMMA UpdateAgrees ==
  ASSUME Typed, NEW f \in Frames, HandleArpReply(f), UNCHANGED router_ip,
         f.spa = router_ip \/ CacheAgrees
  PROVE  CacheAgrees'
<1>1. /\ Update(f.spa, f.sha)
      /\ router_mac' = IF f.spa = router_ip THEN f.sha ELSE router_mac
  BY DEF HandleArpReply
<1> QED
  BY <1>1, UpdateFinds DEF CacheAgrees

LEMMA PollKeepsCoherent ==
  ASSUME Typed, Coherent, phase = "arp" \/ Up, Poll(Frames),
         UNCHANGED <<firmware, identity>>
  PROVE  /\ arp_target_ip' = router_ip' /\ snp' /\ my_ip' \in Ip
         /\ arp_resolved => arp_resolved'
         /\ arp_resolved' =>
              /\ Ready' /\ router_ip' \in Hosts
              /\ router_mac' \in MacsOf[router_ip']
              /\ arp_target_mac' = router_mac'
              /\ CacheAgrees'
<1> USE DEF Coherent
<1>1. router_ip' = router_ip /\ my_ip' = my_ip /\ snp' = snp /\ nic' = nic
  BY DEF identity, firmware, router_ip
<1>2. CASE UNCHANGED arp
  BY <1>1, <1>2 DEF arp, cacheVars, CacheAgrees, Ready
<1>3. ASSUME NEW f \in Frames, Ready, HandleArpReply(f)
      PROVE  /\ arp_target_ip' = arp_target_ip
             /\ arp_resolved => arp_resolved'
             /\ arp_resolved' =>
                  /\ router_ip \in Hosts
                  /\ router_mac' \in MacsOf[router_ip]
                  /\ arp_target_mac' = router_mac'
                  /\ CacheAgrees'
  <2>1. f.spa \in Hosts /\ f.sha \in MacsOf[f.spa]
    BY FrameType
  <2>2. f.spa = router_ip \/ CacheAgrees => CacheAgrees'
    BY <1>1, <1>3, UpdateAgrees
  <2> QED
    BY <1>3, <2>1, <2>2 DEF HandleArpReply
<1> QED
  BY <1>1, <1>2, <1>3 DEF Poll, HandleArpRequest, Ready

(* Nothing that Coherent speaks of changes.                                *)
LEMMA CoherentUnchanged ==
  ASSUME Coherent,
         UNCHANGED <<firmware, identity, arp, dhcp, phase, result>>
  PROVE  Coherent'
<1>1. CacheAgrees => CacheAgrees'
  BY DEF CacheAgrees, router_ip, identity, arp, cacheVars
<1> QED
  BY <1>1
  DEF Coherent, Up, Ready, router_ip, firmware, identity, arp, dhcp

LEMMA InitCallStepCoherent ==
  ASSUME Typed, Coherent, InitCallStep(replies, Frames)
  PROVE  Coherent'
<1>1. UNCHANGED firmware
  BY DEF InitCallStep, InitStep
<1>2. CASE DhcpSend \/ DhcpIdle \/ ArpSend
  BY <1>1, <1>2, CoherentUnchanged DEF DhcpSend, DhcpIdle, ArpSend
<1>3. CASE DhcpReceive(replies)
  <2>1. PICK m \in replies : AcceptOffer(m) \/ AcceptAck(m) \/ OptionsOnly(m)
    BY <1>3 DEF DhcpReceive
  <2>2. PICK s \in Server : FromServer(m, s)
    BY DEF Typed, RepliesFromServers
  <2>3. m.yiaddr \in Ip
    BY <2>2, ReplyType
  <2>4. phase = "dhcp" /\ phase' = "dhcp"
    BY <1>3 DEF DhcpReceive, DhcpRunning
  <2> QED
    BY <1>1, <2>1, <2>3, <2>4
    DEF Coherent, Up, AcceptOffer, AcceptAck, OptionsOnly, firmware
<1>4. CASE DhcpBound
  <2>1. /\ phase = "dhcp" /\ dhcp_state = "BOUND" /\ UNCHANGED identity
        /\ phase' = "arp" /\ arp_resolved' = FALSE
        /\ arp_target_ip' = router_ip
    BY <1>4 DEF DhcpBound, ResolveGateway
  <2> QED
    BY <1>1, <2>1 DEF Coherent, Up, router_ip, identity, firmware
<1>5. CASE DhcpTimeout
  <2>1. phase' = "idle" /\ result' = "TIMEOUT"
    BY <1>5 DEF DhcpTimeout, Return
  <2> QED
    BY <2>1 DEF Coherent, Up
<1>6. CASE ArpPoll(Frames)
  <2>1. /\ phase = "arp" /\ phase' = "arp" /\ UNCHANGED identity
        /\ Poll(Frames)
    BY <1>6 DEF ArpPoll, ArpRunning
  <2> QED
    BY <1>1, <2>1, PollKeepsCoherent DEF Coherent, Up
<1>7. CASE ArpReturn
  <2>1. /\ phase = "arp" /\ phase' = "idle"
        /\ result' = (IF arp_resolved THEN "SUCCESS" ELSE "TIMEOUT")
        /\ UNCHANGED identity /\ UNCHANGED arp
    BY <1>7 DEF ArpReturn, Return
  <2>2. CacheAgrees => CacheAgrees'
    BY <2>1 DEF CacheAgrees, router_ip, identity, arp, cacheVars
  <2> QED
    BY <1>1, <2>1, <2>2
    DEF Coherent, Up, Ready, router_ip, identity, firmware, arp
<1> QED
  BY <1>2, <1>3, <1>4, <1>5, <1>6, <1>7 DEF InitCallStep, InitStep

LEMMA MakeCallCoherent ==
  ASSUME Typed, Coherent, NEW xid \in Xid, MakeCall(xid)
  PROVE  Coherent'
<1>1. CASE InitNetwork(xid)
  <2>1. phase' = "dhcp" /\ dhcp_state' = "DISCOVER" /\ snp'
    BY <1>1 DEF InitNetwork, BringUpWorks
  <2> QED
    BY <2>1 DEF Coherent, Up
<1>2. ASSUME NEW args \in Static, InitNetworkStatic(args.ip, args.settings)
      PROVE  Coherent'
  <2>1. args.ip \in Ip
    BY DhcpNetworkAssumption
  <2>2. /\ phase' = "arp" /\ snp' /\ my_ip' = args.ip
        /\ arp_target_ip' = router_ip' /\ arp_resolved' = FALSE
    BY <1>2
    DEF InitNetworkStatic, ResolveGateway, BringUpWorks, router_ip
  <2> QED
    BY <2>1, <2>2 DEF Coherent, Up
<1>3. CASE InitFails
  <2>1. phase' = "idle" /\ result' = "ERROR"
    BY <1>3 DEF InitFails, Return
  <2> QED
    BY <2>1 DEF Coherent, Up
<1>4. CASE UNCHANGED <<firmware, identity, arp, dhcp, phase, timeout, loops,
                       result>>
  BY <1>4, CoherentUnchanged
<1> QED
  BY <1>1, <1>2, <1>3, <1>4 DEF MakeCall

LEMMA CoherentStep ==
  ASSUME Typed, Coherent, [Next]_vars
  PROVE  Coherent'
<1>1. CASE ServerStep \/ Load \/ CallReturns \/ UNCHANGED vars
  BY <1>1, CoherentUnchanged
  DEF ServerStep, Load, CallReturns, vars, initVars
<1>2. ASSUME NEW xid \in Xid, MakeCall(xid) PROVE Coherent'
  BY <1>2, MakeCallCoherent
<1>3. CASE CallPolls(Frames)
  <2>1. /\ Up /\ UNCHANGED <<firmware, identity, phase, result>>
        /\ Poll(Frames)
    BY <1>3 DEF CallPolls, PollElsewhere, Up
  <2> QED
    BY <2>1, PollKeepsCoherent DEF Coherent, Up
<1>4. CASE InitCallStep(replies, Frames)
  BY <1>4, InitCallStepCoherent
<1>5. CASE Exit \/ MachineReset
  <2>1. phase' = "idle" /\ result' = "none"
    BY <1>5 DEF Exit, MachineReset, Unload
  <2> QED
    BY <2>1 DEF Coherent, Up
<1> QED
  BY <1>1, <1>2, <1>3, <1>4, <1>5 DEF Next, Machine, ProgramStep, FreshCall

LEMMA CoherentInvariant == Spec => [](Typed /\ Coherent)
<1>1. Init => Coherent
  BY DEF Init, ProgramsInit, NetworkInitInit, Fresh, Coherent, Up
<1> QED
  BY <1>1, TypedInvariant, CoherentStep, PTL DEF Spec

(* After a successful init call router_mac, arp_target_mac and the cache   *)
(* agree on the gateway's hardware address, through every ARP frame that   *)
(* is polled, whichever and however many addresses its hosts give.         *)
THEOREM GatewayStaysCoherent == Spec => []GatewayCoherent
<1>1. ASSUME Typed, Coherent PROVE GatewayCoherent
  <2> SUFFICES ASSUME Up
               PROVE  /\ arp_target_ip = router_ip
                      /\ router_mac = arp_target_mac
                      /\ router_mac \in MacsOf[router_ip]
                      /\ Lookup(router_ip) \in {router_mac, NoMac}
    BY DEF GatewayCoherent, Up
  <2>1. /\ arp_target_ip = router_ip /\ router_ip \in Hosts
        /\ router_mac \in MacsOf[router_ip] /\ arp_target_mac = router_mac
        /\ CacheAgrees
    BY <1>1 DEF Coherent
  <2>2. router_ip \in Ip
    BY <2>1, DhcpNetworkAssumption DEF Hosts
  <2>3. Lookup(router_ip) \in {router_mac, NoMac}
    <3>1. CASE Hits(router_ip) # {}
      <4>1. PICK i \in Hits(router_ip) : TRUE
        BY <3>1
      <4>2. FirstHit(router_ip) = i
        BY <1>1, <2>2, <4>1, FirstHitIsOnly DEF Typed, TypeOK, CacheInv
      <4> QED
        BY <2>1, <3>1, <4>1, <4>2 DEF Lookup, Hits, CacheAgrees
    <3>2. CASE Hits(router_ip) = {}
      BY <3>2 DEF Lookup
    <3> QED
      BY <3>1, <3>2
  <2> QED
    BY <2>1, <2>3
<1> QED
  BY <1>1, CoherentInvariant, PTL

-----------------------------------------------------------------------------
(* Calls on a network that is up.                                          *)

OnlyWhenUp ==
  /\ program \in Installed \cup {<<>>}
  /\ Running /\ Function \notin InitCall => Up

LEMMA OnlyWhenUpStep ==
  ASSUME OnlyWhenUp, [Next]_vars
  PROVE  OnlyWhenUp'
<1> USE DEF OnlyWhenUp
<1>1. CASE ServerStep \/ UNCHANGED vars
  BY <1>1 DEF ServerStep, vars, initVars, programVars, Running, Function, Up
<1>2. CASE Load
  <2>1. program' \in Installed /\ at' = 1
    BY <1>2 DEF Load
  <2>2. program'[1].call \in InitCall
    BY <2>1, ProgramsAssumption DEF Guarded
  <2> QED
    BY <2>1, <2>2 DEF Function
<1>3. ASSUME NEW xid \in Xid, MakeCall(xid) PROVE OnlyWhenUp'
  <2>1. UNCHANGED <<program, at>>
    BY <1>3 DEF MakeCall
  <2>2. Function \notin InitCall => UNCHANGED <<phase, result>>
    BY <1>3 DEF MakeCall, InitCall
  <2> QED
    BY <2>1, <2>2 DEF Running, Function, Up
<1>4. CASE CallPolls(Frames)
  BY <1>4 DEF CallPolls, PollElsewhere, programVars, Running, Function, Up
<1>5. CASE InitCallStep(replies, Frames)
  <2>1. phase # "idle" /\ UNCHANGED <<program, at>>
    BY <1>5
    DEF InitCallStep, InitStep, programVars, DhcpSend, DhcpReceive, DhcpIdle,
        DhcpBound, DhcpTimeout, ArpSend, ArpPoll, ArpReturn, DhcpRunning,
        ArpRunning
  <2> QED
    BY <2>1 DEF Running, Function, Up
<1>6. CASE CallReturns
  <2>1. /\ Running /\ phase = "idle"
        /\ UNCHANGED <<program, phase, result>>
    BY <1>6 DEF CallReturns
  <2>2. PICK ok \in BOOLEAN :
          /\ Function \in InitCall => ok = (result = "SUCCESS")
          /\ at' = Following(ok)
    BY <1>6 DEF CallReturns
  <2>3. program \in Installed /\ at \in DOMAIN program
    BY <2>1 DEF Running
  <2>4. /\ DOMAIN program = 1 .. Len(program) /\ Len(program) \in Nat
        /\ Guarded(program)
    BY <2>3, ProgramsAssumption
  <2>5. CASE Function \notin InitCall
    BY <2>1, <2>5 DEF Up
  <2>6. CASE Function \in InitCall /\ result = "SUCCESS"
    BY <2>1, <2>6 DEF Up
  <2>7. CASE /\ Function \in InitCall /\ result # "SUCCESS"
             /\ program[at].onError = "return"
    <3>1. at' = Len(program) + 1
      BY <2>2, <2>7 DEF Following
    <3> QED
      BY <2>1, <2>4, <3>1 DEF Running
  <2>8. CASE /\ Function \in InitCall /\ program[at].onError = "go on"
             /\ at + 1 \in DOMAIN program => program[at + 1].call \in InitCall
    <3>1. at' = at + 1
      BY <2>2, <2>8 DEF Following
    <3> QED
      BY <2>1, <2>8, <3>1 DEF Running, Function
  <2> QED
    BY <2>3, <2>4, <2>5, <2>6, <2>7, <2>8 DEF Guarded, Function
<1>7. CASE Exit \/ MachineReset
  BY <1>7 DEF Exit, MachineReset, Unload, Running
<1> QED
  BY <1>1, <1>2, <1>3, <1>4, <1>5, <1>6, <1>7
  DEF Next, Machine, ProgramStep, FreshCall

(* Every call but init finds a working NIC, an address and the gateway,    *)
(* in every program that gives up when init fails (ProgramsAssumption).    *)
THEOREM NetworkIsUsable == Spec => []UsableNetwork
<1>1. Init => OnlyWhenUp
  BY DEF Init, ProgramsInit, OnlyWhenUp, Running
<1>2. Spec => []OnlyWhenUp
  BY <1>1, OnlyWhenUpStep, PTL DEF Spec
<1>3. Typed /\ Coherent /\ OnlyWhenUp => UsableNetwork
  BY ArpCacheAssumption
  DEF Coherent, OnlyWhenUp, UsableNetwork, Ready
<1> QED
  BY <1>2, <1>3, CoherentInvariant, PTL

-----------------------------------------------------------------------------
(* DHCP.                                                                   *)

(* Only DhcpSend adds to the client's messages.                            *)
LEMMA NewRequest ==
  ASSUME [Next]_vars, NEW m \in requests', m \notin requests
  PROVE  DhcpSend /\ m = DhcpMessage
<1>1. Machine /\ m \in tx' /\ m.kind = "DHCP"
  BY DEF Next, Machine, ServerStep, Network, vars, netVars
<1>2. ASSUME NEW n \in tx', Poll(Frames)
      PROVE  n.kind = "ARP_REPLY"
  BY <1>2 DEF Poll, HandleArpReply, HandleArpRequest, OnWire
<1>3. ASSUME NEW n \in tx', ArpSend
      PROVE  n.kind = "ARP_REQUEST"
  BY <1>3 DEF ArpSend, OnWire
<1>4. ~ (Load \/ CallReturns \/ Exit \/ MachineReset)
  BY <1>1 DEF Load, CallReturns, Exit, MachineReset, Unload
<1>5. ~ CallPolls(Frames)
  BY <1>1, <1>2 DEF CallPolls, PollElsewhere
<1>6. ASSUME NEW xid \in Xid, MakeCall(xid) PROVE FALSE
  <2>1. tx' = {}
    BY <1>6
    DEF MakeCall, InitNetwork, InitNetworkStatic, ResolveGateway, InitFails,
        Return
  <2> QED
    BY <1>1, <2>1
<1>7. InitCallStep(replies, Frames)
  BY <1>1, <1>4, <1>5, <1>6 DEF Machine, ProgramStep, FreshCall
<1>8. DhcpSend
  BY <1>1, <1>2, <1>3, <1>7
  DEF InitCallStep, InitStep, DhcpReceive, DhcpIdle, DhcpBound,
      ResolveGateway, DhcpTimeout, ArpPoll, ArpReturn, Return
<1>9. m = DhcpMessage
  BY <1>1, <1>8 DEF DhcpSend, OnWire
<1> QED
  BY <1>8, <1>9

(* How the DHCP loop goes on, and how it begins.                           *)
LEMMA DhcpMoves ==
  ASSUME OnlyWhenUp, [Next]_vars, phase' = "dhcp"
  PROVE  \/ UNCHANGED <<my_ip, dhcp_server_ip, config, phase, dhcp_state>>
         \/ phase = "dhcp" /\ DhcpReceive(replies)
         \/ /\ dhcp_state' = "DISCOVER"
            /\ \E xid \in Xid : xid \notin used /\ used' = used \cup {xid}
<1>1. CASE ServerStep \/ Load \/ CallReturns \/ UNCHANGED vars
  BY <1>1 DEF ServerStep, Load, CallReturns, vars, initVars, identity, dhcp
<1>2. CASE FreshCall
  <2>1. PICK xid \in Xid :
          MakeCall(xid) /\ xid \notin used /\ used' = used \cup {xid}
    BY <1>2 DEF FreshCall
  <2>2. CASE InitNetwork(xid)
    BY <2>1, <2>2 DEF InitNetwork
  <2>3. CASE \E args \in Static : InitNetworkStatic(args.ip, args.settings)
    BY <2>3 DEF InitNetworkStatic, ResolveGateway
  <2>4. CASE InitFails
    BY <2>4 DEF InitFails, Return
  <2>5. CASE UNCHANGED <<firmware, identity, arp, dhcp, phase, timeout,
                         loops, result>>
    BY <2>5 DEF identity, dhcp
  <2> QED
    BY <2>1, <2>2, <2>3, <2>4, <2>5 DEF MakeCall
<1>3. CASE CallPolls(Frames)
  BY <1>3 DEF CallPolls, PollElsewhere, identity, dhcp
<1>4. CASE InitCallStep(replies, Frames)
  <2>1. CASE DhcpSend \/ DhcpIdle \/ ArpSend
    BY <2>1 DEF DhcpSend, DhcpIdle, ArpSend, identity, dhcp
  <2>2. CASE ArpPoll(Frames)
    BY <2>2 DEF ArpPoll, ArpRunning
  <2>3. CASE DhcpBound \/ DhcpTimeout \/ ArpReturn
    BY <2>3 DEF DhcpBound, ResolveGateway, DhcpTimeout, ArpReturn, Return
  <2>4. CASE DhcpReceive(replies)
    BY <2>4 DEF DhcpReceive, DhcpRunning
  <2> QED
    BY <1>4, <2>1, <2>2, <2>3, <2>4 DEF InitCallStep, InitStep
<1>5. CASE Exit \/ MachineReset
  BY <1>5 DEF Exit, MachineReset, Unload
<1> QED
  BY <1>1, <1>2, <1>3, <1>4, <1>5 DEF Next, Machine, ProgramStep

(* A client that goes on from an offer names the server that made it.      *)
Offered ==
  phase = "dhcp" /\ dhcp_state # "DISCOVER" =>
    dhcp_server_ip \in Server /\ my_ip = Address[dhcp_server_ip]

(* What a reply does to the client.                                        *)
LEMMA ReceiveMoves ==
  ASSUME Typed, DhcpReceive(replies)
  PROVE  \E m \in replies, s \in Server :
           /\ FromServer(m, s)
           /\ \/ /\ dhcp_state = "DISCOVER" /\ dhcp_state' = "OFFER_RCVD"
                 /\ my_ip' = Address[s]
                 /\ dhcp_server_ip' =
                      IF NextServer[s] = NoIp THEN s ELSE NextServer[s]
              \/ /\ dhcp_state = "OFFER_RCVD" /\ dhcp_state' = "BOUND"
                 /\ m.type = "ACK"
                 /\ UNCHANGED <<my_ip, dhcp_server_ip>>
                 /\ config' = IF Override(Settings[s])["router"] = NoIp
                              THEN [Override(Settings[s]) EXCEPT
                                      !["router"] = dhcp_server_ip]
                              ELSE Override(Settings[s])
              \/ /\ dhcp_state # "BOUND"
                 /\ UNCHANGED <<my_ip, dhcp_server_ip, dhcp_state>>
<1>1. PICK m \in replies : AcceptOffer(m) \/ AcceptAck(m) \/ OptionsOnly(m)
  BY DEF DhcpReceive
<1>2. PICK s \in Server : FromServer(m, s)
  BY DEF Typed, RepliesFromServers
<1>3. CASE AcceptOffer(m)
  BY <1>2, <1>3 DEF AcceptOffer, FromServer
<1>4. CASE AcceptAck(m)
  BY <1>2, <1>4 DEF AcceptAck, FromServer
<1>5. CASE OptionsOnly(m)
  BY <1>2, <1>5 DEF OptionsOnly, FromServer
<1> QED
  BY <1>1, <1>3, <1>4, <1>5

LEMMA OfferedStep ==
  ASSUME \A s \in Server : NextServer[s] \in {s, NoIp},
         Typed, OnlyWhenUp, Offered, [Next]_vars
  PROVE  Offered'
<1> SUFFICES ASSUME phase' = "dhcp", dhcp_state' # "DISCOVER"
             PROVE  /\ dhcp_server_ip' \in Server
                    /\ my_ip' = Address[dhcp_server_ip']
  BY DEF Offered
<1>1. CASE UNCHANGED <<my_ip, dhcp_server_ip, config, phase, dhcp_state>>
  BY <1>1 DEF Offered
<1>2. CASE phase = "dhcp" /\ DhcpReceive(replies)
  BY <1>2, ReceiveMoves DEF Offered
<1> QED
  BY <1>1, <1>2, DhcpMoves

(* Every REQUEST names the server whose address it asks for, on a network  *)
(* whose servers leave siaddr empty or name themselves in it.              *)
THEOREM RequestsNameOfferer ==
  ASSUME \A s \in Server : NextServer[s] \in {s, NoIp}
  PROVE  Spec => []RequestNamesOfferer
<1>1. Init => Offered /\ RequestNamesOfferer /\ OnlyWhenUp
  BY DEF Init, ProgramsInit, NetworkInitInit, Fresh, Offered,
         RequestNamesOfferer, OnlyWhenUp, Running
<1>2. ASSUME Typed, OnlyWhenUp, Offered, RequestNamesOfferer, [Next]_vars
      PROVE  RequestNamesOfferer'
  <2> SUFFICES ASSUME NEW m \in requests', m.type = "REQUEST"
               PROVE  m.server \in Server /\ m.requested = Address[m.server]
    BY DEF RequestNamesOfferer
  <2>1. CASE m \in requests
    BY <1>2, <2>1 DEF RequestNamesOfferer
  <2>2. CASE m \notin requests
    <3>1. DhcpSend /\ m = DhcpMessage
      BY <1>2, <2>2, NewRequest
    <3>2. /\ phase = "dhcp" /\ dhcp_state # "DISCOVER"
          /\ m.server = dhcp_server_ip /\ m.requested = my_ip
      BY <3>1 DEF DhcpSend, DhcpRunning, DhcpMessage
    <3> QED
      BY <1>2, <3>2 DEF Offered
  <2> QED
    BY <2>1, <2>2
<1>3. Typed /\ OnlyWhenUp /\ Offered /\ RequestNamesOfferer /\ [Next]_vars
        => (OnlyWhenUp /\ Offered /\ RequestNamesOfferer)'
  BY <1>2, OfferedStep, OnlyWhenUpStep
<1> QED
  BY <1>1, <1>3, TypedInvariant, PTL DEF Spec

-----------------------------------------------------------------------------
(* One DHCP call: no message of an earlier call is left in the network.    *)

OneDhcpCall == \A x, y \in Xid : x = y

(* No REQUEST and no acknowledgement precedes the offer the client takes;  *)
(* all of them are meant for its sender and its address.                   *)
OneLessor ==
  /\ used \subseteq Xid
  /\ used = {} => phase # "dhcp" /\ requests = {} /\ replies = {}
  /\ phase = "dhcp" =>
       \A m \in requests : m.type = "REQUEST" =>
         /\ dhcp_state # "DISCOVER"
         /\ m.server = dhcp_server_ip /\ m.requested = my_ip
  /\ phase = "dhcp" =>
       \A r \in replies : r.type = "ACK" =>
         /\ dhcp_state # "DISCOVER"
         /\ r.saddr = dhcp_server_ip /\ my_ip = Address[r.saddr]
  /\ \A r \in replies : r.type = "ACK" =>
       \E lease \in leased : lease[2] = r.saddr

LEMMA RepliesStep ==
  ASSUME [Next]_vars, NEW r \in replies', r \notin replies
  PROVE  /\ UNCHANGED <<my_ip, dhcp_server_ip, phase, dhcp_state>>
         /\ r.type = "ACK" =>
              \E m \in requests :
                /\ m.type = "REQUEST" /\ m.server = r.saddr
                /\ m.requested = Address[r.saddr]
                /\ \E lease \in leased' : lease[2] = r.saddr
<1>1. ServerStep
  BY DEF Next, Machine, Network, vars, netVars
<1>2. PICK s \in Server, m \in requests :
         \/ /\ m.type = "DISCOVER"
            /\ replies' = replies \cup {Reply(s, "OFFER", m.xid)}
         \/ /\ m.type = "REQUEST" /\ m.server = s /\ m.requested = Address[s]
            /\ replies' = replies \cup {Reply(s, "ACK", m.xid)}
            /\ leased' = leased \cup {<<m.xid, s>>}
         \/ /\ m.type = "REQUEST" /\ m.server = s
            /\ replies' = replies \cup {Reply(s, "NAK", m.xid)}
  BY <1>1 DEF ServerStep
<1>3. UNCHANGED <<my_ip, dhcp_server_ip, phase, dhcp_state>>
  BY <1>1 DEF ServerStep, identity, dhcp
<1>4. CASE r.type # "ACK"
  BY <1>3, <1>4
<1>5. CASE r.type = "ACK"
  <2>1. /\ m.type = "REQUEST" /\ m.server = s /\ m.requested = Address[s]
        /\ r = Reply(s, "ACK", m.xid) /\ <<m.xid, s>> \in leased'
    BY <1>2, <1>5 DEF Reply
  <2> QED
    BY <1>3, <2>1 DEF Reply
<1> QED
  BY <1>4, <1>5

LEMMA LeasedGrows ==
  ASSUME [Next]_vars
  PROVE  leased \subseteq leased'
BY DEF Next, ServerStep, Machine, Network, vars, netVars

LEMMA OneLessorStep ==
  ASSUME OneDhcpCall, Typed, OnlyWhenUp, OneLessor, [Next]_vars
  PROVE  OneLessor'
<1> USE DEF OneLessor
<1>1. used' \subseteq Xid /\ used \subseteq used'
  BY DEF Next, Machine, ProgramStep, FreshCall, ServerStep, vars, netVars
<1>2. \/ UNCHANGED <<my_ip, dhcp_server_ip, phase, dhcp_state>>
      \/ phase' # "dhcp"
      \/ /\ phase = "dhcp" /\ DhcpReceive(replies)
      \/ /\ phase' = "dhcp" /\ dhcp_state' = "DISCOVER"
         /\ requests = {} /\ replies = {} /\ used' # {}
  <2>1. ASSUME NEW xid \in Xid, xid \notin used
        PROVE  used = {}
    BY <2>1 DEF OneDhcpCall
  <2> QED
    BY <2>1, DhcpMoves
<1>3. used' = {} => phase' # "dhcp"
  <2> SUFFICES ASSUME used' = {}, phase' = "dhcp" PROVE FALSE
    OBVIOUS
  <2>1. used = {} /\ phase # "dhcp"
    BY <1>1
  <2> QED
    BY <1>2, <2>1
<1>4. used' = {} => requests' = {} /\ replies' = {}
  <2> SUFFICES ASSUME used' = {} PROVE requests' = {} /\ replies' = {}
    OBVIOUS
  <2>1. phase # "dhcp" /\ requests = {} /\ replies = {}
    BY <1>1
  <2>2. requests' = {}
    BY <2>1, NewRequest DEF DhcpSend, DhcpRunning
  <2>3. replies' = {}
    BY <2>1 DEF Next, ServerStep, Machine, Network, vars, netVars
  <2> QED
    BY <2>2, <2>3
<1>5. ASSUME phase' = "dhcp", NEW m \in requests', m.type = "REQUEST"
      PROVE  /\ dhcp_state' # "DISCOVER"
             /\ m.server = dhcp_server_ip' /\ m.requested = my_ip'
  <2>1. CASE m \in requests
    <3>1. CASE phase = "dhcp" /\ DhcpReceive(replies)
      BY <1>5, <2>1, <3>1, ReceiveMoves
    <3> QED
      BY <1>2, <1>5, <2>1, <3>1
  <2>2. CASE m \notin requests
    <3>1. DhcpSend /\ m = DhcpMessage
      BY <2>2, NewRequest
    <3> QED
      BY <1>5, <3>1
      DEF DhcpSend, DhcpRunning, DhcpMessage, identity, dhcp
  <2> QED
    BY <2>1, <2>2
<1>6. ASSUME NEW r \in replies', r.type = "ACK"
      PROVE  \E lease \in leased' : lease[2] = r.saddr
  BY <1>6, RepliesStep, LeasedGrows
<1>7. ASSUME phase' = "dhcp", NEW r \in replies', r.type = "ACK"
      PROVE  /\ dhcp_state' # "DISCOVER"
             /\ r.saddr = dhcp_server_ip' /\ my_ip' = Address[r.saddr]
  <2>1. CASE r \in replies
    <3>1. CASE phase = "dhcp" /\ DhcpReceive(replies)
      BY <1>7, <2>1, <3>1, ReceiveMoves
    <3> QED
      BY <1>2, <1>7, <2>1, <3>1
  <2>2. CASE r \notin replies
    <3>1. UNCHANGED <<my_ip, dhcp_server_ip, phase, dhcp_state>>
      BY <2>2, RepliesStep
    <3>2. PICK m \in requests :
            /\ m.type = "REQUEST" /\ m.server = r.saddr
            /\ m.requested = Address[r.saddr]
      BY <1>7, <2>2, RepliesStep
    <3> QED
      BY <1>7, <3>1, <3>2
  <2> QED
    BY <2>1, <2>2
<1> QED
  BY <1>1, <1>3, <1>4, <1>5, <1>6, <1>7

LEMMA OneLessorInvariant ==
  ASSUME OneDhcpCall
  PROVE  Spec => [](Typed /\ OnlyWhenUp /\ OneLessor)
<1>1. Init => OnlyWhenUp /\ OneLessor
  BY DEF Init, ProgramsInit, NetworkInitInit, Fresh, OnlyWhenUp, Running,
         OneLessor
<1>2. Typed /\ OnlyWhenUp /\ OneLessor /\ [Next]_vars
        => (OnlyWhenUp /\ OneLessor)'
  BY OneLessorStep, OnlyWhenUpStep
<1> QED
  BY <1>1, <1>2, TypedInvariant, PTL DEF Spec

(* With one DHCP call the client binds to the address that the server it   *)
(* chose has leased it and to all of that server's settings, however many  *)
(* servers make offers and however the network treats the messages.        *)
THEOREM BoundToLessor ==
  ASSUME OneDhcpCall
  PROVE  Spec => []SettingsOfLessor
<1>1. Init => SettingsOfLessor
  BY DEF Init, ProgramsInit, NetworkInitInit, Fresh, SettingsOfLessor, Bound
<1>2. ASSUME Typed, OnlyWhenUp, OneLessor, SettingsOfLessor, [Next]_vars
      PROVE  SettingsOfLessor'
  <2> SUFFICES ASSUME phase' = "dhcp", dhcp_state' = "BOUND"
               PROVE  \E lease \in leased' :
                        /\ my_ip' = Address[lease[2]]
                        /\ \A o \in DOMAIN Settings[lease[2]] :
                             config'[o] = Settings[lease[2]][o]
                        /\ config'["router"] # NoIp
    BY DEF SettingsOfLessor, Bound, router_ip
  <2>1. CASE UNCHANGED <<my_ip, dhcp_server_ip, config, phase, dhcp_state>>
    BY <1>2, <2>1, LeasedGrows DEF SettingsOfLessor, Bound, router_ip
  <2>2. CASE phase = "dhcp" /\ DhcpReceive(replies)
    <3>1. PICK m \in replies, s \in Server :
            /\ FromServer(m, s)
            /\ dhcp_state = "OFFER_RCVD" /\ m.type = "ACK"
            /\ UNCHANGED <<my_ip, dhcp_server_ip>>
            /\ config' = IF Override(Settings[s])["router"] = NoIp
                         THEN [Override(Settings[s]) EXCEPT
                                 !["router"] = dhcp_server_ip]
                         ELSE Override(Settings[s])
      BY <1>2, <2>2, ReceiveMoves
    <3>2. m.saddr = s /\ dhcp_server_ip = s /\ my_ip = Address[s]
      BY <1>2, <2>2, <3>1 DEF OneLessor, FromServer
    <3>3. PICK lease \in leased : lease[2] = s
      BY <1>2, <3>1, <3>2 DEF OneLessor
    <3>4. IsSettings(Settings[s]) /\ s # NoIp
      BY DhcpNetworkAssumption, ArpCacheAssumption
    <3>5. Override(Settings[s]) \in [Option -> Ip \cup {NoIp}]
      BY <1>2, <3>4, OverrideType DEF Typed, TypeOK
    <3>6. \A o \in DOMAIN Settings[s] :
            /\ o \in Option /\ Override(Settings[s])[o] = Settings[s][o]
            /\ Settings[s][o] # NoIp
      BY <3>4, ArpCacheAssumption DEF Override, IsSettings
    <3>7. config'["router"] # NoIp
      BY <3>1, <3>2, <3>4, <3>5 DEF Option
    <3>8. \A o \in DOMAIN Settings[s] : config'[o] = Settings[s][o]
      BY <3>1, <3>5, <3>6
    <3>9. lease \in leased'
      BY <1>2, LeasedGrows
    <3> QED
      BY <3>1, <3>2, <3>3, <3>7, <3>8, <3>9
  <2> QED
    BY <1>2, <2>1, <2>2, DhcpMoves
<1> QED
  BY <1>1, <1>2, OneLessorInvariant, PTL DEF Spec

(* The address the ARP loop and later polls answer for.                    *)
OwnAddress ==
  \/ \E lease \in leased : my_ip = Address[lease[2]]
  \/ \E args \in Static : my_ip = args.ip

Answering == phase = "arp" \/ Up => OwnAddress

LEMMA AnsweringStep ==
  ASSUME SettingsOfLessor, Answering, [Next]_vars
  PROVE  Answering'
<1>1. OwnAddress /\ UNCHANGED my_ip => OwnAddress'
  BY LeasedGrows DEF OwnAddress
<1>2. CASE ServerStep \/ Load \/ CallReturns \/ UNCHANGED vars
  BY <1>1, <1>2
  DEF ServerStep, Load, CallReturns, vars, initVars, identity, Answering, Up
<1>3. ASSUME NEW xid \in Xid, MakeCall(xid) PROVE Answering'
  <2>1. CASE InitNetwork(xid)
    BY <2>1 DEF InitNetwork, Answering, Up
  <2>2. CASE \E args \in Static : InitNetworkStatic(args.ip, args.settings)
    BY <2>2 DEF InitNetworkStatic, Answering, OwnAddress
  <2>3. CASE InitFails
    BY <2>3 DEF InitFails, Return, Answering, Up
  <2>4. CASE UNCHANGED <<firmware, identity, arp, dhcp, phase, timeout,
                         loops, result>>
    BY <1>1, <2>4 DEF identity, Answering, Up
  <2> QED
    BY <1>3, <2>1, <2>2, <2>3, <2>4 DEF MakeCall
<1>4. CASE CallPolls(Frames)
  BY <1>1, <1>4 DEF CallPolls, PollElsewhere, identity, Answering, Up
<1>5. CASE InitCallStep(replies, Frames)
  <2>1. CASE DhcpSend \/ DhcpIdle \/ ArpSend
    BY <1>1, <2>1 DEF DhcpSend, DhcpIdle, ArpSend, identity, Answering, Up
  <2>2. CASE DhcpReceive(replies)
    BY <2>2 DEF DhcpReceive, DhcpRunning, Answering, Up
  <2>3. CASE DhcpBound
    <3>1. /\ phase = "dhcp" /\ dhcp_state = "BOUND" /\ UNCHANGED my_ip
      BY <2>3 DEF DhcpBound, identity
    <3>2. OwnAddress
      BY <3>1 DEF SettingsOfLessor, Bound, OwnAddress
    <3> QED
      BY <1>1, <3>1, <3>2 DEF Answering
  <2>4. CASE DhcpTimeout
    BY <2>4 DEF DhcpTimeout, Return, Answering, Up
  <2>5. CASE ArpPoll(Frames)
    BY <1>1, <2>5 DEF ArpPoll, ArpRunning, identity, Answering, Up
  <2>6. CASE ArpReturn
    BY <1>1, <2>6 DEF ArpReturn, Return, identity, Answering, Up
  <2> QED
    BY <1>5, <2>1, <2>2, <2>3, <2>4, <2>5, <2>6 DEF InitCallStep, InitStep
<1>6. CASE Exit \/ MachineReset
  BY <1>6 DEF Exit, MachineReset, Unload, Answering, Up
<1> QED
  BY <1>2, <1>3, <1>4, <1>5, <1>6 DEF Next, Machine, ProgramStep, FreshCall

(* ARP requests are answered in a poll, for the address of the moment.     *)
LEMMA NewAnswer ==
  ASSUME Next, NEW m \in tx', m.kind = "ARP_REPLY"
  PROVE  (phase = "arp" \/ Up) /\ m.spa = my_ip
<1>1. ASSUME NEW n \in tx', n.kind = "ARP_REPLY", Poll(Frames)
      PROVE  n.spa = my_ip
  BY <1>1 DEF Poll, HandleArpReply, HandleArpRequest, OnWire
<1>2. ~ (ServerStep \/ Load \/ CallReturns \/ Exit \/ MachineReset)
  BY DEF ServerStep, Load, CallReturns, Exit, MachineReset, Unload
<1>3. ASSUME NEW xid \in Xid, MakeCall(xid) PROVE FALSE
  <2>1. tx' = {}
    BY <1>3
    DEF MakeCall, InitNetwork, InitNetworkStatic, ResolveGateway, InitFails,
        Return
  <2> QED
    BY <2>1
<1>4. CASE CallPolls(Frames)
  BY <1>1, <1>4 DEF CallPolls, PollElsewhere, Up
<1>5. CASE InitCallStep(replies, Frames)
  <2>1. ArpPoll(Frames)
    <3>1. ~ DhcpSend
      BY DEF DhcpSend, DhcpMessage, OnWire
    <3>2. ~ ArpSend
      BY DEF ArpSend, OnWire
    <3> QED
      BY <1>5, <3>1, <3>2
      DEF InitCallStep, InitStep, DhcpReceive, DhcpIdle, DhcpBound,
          ResolveGateway, DhcpTimeout, ArpReturn, Return
  <2> QED
    BY <1>1, <2>1 DEF ArpPoll, ArpRunning
<1> QED
  BY <1>2, <1>3, <1>4, <1>5 DEF Next, Machine, ProgramStep, FreshCall

(* ARP is answered only for an address leased or given to the machine.     *)
THEOREM AnswersForOwnOnly ==
  ASSUME OneDhcpCall
  PROVE  Spec => []AnswersOnlyForOwn
<1>1. Init => Answering /\ AnswersOnlyForOwn
  BY DEF Init, ProgramsInit, NetworkInitInit, Fresh, Answering, Up,
         AnswersOnlyForOwn
<1>2. ASSUME Answering, AnswersOnlyForOwn, [Next]_vars
      PROVE  AnswersOnlyForOwn'
  <2>1. CASE Next
    BY <1>2, <2>1, NewAnswer, LeasedGrows
    DEF Answering, OwnAddress, AnswersOnlyForOwn
  <2>2. CASE UNCHANGED vars
    BY <1>2, <2>2 DEF vars, initVars, netVars, AnswersOnlyForOwn
  <2> QED
    BY <1>2, <2>1, <2>2
<1>3. SettingsOfLessor /\ Answering /\ AnswersOnlyForOwn /\ [Next]_vars
        => (Answering /\ AnswersOnlyForOwn)'
  BY <1>2, AnsweringStep
<1> QED
  BY <1>1, <1>3, BoundToLessor, PTL DEF Spec

=============================================================================
