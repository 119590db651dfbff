----------------------------- MODULE DhcpNetwork -----------------------------
(***************************************************************************)
(* Programs on a network with DHCP servers and hosts, which are outside    *)
(* the repository.  Servers answer a DISCOVER with an offer and a REQUEST  *)
(* that names them with an acknowledgement or a refusal, as in RFC 2131;   *)
(* the settings in an offer or a refusal may differ from those in the      *)
(* acknowledgement.  A host may change its hardware address: the ARP       *)
(* frames of host h carry any of MacsOf[h].  The network may lose, delay,  *)
(* repeat and reorder all messages.                                        *)
(***************************************************************************)
EXTENDS Programs

CONSTANTS
  Server,        (* Servers, by their own IP addresses.                    *)
  Address,       (* Address[s]: what s leases to this client.              *)
  NextServer,    (* NextServer[s]: the siaddr field of its messages.       *)
  Settings,      (* Settings[s]: the options of its acknowledgements.      *)
  Proposal,      (* Proposal[s]: those of its offers and refusals.         *)
  MacsOf,        (* MacsOf[h]: the hardware addresses host h gives.        *)
  Asked          (* Addresses that other hosts' ARP frames ask for.        *)

IsSettings(f) ==
  DOMAIN f \subseteq Option /\ \A o \in DOMAIN f : f[o] \in Ip

ASSUME DhcpNetworkAssumption ==
  /\ Server \subseteq Ip
  /\ Address \in [Server -> Ip]
  /\ NextServer \in [Server -> Ip \cup {NoIp}]
  /\ \A s \in Server : IsSettings(Settings[s]) /\ IsSettings(Proposal[s])
  /\ \A args \in Static :
       /\ args.ip \in Ip
       /\ args.settings \in [Option \ {"lease"} -> Ip \cup {NoIp}]
  /\ DOMAIN MacsOf \subseteq Ip /\ MacsOf \in [DOMAIN MacsOf -> SUBSET Mac]

VARIABLES
  used,          (* Transaction IDs of the init calls so far.              *)
  requests,      (* Every DHCP message the client has broadcast.           *)
  replies,       (* Every message the servers have sent.                   *)
  leased         (* Addresses acknowledged to the client: <<xid, s>>.      *)

netVars == <<used, requests, replies, leased>>
vars == <<initVars, programVars, netVars>>

Hosts == DOMAIN MacsOf

(* Hosts answer for themselves, and ask for others.                        *)
Frames ==
  {f \in [oper : {"REPLY", "REQUEST"}, spa : Hosts, sha : Mac, tpa : Asked] :
     f.sha \in MacsOf[f.spa]}

Reply(s, type, xid) ==
  [type |-> type, xid |-> xid, yiaddr |-> Address[s],
   siaddr |-> NextServer[s], saddr |-> s,
   options |-> IF type = "ACK" THEN Settings[s] ELSE Proposal[s]]

ServerStep ==
  /\ \E s \in Server, m \in requests :
       \/ /\ m.type = "DISCOVER"
          /\ replies' = replies \cup {Reply(s, "OFFER", m.xid)}
          /\ UNCHANGED leased
       \/ /\ m.type = "REQUEST" /\ m.server = s /\ m.requested = Address[s]
          /\ replies' = replies \cup {Reply(s, "ACK", m.xid)}
          /\ leased' = leased \cup {<<m.xid, s>>}
       \/ /\ m.type = "REQUEST" /\ m.server = s
          /\ replies' = replies \cup {Reply(s, "NAK", m.xid)}
          /\ UNCHANGED leased
  /\ tx' = {}
  /\ UNCHANGED <<firmware, identity, arp, dhcp, phase, timeout, loops, result,
                 programVars, used, requests>>

(* No two init calls draw the same transaction ID.                         *)
FreshCall ==
  \E xid \in Xid :
    /\ MakeCall(xid)
    /\ IF phase' = "dhcp" THEN xid \notin used /\ used' = used \cup {xid}
       ELSE UNCHANGED used

(* The steps a program takes by itself once it has been loaded.            *)
ProgramStep ==
  \/ FreshCall
  \/ InitCallStep(replies, Frames) /\ UNCHANGED used
  \/ CallReturns /\ UNCHANGED used
  \/ Exit /\ UNCHANGED used

Network ==
  /\ requests' = requests \cup {m \in tx' : m.kind = "DHCP"}
  /\ UNCHANGED <<replies, leased>>

Machine ==
  /\ \/ ProgramStep
     \/ (Load \/ CallPolls(Frames) \/ MachineReset) /\ UNCHANGED used
  /\ Network

Init ==
  /\ ProgramsInit
  /\ used = {} /\ requests = {} /\ replies = {} /\ leased = {}

Next == Machine \/ ServerStep

(* A program that is running goes on running; calls other than init return *)
(* because their loops are bounded.                                        *)
Spec == Init /\ [][Next]_vars /\ WF_vars(ProgramStep /\ Network)

-----------------------------------------------------------------------------
(* Properties.                                                             *)

(* The globals hold values of their C++ types.                             *)
TypeOK ==
  /\ CacheTypeOK
  /\ my_ip \in Ip \cup {NoIp} /\ dhcp_server_ip \in Ip \cup {NoIp}
  /\ config \in [Option -> Ip \cup {NoIp}]
  /\ {router_mac, arp_target_mac} \subseteq Mac \cup {NoMac}
  /\ arp_target_ip \in Ip \cup {NoIp} /\ arp_resolved \in BOOLEAN
  /\ phase \in {"idle", "dhcp", "arp"}
  /\ dhcp_state \in {"DISCOVER", "OFFER_RCVD", "BOUND"}
  /\ timeout \in 0 .. Retransmit /\ loops \in Nat
  /\ result \in {"none", "SUCCESS", "TIMEOUT", "ERROR"}
  /\ snp \in BOOLEAN /\ nic \in NicState

Bound == phase = "dhcp" /\ dhcp_state = "BOUND"

(* "Receive DHCP ACK - IP is now ours" (README.md:246): the address a      *)
(* client binds to is one that a server has acknowledged to it, however    *)
(* many servers make offers and however late their messages come.          *)
LeaseIsOurs ==
  Bound => \E lease \in leased : my_ip = Address[lease[2]]

(* A bound client uses every setting in the acknowledgement of the server  *)
(* that has leased it the address: no other offer or refusal, of which all *)
(* options are parsed as well (api.hpp:141-155), leaves its own value in   *)
(* the place of one; and it has a gateway.  A setting the acknowledgement  *)
(* does not give may be left over from any other reply.                    *)
SettingsOfLessor ==
  Bound => \E lease \in leased :
    LET s == lease[2] IN
    /\ my_ip = Address[s]
    /\ \A o \in DOMAIN Settings[s] : config[o] = Settings[s][o]
    /\ router_ip # NoIp

(* A REQUEST names the server that offered the address it asks for         *)
(* ("Option 54: Server Identifier", protocols.hpp:85).                     *)
RequestNamesOfferer ==
  \A m \in requests : m.type = "REQUEST" =>
    m.server \in Server /\ m.requested = Address[m.server]

(* Once an init call has succeeded, and through every ARP frame polled     *)
(* later, the three copies of the gateway's hardware address agree:        *)
(* router_mac, arp_target_mac and the cache, also when the gateway changes *)
(* it, late replies give an old one or the cache drops it; and it is one   *)
(* the gateway has given.                                                  *)
GatewayCoherent ==
  phase = "idle" /\ result = "SUCCESS" =>
    /\ arp_target_ip = router_ip
    /\ router_mac = arp_target_mac
    /\ router_mac \in MacsOf[router_ip]
    /\ Lookup(router_ip) \in {router_mac, NoMac}

(* The stack answers ARP only for an address leased to it or given to      *)
(* init_network_static, never for one that was merely offered.             *)
AnswersOnlyForOwn ==
  \A m \in tx : m.kind = "ARP_REPLY" =>
    \/ \E lease \in leased : m.spa = Address[lease[2]]
    \/ \E args \in Static : m.spa = args.ip

(* Every call of the API but init is made with a working NIC, an address   *)
(* of the machine's own and a MAC address of the gateway to send frames to *)
(* (core.hpp:295), although no program and no init function looks at what  *)
(* the NIC's services return: init has succeeded in this very image.       *)
UsableNetwork ==
  Running /\ calling /\ Function \notin InitCall =>
    /\ snp /\ nic = "Initialized"
    /\ my_ip # NoIp
    /\ router_mac \in MacsOf[router_ip]

(* A program comes to its end whatever arrives and whatever does not, and  *)
(* so does every init call.                                                *)
ProgramEnds == program # <<>> ~> program = <<>>

=============================================================================
