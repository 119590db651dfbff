---------------------------- MODULE MCDhcpNetwork ----------------------------
(* Two DHCP servers.  Both acknowledge with a DNS server of their own, but *)
(* d2 with no router, so that it may become the gateway itself; and their  *)
(* offers and refusals give other values than their acknowledgements.  The *)
(* router has two hardware addresses.                                      *)
EXTENDS DhcpNetwork, TLC

CONSTANTS a1, a2, a3, d1, d2, r1, n1, n2, p1, m1, m2, m3

MCIp == {a1, a2, a3, d1, d2, r1, n1, n2, p1}
MCServer == {d1, d2}
MCAddress == d1 :> a1 @@ d2 :> a2
MCSettings == d1 :> ("router" :> r1 @@ "dns" :> n1) @@ d2 :> ("dns" :> n2)
MCProposal == d1 :> ("router" :> d2 @@ "dns" :> n2) @@ d2 :> ("dns" :> n1)
MCMacsOf == r1 :> {m1, m3} @@ d2 :> {m2}

(* A program that falls back to a static address when DHCP has failed.     *)
Fallback ==
  <<Step("init_network", "go on"), Step("init_network_static", "return"),
    Step("ping", "go on")>>

MCMain == {Main}

MCInstalled ==
  {Main, DnsLookup, GetPage, PingGateway, StaticIp, TcpClientExample, UdpEcho,
   Fallback}

(* Static configurations behind either gateway.                            *)
MCStatic ==
  {[ip |-> a3, settings |-> "router" :> g @@ "dns" :> n1 @@ "mask" :> NoIp] :
     g \in {r1, d2}}

(* siaddr: the server itself, or left empty.                               *)
NextSelf == d1 :> d1 @@ d2 :> NoIp

(* siaddr: the boot server of the network, as RFC 2131 has it.             *)
NextBoot == d1 :> p1 @@ d2 :> p1

=============================================================================
