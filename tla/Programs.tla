------------------------------- MODULE Programs -------------------------------
(***************************************************************************)
(* The programs built on the stack, main.cpp and the examples: each EfiMain*)
(* makes one call of the API after the other and leaves early on some      *)
(* errors.  The firmware's shell runs one program after the other; every   *)
(* image starts with fresh globals, but the NIC keeps its state.  The      *)
(* machine may be reset at any time.                                       *)
(*                                                                         *)
(* The init calls are those of NetworkInit.  Of the other calls only the   *)
(* frames they poll and whether they fail matter here.                     *)
(***************************************************************************)
EXTENDS NetworkInit, Sequences

CONSTANTS
  Installed,     (* The programs the shell runs.                           *)
  MaxRuns,       (* Bound on the programs run.                             *)
  Static         (* Arguments of init_network_static: [ip, settings].      *)

Step(function, onError) == [call |-> function, onError |-> onError]

Repeat(n, step) == [k \in 1 .. n |-> step]

Main ==
  <<Step("init_network", "return"), Step("ping", "go on"),
    Step("resolve_hostname", "go on"), Step("http_get", "go on")>>

DnsLookup ==
  <<Step("init_network", "return")>>
    \o Repeat(4, Step("resolve_hostname", "go on"))

GetPage == <<Step("init_network", "return"), Step("http_get", "go on")>>

PingGateway ==
  <<Step("init_network", "return")>> \o Repeat(5, Step("ping", "go on"))

StaticIp ==
  <<Step("init_network_static", "return"), Step("ping", "go on"),
    Step("resolve_hostname", "go on")>>

(* A send that fails goes to the tcp_close at the end.                     *)
TcpClientExample ==
  <<Step("init_network", "return"), Step("resolve_hostname", "return"),
    Step("tcp_connect", "return"), Step("tcp_send", "close"),
    Step("tcp_receive", "go on"), Step("tcp_close", "go on")>>

UdpEcho ==
  <<Step("init_network", "return"), Step("udp_send", "go on"),
    Step("udp_receive", "go on")>>

InitCall == {"init_network", "init_network_static"}

(* Calls that transmit but never poll.                                     *)
SendCall == {"udp_send", "tcp_send"}

(* What all of them have in common: an init call comes first, and no other *)
(* call is made after one that has failed.                                 *)
Guarded(p) ==
  /\ 1 \in DOMAIN p /\ p[1].call \in InitCall
  /\ \A k \in DOMAIN p : p[k].call \in InitCall =>
       \/ p[k].onError = "return"
       \/ /\ p[k].onError = "go on"
          /\ k + 1 \in DOMAIN p => p[k + 1].call \in InitCall

ASSUME ProgramsAssumption ==
  /\ Installed \subseteq Seq([call : STRING, onError : STRING])
  /\ \A p \in Installed : Guarded(p)

VARIABLES
  program,       (* What is running; empty while the shell is.             *)
  at,            (* The index of its present step.                         *)
  calling,       (* The call of that step is in progress.                  *)
  runs           (* Programs run so far.                                   *)

programVars == <<program, at, calling, runs>>

Running == at \in DOMAIN program

Function == program[at].call

Load ==
  /\ program = <<>> /\ runs < MaxRuns
  /\ program' \in Installed
  /\ at' = 1 /\ calling' = FALSE /\ runs' = runs + 1
  /\ tx' = {}
  /\ UNCHANGED <<firmware, identity, arp, dhcp, phase, timeout, loops, result>>

(* The call of the present step; an init call may return at once.          *)
MakeCall(xid) ==
  /\ Running /\ ~ calling
  /\ calling' = TRUE
  /\ \/ Function = "init_network" /\ InitNetwork(xid)
     \/ /\ Function = "init_network_static"
        /\ \E args \in Static : InitNetworkStatic(args.ip, args.settings)
     \/ Function \in InitCall /\ InitFails
     \/ /\ Function \notin InitCall
        /\ tx' = {}
        /\ UNCHANGED <<firmware, identity, arp, dhcp, phase, timeout, loops,
                       result>>
  /\ UNCHANGED <<program, at, runs>>

CallPolls(frames) ==
  /\ Running /\ calling
  /\ Function \notin InitCall \cup SendCall
  /\ PollElsewhere(frames)
  /\ UNCHANGED programVars

InitCallStep(replies, frames) ==
  InitStep(replies, frames) /\ UNCHANGED programVars

(* Where EfiMain goes on after the call.                                   *)
Following(ok) ==
  IF ok \/ program[at].onError = "go on" THEN at + 1
  ELSE IF program[at].onError = "close" THEN Len(program)
  ELSE Len(program) + 1

(* Faulty variant: an error of the call is printed and forgotten.          *)
CallReturnsUnheeded ==
  /\ Running /\ calling /\ phase = "idle"
  /\ at' = at + 1
  /\ calling' = FALSE
  /\ tx' = {}
  /\ UNCHANGED <<firmware, identity, arp, dhcp, phase, timeout, loops, result,
                 program, runs>>

CallReturns ==
  /\ Running /\ calling /\ phase = "idle"
  /\ \E ok \in BOOLEAN :
       /\ Function \in InitCall => ok = (result = "SUCCESS")
       /\ at' = Following(ok)
  /\ calling' = FALSE
  /\ tx' = {}
  /\ UNCHANGED <<firmware, identity, arp, dhcp, phase, timeout, loops, result,
                 program, runs>>

(* The globals of the next image; Fresh primed.                            *)
Unload ==
  /\ CacheClear
  /\ my_ip' = NoIp /\ dhcp_server_ip' = NoIp
  /\ config' = [o \in Option |-> NoIp]
  /\ router_mac' = NoMac
  /\ arp_target_ip' = NoIp /\ arp_target_mac' = NoMac /\ arp_resolved' = FALSE
  /\ phase' = "idle"
  /\ dhcp_state' = "DISCOVER" /\ UNCHANGED dhcp_xid
  /\ timeout' = 0 /\ loops' = 0
  /\ result' = "none" /\ tx' = {}
  /\ program' = <<>> /\ at' = 0 /\ calling' = FALSE
  /\ UNCHANGED runs

Exit ==
  /\ program # <<>> /\ ~ Running
  /\ Unload
  /\ CloseProtocols

(* The machine is reset, in whatever the program was doing.                *)
MachineReset ==
  /\ program # <<>>
  /\ Unload
  /\ PowerCycle

ProgramsInit ==
  /\ NetworkInitInit
  /\ program = <<>> /\ at = 0 /\ calling = FALSE /\ runs = 0

=============================================================================
