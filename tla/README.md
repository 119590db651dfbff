# Verification of uefi-netstack

TLA+ models of the network stack, the TLC runs that check them on small
instances, and theorems about them checked by the TLA+ proof system. Paths such
as `core.hpp:366` are relative to the repository's root.

## 1. The system

uefi-netstack is a header-only IPv4 stack for UEFI applications, on top of the
firmware's Simple Network Protocol (SNP), which moves raw Ethernet frames. It
runs on one processor, single threaded, without interrupts: all state is in
globals (`globals.hpp`), and every function of the public API (`api.hpp`) is a
blocking loop that polls the NIC a bounded number of times.

The only place where the world gets in is `core::poll` (`core.hpp:450`): it takes
one frame from the NIC and runs the handler of its protocol to the end. (The DHCP
loop of `init_network` reads the NIC itself.) So there are no interleavings inside
a handler, but between any two polls anything may have happened outside, and *every*
API polls: a TCP segment is handled in the middle of `resolve_hostname`, an ARP
reply in the middle of `tcp_receive`. A late segment of one connection is handled
in the middle of the next one's DNS resolution, and the programs, which run one
after the other, leave messages for each other in the network and a NIC in
whatever state it is.

### Components

| Component | Code | State | Operations | What is hard | What makes it correct |
|---|---|---|---|---|---|
| TCP client | `core.hpp:289-396`, `api.hpp:366-470` | session (`tcp_state`, `tcp_seq`, `tcp_ack`, port), posted receive buffer | `tcp_connect`, `tcp_send`, `tcp_receive`, `tcp_close`, `handle_tcp` | segments lost, repeated, reordered, late ones of an earlier connection, resets at any time | handed-out bytes are consecutive bytes of the stream; nothing unsent is acknowledged; buffers are respected; calls return and report truthfully |
| UDP | `core.hpp:211-227,403-437`, `api.hpp:484-521` | local port, posted buffer | `udp_send`, `udp_receive` | datagrams between calls, port shared with a DNS query | one whole datagram, or a cut one with the length of the cut |
| DNS resolver | `core.hpp:229-274`, `api.hpp:327-354`, `protocols.hpp:130-204` | id and port of the latest query, the answer | `resolve_hostname`, `dns_query` | repeated queries, late and reordered answers | the address returned is the hostname's |
| ICMP echo | `core.hpp:121-204`, `api.hpp:533-552` | id, sequence number and flag of the ping | `ping`, `handle_icmp` | late replies | success means an answer to this ping |
| ARP protocol and cache | `core.hpp:67-114`, `arp_cache.hpp`, `protocols.hpp:103-124` | table and next slot; pending resolution; `router_mac` | `lookup`, `update`, `flush`, `handle_arp`, `arp_request` | eviction, three copies of the gateway's address | one slot per host, current address; copies agree |
| DHCP client, initialisation | `api.hpp:90-315`, `protocols.hpp:21-97` | address, server, settings; local `dhcp_state`, `timeout`, `loops` | `init_network`, `init_network_static` | several servers, late and repeated messages, refusals, repeated calls | the address was acknowledged to us; settings of the lessor; the gateway is resolved |
| Frame transmission | `core.hpp:32-60` | the one transmit buffer | `send_raw` | completion later than all retries | frames leave once, intact, in order |
| Frame reception | `core.hpp:450-497` | the receive buffer | `poll` | receive errors, NIC reset with frames queued | every frame to its handler; a reset loses no accepted frame |
| HTTP client | `api.hpp:571-607` | none but its locals | `http_get` | error paths between DNS and TCP calls, answers to an earlier connection | no session left open on any path; the response is the beginning of one segment of this connection |
| NIC bring-up | `api.hpp:42-88` | SNP handle, state of the NIC | part of both init functions | failure half way, ignored statuses, the handle opened exclusively | no call of the API runs on a NIC that does not work |
| Checksums, byte order, PRNG | `net_math.hpp`, `utils.hpp`, `rng.hpp` | PRNG seed | pure functions | odd lengths, carries, zero | receivers accept the datagrams |
| Entry point, examples | `main.cpp`, `examples/` | fresh globals per image | seven `EfiMain` | what happens after an error; programs one after the other; resets | no call without a network; every program ends |
| Memory, console, headers | `memory.hpp`, `io.hpp`, `types.hpp`, `constants.hpp` | none of the protocols | | | |

Components interact through the globals and three calls: handlers and API call
`core::send_raw`, the API calls `core::poll`, and `handle_arp` calls
`arp_cache::update`. The receive buffers of TCP and UDP are lent by the
application for the length of one call. A program is one `EfiMain` that makes API
calls one after the other; the firmware's shell runs the programs.

The hazards of this code, each at its line, are listed in `PROJECT.json`
(`hazards`) with the properties that would notice them.

## 2. Modules

A step of the client modules runs from one read of the NIC to the next: the body of
a call up to its loop, one turn of a loop (poll, handler, counters), or the code
behind the loop. This is exact, as nothing else runs in between. `Stall` is
time passing and has no step. Which frames may arrive is a *parameter* of the
polling actions, so that the same handlers are used with arbitrary frames and with
frames that a modelled network delivers.

| Module | Models | Notes |
|---|---|---|
| `TcpClient` | the TCP calls and `handle_tcp` | `session` and `receiver` are the globals; `call`, `loops`, `max_loops`, `timeout` the locals of the call in progress; `ret` its result; `tx` what the latest step transmitted |
| `TcpClientProps` | properties that hold whatever segments arrive | |
| `TcpSession` | `TcpClient`, a server and the network between them | the server is external and follows RFC 793; the network is a growing set of segments, any of which may be delivered at any time: loss, delay, repetition, reordering |
| `TcpSessionProps` | what client and server achieve together | |
| `HttpGet` | `http_get` on top of `TcpSession` | `http` is the call it is in, `st` its local; the calls are the actions of `TcpClient` themselves |
| `BlockingCall` | abstract: what every blocking call promises | refined by `tcp_connect`, `tcp_receive`, `udp_receive`, `resolve_hostname`, `ping` |
| `Messages` | UDP, DNS and ICMP | one datagram may pass both halves of `handle_udp`, as in the code |
| `MessageNetwork` | `Messages`, a DNS server, echo hosts, a UDP service | the latter external |
| `ArpCache` | `arp_cache.hpp` | |
| `ArpMap` | abstract: a bounded map with first-in-first-out eviction | refined by `ArpCache` |
| `BringUp` | the first half of both init functions: pages, SNP handle, Stop, Start, Initialize | each service may fail, and no status is looked at, as in the code |
| `NetworkInit` | the DHCP and ARP loops of both init functions, `handle_arp`, on top of `ArpCache` and `BringUp` | a NIC that is not initialized neither sends nor receives |
| `Programs` | `main.cpp` and the six examples | a program is the sequence of its calls, each with what `EfiMain` does when it fails; the shell loads programs with fresh globals; the machine may be reset at any time |
| `DhcpNetwork` | `Programs`, DHCP servers and hosts | external; servers answer as in RFC 2131, with options that may differ between servers and between an offer, a refusal (`Proposal`) and an acknowledgement (`Settings`); a host gives any of the hardware addresses `MacsOf` assigns to it |
| `LinkTx` | `send_raw`, the transmit half of the NIC, the reset `poll` does after an error | the NIC is external: it reads the buffer some time after `Transmit` |
| `Packets` | the bytes: checksums, the DNS query, the walk over its answer, the scan of DHCP options | servers write what the RFCs say, owners of records in every form of RFC 1035 4.1.4: in full, as a pointer, as labels and a pointer; behind a response lies what earlier frames left in the buffer |
| `*Proofs` | theorems | section 5 |
| `MC*` | constants for TLC | |

Correspondence is name by name: `HandleFin` is the FIN branch of `handle_tcp`
*with* the data branch before it (a segment with payload and FIN passes both and
causes two transmissions, in that order), `ConnectSend` and `ConnectPoll` are the
halves of one turn of the loop of `tcp_connect`, and so on; `PROJECT.json` gives the
lines of every definition. Operators introduced by "Faulty variant" are not
part of a specification: each is a plausible bug in the definition after it,
and shows that some property would notice that bug.

Abstractions, all of data:

* Segments and datagrams are records of the fields the handlers look at. Payloads
  are short sequences; frames are well formed, so the unsigned subtraction at
  `core.hpp:341` does not underflow and no length exceeds a frame. Only in
  `Packets` are they bytes. There, hostnames, answers and options have any length in
  the theorems and a few small ones in the run.
* 32-bit numbers are taken modulo `Word`; every property about them holds around
  the wrap because the initial numbers are chosen next to it.
* Addresses, hostnames and options are model values. All options that the DHCP
  loop stores are handled by one function, `config`.
* Ports, ids and sequence numbers drawn at random are assumed fresh in the runs with
  a network: a combination does not come up again while answers to its
  first use still travel (`FreshDraws`, `FreshPings`, `Connect`, `FreshCall`). In
  `TcpClient` itself they may repeat.
* `tcp_remote_ip` and `tcp_remote_port` are not state: `handle_tcp` never looks
  at them.
* `resolve_hostname` inside `http_get` is the frames its loop polls and an outcome.
  In `Programs` the calls other than init are the frames they poll and whether they
  fail.

## 3. Runs

| Run | Question | Bounds, and why they suffice |
|---|---|---|
| `tcp_client` | What do the TCP calls guarantee against *any* segments? | two ports (so that segments for another port exist), sequence space of 3 (wraps constantly), payloads of 0, 1 and 2 bytes against buffers of 0, 1 and 2 (empty, exact, cut, full), timeouts of 0 to 2 ms with 2 turns each, two turns between SYNs and 3 in all (one repetition), a drain of 2 turns |
| `tcp_session` | One connection with a server that answers | two sends of 1 or 2 bytes and a stream of 2 from the server, numbers next to the wrap, at most 3 server segments: enough for an acknowledgement of the first send to come before, between and behind the two, repeated or late, with and without FIN. With a third send, or if the condition on the FIN is dropped, the run fails (section 4, finding 1) |
| `http_get` | Two requests one after the other | 2 ports, one turn of polls during the resolution, 3 server segments: a SYN-ACK and data of the first connection may still travel during the second |
| `tcp_server_first` | What if the server speaks first? | finding, section 4 |
| `arp_cache` | The table and its refinement of a FIFO map | 4 hosts in 3 slots, 2 addresses: every eviction position, refreshes and flushes |
| `dhcp_network` | Three programs one after the other | all seven programs of the repository and one that falls back to a static address; 2 servers with different leases. Both acknowledge with a DNS server, not the same one; one gives a router, the other none (so that it may become the gateway itself); offers and refusals give other values than acknowledgements, so that any of them could be left in place of the lessor's. The router has two hardware addresses, between which its ARP frames change at any time. A cache of 2 slots, every state and failure of the NIC. One transaction ID: at most one `init_network` of the three gets as far as DHCP, the others fail before, because a second one breaks the lease (finding 2) |
| `dhcp_twice` | The same program twice, with fresh IDs | finding, section 4 |
| `dhcp_boot` | Servers with a separate boot server | finding, section 4 |
| `messages` | Do late answers reach the wrong question, or the application's memory? | three calls of the application in any combination (one resolution after another, send, receive and receive again, a ping after a ping ...); 3 hostnames (alias and two addresses, one address, none), two queries per call; a port that comes up again with another id, and one that the user has too; datagrams that are empty or exceed the buffer, DNS responses that just fit; two pings with one id; timeouts of 2 turns and of 8, which wraps to none in a word of 8 |
| `link_tx` | A NIC that completes in time, or not | 4 frames, 3 retries: up to 4 completions outstanding |
| `link_tx_give_up` | finding, section 4 | |
| `packets` | Do the bytes mean what they should? | names of one to three labels, so that datagrams have odd and even lengths; ids for which the first folding leaves a carry or the checksum comes out zero; up to 2 answer records of three types whose owners are a name in full, a pointer, a label and a pointer, or the root; nothing behind a response or an older address record; up to 3 options out of 10, one of them so long that the next begins just inside or outside the scan of 250 bytes |

All loop bounds of the code (`TIMEOUT_*`) are constants. They are small in the runs:
what matters is that each loop can end for each of its reasons and that a
retransmission happens. `MaxSegments`, `MaxCalls`, `MaxFrames` and `MaxRuns` bound
the environment.

Properties, in short (their comments in the modules say more):

* **TCP against anything**: the copy respects the posted buffer and its count is
  exact (`BufferAccounting`); a returned buffer is never written (`BufferReturned`);
  `tcp_receive` hides no bytes behind a timeout (`HonestReceive`); a closed session
  is silent (`SilentWhenClosed`); connect and receive return, and succeed exactly for
  what happened during the call (`ConnectIsBlockingCall`, `ReceiveIsBlockingCall`).
* **TCP with a server**: nothing unsent acknowledged (`NeverAcksUnsent`); one receive
  hands out consecutive bytes of the right stream although `handle_tcp` never looks
  at sequence numbers (`DeliveredIsContiguous`: true because a receive ends with its
  first segment). For a server that only answers, and up to two `tcp_send`s on a
  connection (one, where the FIN is concerned): the server reads what was sent
  (`PeerReadsInOrder`) and numbers are not reused (`SequenceNumbersUnique`). Both
  properties state that limit (`SendsNumbered`, `FinNumbered`), because the code keeps
  no more: beyond it `tcp_seq` is set back onto numbers in use (`core.hpp:382`).
* **HTTP**: no connection out of a late SYN-ACK (`HandshakeGenuine`); the response is
  the beginning of one segment of this call's connection (`ResponseIsOneSegment`),
  no more than that, and not necessarily the first; no open session and no posted
  buffer is left on any path (`GetLeavesNoSession`); `http_get` returns
  (`GetReturns`).
* **ARP cache**: `NoDuplicateIp`, `LookupCurrent`, `ImplementsMap`.
* **Initialisation and programs**: the bound address was acknowledged
  (`LeaseIsOurs`), every setting in the lessor's acknowledgement is in use, and not
  another reply's (`SettingsOfLessor`; one it does not give may be left over from
  another reply, as `api.hpp:142` stores options of all of them), the REQUEST
  names who offered (`RequestNamesOfferer`), ARP is answered for own addresses only
  (`AnswersOnlyForOwn`), the copies of the gateway's hardware
  address agree even when it changes (`GatewayCoherent`), every call but init finds a working NIC, an address and a
  gateway although nobody looks at the NIC's statuses (`UsableNetwork`: a NIC that is
  not initialized never resolves the gateway), programs end (`ProgramEnds`).
* **Messages**: `NameResolved`, `PingAnswered`, `ReceivesOneDatagram`,
  `BufferReturned`, `TimeoutHonoured`, the three refinements of `BlockingCall`.
* **Link**: `FramesIntact` and `SuccessMeansSentInTime` as long as the retries have
  never run out; `WireNeverOlder` and `SendReturns` always.
* **Packets**: `DatagramVerifies`, `NameTravels` (of answers in which no owner is labels
  with a pointer behind them: `handle_udp` misreads those), `OptionsUnderstood`.

**Deadlock** is checked in all runs but those of `LinkTx`, `DhcpNetwork` and
`Packets`, which stop after the bounded number of frames, programs, and one exchange.

**Fairness** is weak and on the program's own steps only: the processor keeps
running the call it is in (`CallStep`, `StackStep`, `GetStep` and `TcpStep`,
`SendStep`) and the program it has loaded (`ProgramStep`). Nothing obliges the
application to call, the network to deliver, a server to answer or the NIC to send;
nor need a call poll a frame that is there.

## 4. Findings

Disagreements between the code and what its comments or documentation say, each
shown by a run that violates one property:

1. `tcp_server_first`: `tcp_seq` is overwritten with the acknowledgement number of
   any data segment (`core.hpp:382`). If the server sends before it has read the
   latest `tcp_send`, that number is behind, and the next segment (data or FIN)
   reuses numbers of bytes already sent; `globals.hpp:76` calls it the "Next
   sequence number to send". The run shows it for the first send already. With a
   server that only answers it takes a third send, or two sends and a FIN, and a
   segment that acknowledges the first one late.
2. `dhcp_twice`: the transaction ID of replies is never compared
   (`api.hpp:162-182`), so a program that runs after another one, or after the machine
   was reset, takes an acknowledgement of the earlier `init_network` for its own and
   binds to an address that was not acknowledged to it. (`protocols.hpp:19`:
   "Transaction ID for matching request/response".)
3. `dhcp_boot`: the REQUEST names `siaddr`, the boot server, in option 54
   (`api.hpp:167`, `protocols.hpp:85`), which need not be the server that offered.
4. `link_tx_give_up`: `send_raw` returns success when the retries run out, and
   takes the late completion of one frame for that of the next, although it "polls
   GetStatus() until the NIC signals completion" (`core.hpp:26`).

What needs no run to be seen:

* `timeout_ms * 10` is a UINT32 (`api.hpp:429`, `:509`, `:542`), so a timeout above
  429496729 ms, about five days, ends early. `TimeoutHonoured` is about the others.
* `arp_cache::lookup` has no caller, so the cache, which is correct by itself, never
  "Avoids redundant ARP requests" (`arp_cache.hpp:8`).
* The walk over a DNS answer takes an owner name for compressed only if it begins with
  a pointer (`core.hpp:253`); a pointer behind labels, as legal in RFC 1035 4.1.4, is
  walked over as a label of 192 bytes or more. `Packets` has such owners: without
  its condition `NameTravels` is violated.
* `http_get` hands out one segment, not the response.
* The SNP handle stays open exclusively (`api.hpp:65`), so a static fallback in the
  same program is denied.
* The generator is seeded with the clock in seconds (`rng.hpp:31`): two programs
  started in one second draw the same ports and IDs.

## 5. Proofs

For every value of the constants that meets the named assumptions of the modules
(`TcpAssumption`, `SessionAssumption`, `HttpAssumption`, `ArpCacheAssumption`,
`InitAssumption`, `ProgramsAssumption`, `DhcpNetworkAssumption`,
`NetworkAssumption`, `LinkTxAssumption` and so on).

**`TcpClientProofs`.** The properties of `tcp_client` are not inductive: that the
copy fits needs that a buffer is posted only during `tcp_receive`, that the
session is silent needs that an open one has a port, and so on. The invariant
`IInv` strengthens `TypeOK` and `BufferAccounting` by

* `ConnectState`: during `tcp_connect` the state is one of those the loop can meet,
* `DoneMeans`: a completed receive has bytes, or a reset has closed the session,
* `OpenHasPort`: a session that is not closed has a port.

`PollEffects` states once what one poll can do to the session, by the branches of
`handle_tcp`; every polling action uses it. From `IInv` follow `TypeCorrect`,
`AccountingCorrect`, the action properties `BufferIsReturned`, `ClosedIsSilent` and
`ReceiveIsHonest`, and the safety half of both refinements of `BlockingCall`
(`ConnectImplementsCall`, `ReceiveImplementsCall`): the initial state maps to the
initial state, every step to a step or a stutter.

**`TcpSessionProofs`.** `SessionStep` covers the steps of both `TcpSession` and
`HttpGet`, so that one invariant serves both. `Handshake` relates the three parties
that a connection is made of: the session belongs to a port that `tcp_connect` has
used (`SessionOpened`), every SYN on its way is that port's only one (`SynsGenuine`),
a server that has left LISTEN has accepted it (`ServersGenuine`), segments come from
such servers (`Answered`), and so a synchronised client has one (`Accepted`).
`SessionsAreGenuine` and `HttpSessionsAreGenuine` follow; that ports are fresh is
used where a new connection opens. `Delivery` adds that segments carry
pieces of their port's stream (`Streams`) and that a posted buffer is empty until a
segment completes the receive (`Posted`), which gives `ReceivesAreContiguous`, of
`http_get` too. For `http_get` itself, `GetInv` says what each call it is in knows:
which call of `TcpClient` runs (`StageOfCall`) and what state the session is in
(`StageOfSession`); from it follows `GetCleansUp`. `ResponseInv` adds that what the
receive has fetched, and what is returned after it, is the beginning of one segment of
this connection (`Fetches`, `Returned`), hence `ResponseComesFromOneSegment`.

**`TcpSequenceProofs`.** Lemmas about numbers modulo `Word` (`PlusPlus`, `AheadPlus`,
`AheadIs`: the distance from one number to another is what was added, if it is less
than `Word`), and two invariants on top of `Handshake`.
* `AckInv`: a server's numbers count what it has sent (`ServerNumbers`) and every
  acknowledgement of the client is for something sent (`AcksGenuine`). The hypothesis
  `StreamLen + 1 < Word` says that a stream and its FIN are shorter than the sequence
  space (2^32 in the code); for a longer one the numbers do not tell what was
  sent. `AcksAreForSent`, `HttpAcksAreForSent`.
* `SequenceInv`: of every port that was used, a server has read at most the request
  (`ServersRead`), its acknowledgements are for that (`ServersAnswer`), the segments
  that travel are numbered by the request (`RequestSegments`) and so is the client's
  next one (`ClientNumbers`). `RequestsAreRead`, `NumbersAreUnique` and, of `http_get`,
  `HttpRequestsAreRead`. The hypothesis `OneRequest` is the use `http_get` makes of a
  connection: at most one `tcp_send`, to a server that answers, of fewer bytes than the
  sequence space has numbers. For two sends without a FIN the properties are
  model-checked only; beyond that, or with a server that speaks first, `tcp_seq` falls
  back to the number of an old acknowledgement, which is finding 1.

**`ArpCacheProofs`.** `CacheInv` (types and `NoDuplicateIp`) is inductive. With
it the first hit of a scan is the only one (`FirstHitIsOnly`), from which
`LookupIsCurrent` follows: `update` makes its host current, and changes or
forgets no other but the evicted one. `MapInv` adds that a table with an empty slot has
never wrapped, so that exactly the slots before `next_slot` are used (`Filling`, or else
`Full`). The abstract map keeps its hosts in the order of their learning, which is
that of the slots from `next_slot` on around the table; `MapImplemented` proves the
refinement, with one step for each of a refresh, an insertion into an empty slot, an
eviction and a flush.

**`DhcpNetworkProofs`.** `Typed` is `TypeOK`, `NoDuplicateIp` and that replies come
from servers. `Coherent` adds what the ARP loop works towards: a resolved gateway has
been heard on an initialized NIC, `router_mac` and `arp_target_mac` are one address
it has given, and so is the cache's if the gateway is in it (`CacheAgrees`). Nothing is
assumed of the addresses hosts give (`MacsOf` may assign all to each): the copies agree
because `handle_arp` writes the three together, as `UpdateFinds` and `UpdateAgrees` say
for the cache. `GatewayStaysCoherent` follows, and with `OnlyWhenUp` (the present call is an init call or init has
succeeded, from the guard of `ProgramsAssumption`) `NetworkIsUsable`.
Two groups need a hypothesis, stated in the theorem, without which they are false:
`RequestsNameOfferer` (by `Offered`) that servers leave `siaddr` empty or put
themselves there, which is finding 3; `BoundToLessor` (by `OneLessor`: nothing is
requested or acknowledged before the offer the client takes, and only that afterwards)
and `AnswersForOwnOnly` (by `Answering`) that there is one transaction ID, so one
DHCP exchange, which is finding 2.

**`LinkTxProofs`.** `Owing`: accepted frames are sent or queued. `InBuffer`: the buffer
holds the latest frame and nothing accepted is younger. `OnTime`, under `~ gaveUp`:
the NIC owes nothing when `send_raw` begins, and exactly one completion while it
waits, which is why a reset finds an empty queue and one buffer is enough.

**`MessageNetworkProofs`.** `Unique`: a query's port and id, or a ping's id and
sequence number, stand for one question. `Traceable`: whatever travels answers a
question that was asked. `Asked`: the one awaited has been asked. `Found`: what a call
has found before it returns is an answer to it. With `Posted` (a buffer is posted
exactly during `udp_receive`) and `Counted` (turns of the timeout) they are
inductive, and give the five action properties and the safety half of the three
refinements.

**`PacketsProofs`.** The operators of `Packets` are recursive functions, so what they
compute for data of any length needs induction, which the module derives from the
library's fact that every non-empty set of naturals has a least element (`Least`)
and states about sets (`Induction`, `StrongInduction`, `UpTo`). That a recursive
function exists is proved too: `Recursion` builds those that follow the places of a
sequence, `Walk` those that jump forward over the bytes of a packet until a place of
stop, for which one has to show that every jump is forward and that the walk stops.
`FlattenIs`, `FlattenPlaces` and `PlacedPieces` say where the pieces of a packet are.
* *Checksums* (`DatagramsVerify`). The sum of the bytes adds up over pieces of even
  length (`WordSumConcat`), so storing the checksum adds it to the sum of the rest
  (`IpHeaderSum`, `UdpSum`). The sum of little-endian words is congruent to 256 times
  that of words in network order, modulo 65535 (`ByteOrders`: 256 * 256 is 1 there), and
  folding takes multiples of 65535 away (`FoldIs`). Hence a datagram whose sum is
  completed to a multiple of 65535 in one byte order is so in the other
  (`SummedVerifies`), whatever the length; zero and all ones are both such
  complements, which is why zero may be replaced. Sums are not bounded in the model;
  those of the code are of at most 1500 bytes and do not leave 32 bits.
* *Names and addresses* (`NamesTravel`). The loop of `dns_query` has, behind the k-th
  label of a hostname, written the k - 1 labels before it (`QnameIsWireName`). In a
  response, the walk over labels ends at the zero of a name (`NameEnds`), and each
  record with an owner in full or a bare pointer (`Unmixed`) is read with its own type
  and data and leads to the next (`RecordRead`, `RecordsWalked`), by which the first
  match is the first address (`FirstAIs`). That no record has an owner of labels and a
  pointer is a condition of the property, not an assumption on the server.
* *Size* (`QueriesFit`). A name takes two bytes more on the wire than in text
  (`WireNameLength`), so a query for a name of 253 characters fits `DNS_PKT_SIZE`.
* *Options* (`OptionsAreUnderstood`). From the k-th option on, the scan finds what the
  last of each wanted option behind it says (`Means`, by induction from the end):
  an option in front adds its setting unless a later one does (`OptionMeans`), and
  leads to the next one (`OptionTaken`).

Their assumptions are what RFC 1035 and RFC 2132 demand of the other side: labels of 1 to
63 characters without dots and zeros, a name of at most 253 (`NamesAssumption`), A
records of four bytes, pointers of 14 bits (`AnswersAssumption`), wanted options at least as long as their
setting and no END among the options (`RepliesAssumption`).

Model-checked only: liveness (`GetReturns`, `ProgramEnds`, `SendReturns` and the
liveness half of `BlockingCall`), since the prover does not handle `ENABLED`. Every
safety property of a passing run is a theorem, some under a hypothesis that is stated
in it (for `PeerReadsInOrder` and `SequenceNumbersUnique` narrower than the run). (The properties of the runs of section 4 are false.)

## 6. Not modelled

* `rng::get_u32`: its 32-bit product exceeds TLC's integers. Draws are
  nondeterministic choices, fresh where section 2 says so.
* Frames that are too short, have header lengths that contradict each other, or
  payloads longer than a frame.
* The two pages every init call allocates and never frees.
* The order of the fields of ARP, DHCP, TCP and ICMP headers: assignments without a
  decision.
* `memory.hpp`, `io.hpp`, `types.hpp`, `constants.hpp`: copies, printing and numbers.
* Build files and `edk2.zip`.

## 7. Plan

Done, in this order: `TcpClient` and its proofs; `TcpSession`; `ArpCache` and its
proofs; `NetworkInit` with `DhcpNetwork`; `LinkTx`; `Messages` with
`MessageNetwork`; `HttpGet`; `BringUp` and `Programs`; `Packets`; the proofs about
`LinkTx`, `DhcpNetwork`, `MessageNetwork` and `TcpSession`; those about `HttpGet`,
sequence numbers and the map behind `ArpCache`; those about `Packets`.

Left:

1. The frame builders of TCP and ICMP in `Packets`, with lengths against
   `MAX_PKT_SIZE`; the lemmas about sums and pieces apply to them as they are.
2. A response that does not fit RFC 1035 or an option that is cut off, as far as the
   walk over it stays within the frame.
3. `PeerReadsInOrder` and `SequenceNumbersUnique` proved for two sends.
