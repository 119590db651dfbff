------------------------------- MODULE Packets -------------------------------
(***************************************************************************)
(* The bytes behind the messages of the other modules: checksums, the DNS  *)
(* query and the walk over its answer, the scan of DHCP options.  Servers  *)
(* are external and write what RFC 1035 and RFC 2132 say, names in each of *)
(* the forms RFC 1035 4.1.4 has.                                           *)
(***************************************************************************)
EXTENDS Integers, SequencesExt

CONSTANTS
  Names,         (* Hostnames, each the sequence of its labels.            *)
  Draws,         (* Random numbers of a query: [host, ipid, port, id].     *)
  MyIp, DnsIp,   (* The addresses of a query, four bytes each.             *)
  Answers,       (* Sequences of answer records a DNS server sends.        *)
  Stale,         (* What earlier frames may have left behind a response.   *)
  Replies,       (* Sequences of DHCP options a server sends, END left out.*)
  MaxScan        (* DHCP_OPT_MAX_SCAN.                                     *)

Byte == 0 .. 255

Short == 0 .. 65536 - 1

ASSUME PacketsAssumption ==
  /\ \A d \in Draws : d.host \in Names /\ {d.ipid, d.port, d.id} \subseteq Short
  /\ \A ip \in {MyIp, DnsIp} : ip \in Seq(Byte) /\ Len(ip) = 4
  /\ Stale \subseteq Seq(Byte) /\ MaxScan \in Nat

VARIABLES
  stage,         (* What has been done last.                               *)
  query,         (* The query: what was drawn for it, and its bytes.       *)
  answers,       (* What the server's response or options mean.            *)
  rx_pkt,        (* The buffer, from the payload received on.              *)
  outcome        (* What the stack has made of it.                         *)

vars == <<stage, query, answers, rx_pkt, outcome>>

(* htons and a store: the two bytes of n, the higher one first.            *)
Htons(n) == <<(n \div 256) % 256, n % 256>>

Zeros(n) == [i \in 1 .. n |-> 0]

-----------------------------------------------------------------------------
(* Checksums.                                                              *)

(* The sum of the bytes, those at odd places (the first, the third ...)    *)
(* and those at even places with a weight each.                            *)
WordSum(data, odd, even) ==
  LET sum[i \in 0 .. Len(data)] ==
        IF i = 0 THEN 0
        ELSE sum[i - 1] + (IF i % 2 = 1 THEN odd ELSE even) * data[i]
  IN  sum[Len(data)]

(* Words are read as the processor stores them, the lower byte first.      *)
Sum(data) == WordSum(data, 1, 256)

(* Faulty variant: the carry is added once only.                           *)
FoldOnce(sum) == ((sum % 65536) + (sum \div 65536)) % 65536

Fold(sum) ==
  LET fold[s \in Nat] ==
        IF s < 65536 THEN s ELSE fold[(s % 65536) + (s \div 65536)]
  IN  fold[sum]

Checksum(data) == 65535 - Fold(Sum(data))

PseudoChecksum(saddr, daddr, proto, data) ==
  Checksum(saddr \o daddr \o <<0, proto>> \o Htons(Len(data)) \o data)

(* The checksum is stored without htons.                                   *)
Store(check) == <<check % 256, check \div 256>>

-----------------------------------------------------------------------------
(* protocols::dns_query                                                    *)

Dot == 46

(* Hostnames are what RFC 1035 allows, which fits the packet: labels of 1  *)
(* to 63 characters, 253 with the dots between them.                       *)
Char == Byte \ {0, Dot}

(* The hostname as the caller writes it.                                   *)
Text(labels) ==
  FlattenSeq([i \in DOMAIN labels |->
                (IF i = 1 THEN <<>> ELSE <<Dot>>) \o labels[i]])

IsName(labels) ==
  /\ labels \in Seq(Seq(Char)) /\ labels # <<>>
  /\ \A i \in 1 .. Len(labels) : Len(labels[i]) \in 1 .. 63

ASSUME NamesAssumption ==
  \A labels \in Names : IsName(labels) /\ Len(Text(labels)) <= 253

(* What has been written, with the label in progress behind its length.    *)
Closed(r) == r.name \o <<Len(r.label) % 256>> \o r.label

ReadChar(r, c) ==
  IF c = Dot THEN [name |-> Closed(r), label |-> <<>>]
  ELSE [name |-> r.name, label |-> Append(r.label, c)]

Qname(hostname) ==
  LET read[i \in 0 .. Len(hostname)] ==
        IF i = 0 THEN [name |-> <<>>, label |-> <<>>]
        ELSE ReadChar(read[i - 1], hostname[i])
  IN  Closed(read[Len(hostname)]) \o <<0>>

DnsMessage(hostname, id) ==
  Htons(id) \o Htons(256) \o Htons(1) \o Zeros(6)
    \o Qname(hostname) \o <<0, 1, 0, 1>>

UdpDatagram(port, check, payload) ==
  Htons(port) \o Htons(53) \o Htons(8 + Len(payload)) \o check \o payload

IpHeader(id, check, len) ==
  <<69, 0>> \o Htons(20 + len) \o Htons(id) \o <<0, 0, 64, 17>> \o check
    \o MyIp \o DnsIp

UdpCheck(datagram) ==
  LET check == PseudoChecksum(MyIp, DnsIp, 17, datagram)
  IN  IF check = 0 THEN 65535 ELSE check

Query(d) ==
  LET payload == DnsMessage(Text(d.host), d.id)
      udp == UdpDatagram(d.port, Zeros(2), payload)
      ip == IpHeader(d.ipid, Zeros(2), Len(udp))
  IN  [draw |-> d,
       udp |-> UdpDatagram(d.port, Store(UdpCheck(udp)), payload),
       ip |-> IpHeader(d.ipid, Store(Checksum(ip)), Len(udp))]

DnsQuery ==
  /\ stage = "idle"
  /\ \E d \in Draws : query' = Query(d)
  /\ stage' = "asked"
  /\ UNCHANGED <<answers, rx_pkt, outcome>>

-----------------------------------------------------------------------------
(* The DNS server (external).                                              *)

(* A name on the wire.                                                     *)
WireLabel(label) == <<Len(label)>> \o label

WireLabels(labels) ==
  FlattenSeq([i \in DOMAIN labels |-> WireLabel(labels[i])])

WireName(labels) == WireLabels(labels) \o <<0>>

(* The owner of a record: a name in full, or, in what RFC 1035 4.1.4 calls *)
(* compression, as many labels as the server likes, or none, and then a    *)
(* pointer to where the rest has been written.  No pointer is 0.           *)
WireOwner(r) ==
  IF r.pointer = 0 THEN WireName(r.labels)
  ELSE WireLabels(r.labels) \o Htons(49152 + r.pointer)

WireRecord(r) ==
  WireOwner(r) \o Htons(r.type) \o Htons(1) \o Zeros(4)
    \o Htons(Len(r.data)) \o r.data

Record == [type : Short, data : Seq(Byte),
           labels : Seq(Seq(Char)), pointer : Short]

IsRecord(r) ==
  /\ r \in Record /\ Len(r.data) \in Short
  /\ r.type = 1 => Len(r.data) = 4
  /\ IsName(r.labels) \/ r.labels = <<>>
  /\ r.pointer < 16384

IsAnswer(a) ==
  a \in Seq(Record) /\ Len(a) \in Short /\ \A i \in 1 .. Len(a) : IsRecord(a[i])

ASSUME AnswersAssumption == \A a \in Answers : IsAnswer(a)

Response(d, a) ==
  Htons(d.id) \o Htons(33152) \o Htons(1) \o Htons(Len(a)) \o Zeros(4)
    \o WireName(d.host) \o <<0, 1, 0, 1>>
    \o FlattenSeq([i \in DOMAIN a |-> WireRecord(a[i])])

DnsServer ==
  /\ stage = "asked"
  /\ \E a \in Answers, s \in Stale :
       /\ answers' = a
       /\ rx_pkt' = Response(query.draw, a) \o s
  /\ stage' = "answered"
  /\ UNCHANGED <<query, outcome>>

-----------------------------------------------------------------------------
(* core::handle_udp, the part after the checks of id and flags.            *)

(* Offsets count from 0.  The buffer is not cleared between frames: behind *)
(* a response lies what earlier frames have left, and then zeros.          *)
At(p) == IF p < Len(rx_pkt) THEN rx_pkt[p + 1] ELSE 0

Ntohs(p) == 256 * At(p) + At(p + 1)

(* The offset of the zero that ends the labels at p.                       *)
EndOfLabels(p) ==
  LET end[q \in Nat] == IF At(q) = 0 THEN q ELSE end[q + At(q) + 1]
  IN  end[p]

SkipQuestion(p) == EndOfLabels(p) + 5

(* Faulty variant: a pointer is skipped like a name.                       *)
SkipOwnerPlain(p) == EndOfLabels(p) + 1

SkipOwner(p) == IF At(p) >= 192 THEN p + 2 ELSE EndOfLabels(p) + 1

FirstAnswer ==
  LET skip[i \in 0 .. Ntohs(4)] ==
        IF i = 0 THEN 12 ELSE SkipQuestion(skip[i - 1])
  IN  skip[Ntohs(4)]

(* The record at p: is it an address, what is it, and where is the next?   *)
Rdlen(p) == Ntohs(SkipOwner(p) + 8)

IsAddress(p) == Ntohs(SkipOwner(p)) = 1 /\ Rdlen(p) = 4

Address(p) == [k \in 1 .. 4 |-> At(SkipOwner(p) + 9 + k)]

NextRecord(p) == SkipOwner(p) + 10 + Rdlen(p)

(* The data of the first A record, empty if there is none.                 *)
FirstA ==
  LET record[i \in 0 .. Ntohs(6)] ==
        IF i = 0 THEN FirstAnswer ELSE NextRecord(record[i - 1])
      found == {i \in 0 .. Ntohs(6) - 1 : IsAddress(record[i])}
  IN  IF found = {} THEN <<>> ELSE Address(record[Min(found)])

HandleDns ==
  /\ stage = "answered"
  /\ outcome' = FirstA
  /\ stage' = "resolved"
  /\ UNCHANGED <<query, answers, rx_pkt>>

-----------------------------------------------------------------------------
(* DHCP options.                                                           *)

(* The server (external); a padding byte has no length and no data.        *)
Pad == 0
End == 255

WireOption(o) == IF o.code = Pad THEN <<Pad>>
                 ELSE <<o.code, Len(o.data)>> \o o.data

WireOptions(r) == FlattenSeq([i \in DOMAIN r |-> WireOption(r[i])])

DhcpServer ==
  /\ stage = "idle"
  /\ \E r \in Replies :
       /\ answers' = r
       /\ rx_pkt' = WireOptions(r) \o <<End>>
  /\ stage' = "offered"
  /\ UNCHANGED <<query, outcome>>

(* The type of the message, the router, DNS server, mask and lease time.   *)
Wanted == {53, 3, 6, 1, 51}

(* How many bytes of its data are taken.                                   *)
Size(code) == IF code = 53 THEN 1 ELSE 4

ASSUME RepliesAssumption ==
  \A r \in Replies :
    /\ r \in Seq([code : Byte \ {End}, data : Seq(Byte)])
    /\ \A i \in DOMAIN r : /\ Len(r[i].data) \in Byte
                           /\ r[i].code \in Wanted =>
                                Len(r[i].data) >= Size(r[i].code)

(* The effect of the option at p: the settings it gives.                   *)
Effect(p) ==
  [code \in {c \in Wanted : At(p) = c /\ At(p + 1) >= Size(c)} |->
     [i \in 1 .. Size(code) |-> At(p + 1 + i)]]

(* Faulty variant: padding is taken for an option.                         *)
StepOverPads(p) == p + At(p + 1) + 2

StepOver(p) == IF At(p) = Pad THEN p + 1 ELSE p + At(p + 1) + 2

InScan(p) == At(p) # End /\ p < MaxScan

(* What f gives, and what g gives otherwise.                               *)
Over(f, g) ==
  [x \in DOMAIN f \cup DOMAIN g |-> IF x \in DOMAIN f THEN f[x] ELSE g[x]]

(* A later option overwrites an earlier one.                               *)
Scan ==
  LET scan[p \in Nat] ==
        IF InScan(p) THEN Over(scan[StepOver(p)], Effect(p))
        ELSE [code \in {} |-> <<>>]
  IN  scan[0]

ScanOptions ==
  /\ stage = "offered"
  /\ outcome' = Scan
  /\ stage' = "scanned"
  /\ UNCHANGED <<query, answers, rx_pkt>>

-----------------------------------------------------------------------------

Init ==
  /\ stage = "idle"
  /\ query = <<>> /\ answers = <<>> /\ rx_pkt = <<>> /\ outcome = <<>>

Next == DnsQuery \/ DnsServer \/ HandleDns \/ DhcpServer \/ ScanOptions

Spec == Init /\ [][Next]_vars

-----------------------------------------------------------------------------
(* Properties.                                                             *)

(* RFC 1071 as a receiver applies it, which reads words in network order   *)
(* and pads with a zero byte: the sum, the checksum in it, is all ones.    *)
NetworkSum(data) == WordSum(data, 256, 1)

Verifies(data) == NetworkSum(data) # 0 /\ NetworkSum(data) % 65535 = 0

(* A query passes the checks of every host on its way although net_math    *)
(* sums in the processor's byte order and folds carries as they come; and  *)
(* its UDP checksum is never zero, which would mean that there is none.    *)
DatagramVerifies ==
  stage \in {"asked", "answered", "resolved"} =>
    /\ Verifies(query.ip)
    /\ SubSeq(query.udp, 7, 8) # <<0, 0>>
    /\ Verifies(MyIp \o DnsIp \o <<0, 17>> \o Htons(Len(query.udp))
                  \o query.udp)

(* Owners as handle_udp steps over them, in full or a bare pointer.        *)
Unmixed(r) == r.labels = <<>> \/ r.pointer = 0

(* The question dns_query writes is the name of the host it was given; and *)
(* what handle_udp takes out of an answer is the first address in it,      *)
(* whichever records come before it, provided that each owner is in full   *)
(* or a bare pointer.  Labels that end in a pointer are as legal, but      *)
(* handle_udp takes the pointer for a label (core.hpp:257): of an answer   *)
(* with one of those nothing is claimed.                                   *)
NameTravels ==
  /\ stage \in {"asked", "answered", "resolved"} =>
       SubSeq(query.udp, 21, Len(query.udp) - 4) = WireName(query.draw.host)
  /\ stage = "resolved" /\ (\A i \in DOMAIN answers : Unmixed(answers[i])) =>
       LET A == {i \in DOMAIN answers : answers[i].type = 1}
       IN  outcome = IF A = {} THEN <<>> ELSE answers[Min(A)].data

(* The offset of an option in the field.                                   *)
Offset(k) == Len(WireOptions(SubSeq(answers, 1, k - 1)))

(* The scan of init_network finds each setting of a well-formed option     *)
(* field that begins within the first MaxScan bytes, the last one if there *)
(* are several, and takes nothing else for one: padding, unknown options   *)
(* and their data are stepped over.                                        *)
OptionsUnderstood ==
  stage = "scanned" =>
    LET given(c) == {k \in DOMAIN answers :
                       answers[k].code = c /\ Offset(k) < MaxScan}
        last(c) == answers[Max(given(c))]
    IN  outcome = [c \in {w \in Wanted : given(w) # {}} |->
                     SubSeq(last(c).data, 1, Size(c))]

=============================================================================
