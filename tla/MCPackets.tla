------------------------------- MODULE MCPackets -------------------------------
(* Names with one, two and three labels, so that datagrams have odd and    *)
(* even lengths, and ids for which the first folding of the carries leaves *)
(* another carry, or the UDP checksum comes out as zero.                   *)
EXTENDS Packets

A == 97
MCNames == {<<<<A>>>>, <<<<A, 255>>>>, <<<<A>>, <<A, A + 1, A>>>>,
            <<<<A + 1, A>>, <<A>>, <<A, A>>>>}

MCMyIp == <<10, 255, 255, 254>>
MCDnsIp == <<8, 255, 8, 255>>

(* What a query sums up to without its id, which is a word of its own, and *)
(* the id whose word in memory is n.                                       *)
Rest(host, port) ==
  LET udp == UdpDatagram(port, Zeros(2), DnsMessage(Text(host), 0))
  IN  Sum(MCMyIp \o MCDnsIp \o <<0, 17>> \o Htons(Len(udp)) \o udp)

Stored(n) == 256 * (n % 256) + (n \div 256)

Ids(host, port) ==
  LET rest == Rest(host, port)
  IN  {0, 4660, Stored(65535 - (rest % 65536)), Stored(65535 - (rest % 65535))}

MCDraws ==
  UNION {[host : {h}, ipid : {1, 65535}, port : {p}, id : Ids(h, p)] :
           h \in MCNames, p \in {49152, 65535}}

(* The owner's name in full, a pointer to the question, a label and then a *)
(* pointer into the question, and the root.                                *)
Owners ==
  {<<<<<<A>>, <<A, 255>>>>, 0>>, <<<<>>, 12>>, <<<<<<A>>>>, 14>>, <<<<>>, 0>>}

Rec(type, data, owner) ==
  [type |-> type, data |-> data, labels |-> owner[1], pointer |-> owner[2]]

Records ==
  {Rec(1, data, o) : data \in {<<1, 2, 3, 4>>, <<0, 255, 192, 12>>},
                        o \in Owners}
  \cup {Rec(5, data, o) : data \in {<<192, 12>>, <<1, A, 0>>}, o \in Owners}
  \cup {Rec(28, Zeros(16), <<<<>>, 12>>)}

MCAnswers == BoundedSeq(Records, 2)

(* An address record that an earlier, longer response has left.            *)
MCStale == {<<>>, WireRecord(Rec(1, <<6, 6, 6, 6>>, <<<<>>, 12>>))}

Opt(code, data) == [code |-> code, data |-> data]

(* The data of the second one looks like an option; the last is so long    *)
(* that what follows begins just inside or just outside the scan.          *)
Options ==
  {Opt(0, <<>>), Opt(12, <<3, 4, 255>>), Opt(53, <<2>>), Opt(53, <<5>>),
   Opt(3, <<10, 0, 0, 1>>), Opt(3, <<10, 0, 0, 2>>),
   Opt(6, <<8, 8, 8, 8, 1, 1, 1, 1>>), Opt(51, <<0, 1, 255, 0>>),
   Opt(80, <<>>), Opt(43, Zeros(247))}

MCReplies == BoundedSeq(Options, 3)

=============================================================================
