------------------------------ MODULE MCMessages ------------------------------
(* A hostname behind an alias and with two addresses, one with a single    *)
(* address and one with none; a UDP service whose datagrams are empty or   *)
(* exceed the buffer (DNS responses, on the same port, just fit it).       *)
EXTENDS MessageNetwork

CONSTANTS h1, h2, h3, i1, i2

MCHost == {h1, h2, h3}
MCIp == {i1, i2}
A(ip) == [type |-> "A", ip |-> ip]
Alias == [type |-> "CNAME", ip |-> NoIp]
MCZone ==
  [h \in MCHost |-> CASE h = h1 -> <<Alias, A(i1), A(i2)>>
                      [] h = h2 -> <<A(i2)>>
                      [] h = h3 -> <<Alias>>]

Text(n) == [id |-> n, response |-> FALSE, answers |-> <<>>]
MCGreeting == [len |-> 1, body |-> Text(0)]
MCDatagrams ==
  {[len |-> 0, body |-> Text(0)], [len |-> 3, body |-> Text(1)]}

MCAsking ==
  {[kind |-> "ECHO_REQUEST", id |-> 1, seq |-> 1, len |-> n, host |-> i1] :
     n \in {1, 3}}

MCDraws == {<<1, 1>>, <<1, 2>>, <<2, 1>>}
MCPings ==
  {[host |-> i1, id |-> 1, seq |-> 1], [host |-> i2, id |-> 1, seq |-> 2]}

=============================================================================
