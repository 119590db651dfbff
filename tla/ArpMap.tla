-------------------------------- MODULE ArpMap --------------------------------
(***************************************************************************)
(* What an ARP cache of bounded size promises: it remembers the latest     *)
(* address of each of the Size hosts it learned of most recently, where a  *)
(* host that is still remembered keeps its place.                          *)
(***************************************************************************)
EXTENDS Naturals, Sequences

CONSTANTS Ip, Mac, Size

VARIABLE entries   (* Pairs <<ip, mac>>, the host learned first in front.  *)

Known(ip) == \E k \in DOMAIN entries : entries[k][1] = ip

Init == entries = <<>>

Refresh(ip, mac) ==
  /\ Known(ip)
  /\ entries' = [k \in DOMAIN entries |->
                   IF entries[k][1] = ip THEN <<ip, mac>> ELSE entries[k]]

Learn(ip, mac) ==
  /\ ~ Known(ip)
  /\ entries' = Append(IF Len(entries) = Size THEN Tail(entries) ELSE entries,
                       <<ip, mac>>)

Clear == entries' = <<>>

Next ==
  \/ \E ip \in Ip, mac \in Mac : Refresh(ip, mac) \/ Learn(ip, mac)
  \/ Clear

Spec == Init /\ [][Next]_entries

=============================================================================
