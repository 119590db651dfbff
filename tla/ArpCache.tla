------------------------------- MODULE ArpCache -------------------------------
(* The table of arp_cache.hpp: a linear scan over a fixed number of slots, *)
(* filled and then evicted in round-robin order.                           *)
EXTENDS Integers

CONSTANTS
  Ip,       (* IPv4 addresses.                                             *)
  Mac,      (* Hardware addresses.                                         *)
  NoIp,     (* The address 0.                                              *)
  NoMac,    (* The all-zero hardware address.                              *)
  Size      (* ARP_CACHE_SIZE.                                             *)

ASSUME ArpCacheAssumption ==
  /\ Size \in Nat \ {0}
  /\ NoIp \notin Ip
  /\ NoMac \notin Mac

VARIABLES table, next_slot

cacheVars == <<table, next_slot>>

Slot == 0 .. Size - 1

Hits(ip) == {i \in Slot : table[i].valid /\ table[i].ip = ip}

(* The scan stops at the first hit.                                        *)
FirstHit(ip) == CHOOSE i \in Hits(ip) : \A j \in Hits(ip) : i <= j

(* lookup; NoMac stands for FALSE.                                         *)
Lookup(ip) == IF Hits(ip) = {} THEN NoMac ELSE table[FirstHit(ip)].mac

(* Faulty variants of update: without the wrap of next_slot, without the   *)
(* scan for the host, with a slot used up for a host that is known.        *)
UpdateNoWrap(ip, mac) ==
  /\ Hits(ip) = {}
  /\ table' = [table EXCEPT ![next_slot] =
                 [ip |-> ip, mac |-> mac, valid |-> TRUE]]
  /\ next_slot' = next_slot + 1

UpdateNoScan(ip, mac) ==
  /\ table' = [table EXCEPT ![next_slot] =
                 [ip |-> ip, mac |-> mac, valid |-> TRUE]]
  /\ next_slot' = (next_slot + 1) % Size

UpdateAdvances(ip, mac) ==
  \/ /\ Hits(ip) # {}
     /\ table' = [table EXCEPT ![FirstHit(ip)].mac = mac]
     /\ next_slot' = (next_slot + 1) % Size
  \/ Hits(ip) = {} /\ UpdateNoScan(ip, mac)

Update(ip, mac) ==
  \/ /\ Hits(ip) # {}
     /\ table' = [table EXCEPT ![FirstHit(ip)].mac = mac]
     /\ UNCHANGED next_slot
  \/ /\ Hits(ip) = {}
     /\ table' = [table EXCEPT ![next_slot] =
                    [ip |-> ip, mac |-> mac, valid |-> TRUE]]
     /\ next_slot' = (next_slot + 1) % Size

(* Addresses stay behind in the slots a flush invalidates.                 *)
Flush ==
  /\ table' = [i \in Slot |-> [table[i] EXCEPT !.valid = FALSE]]
  /\ next_slot' = 0

CacheInit ==
  /\ table = [i \in Slot |-> [ip |-> NoIp, mac |-> NoMac, valid |-> FALSE]]
  /\ next_slot = 0

(* The table of an image that is loaded anew.                              *)
CacheClear ==
  /\ table' = [i \in Slot |-> [ip |-> NoIp, mac |-> NoMac, valid |-> FALSE]]
  /\ next_slot' = 0

CacheNext == (\E ip \in Ip, mac \in Mac : Update(ip, mac)) \/ Flush

CacheSpec == CacheInit /\ [][CacheNext]_cacheVars

-----------------------------------------------------------------------------
(* Properties.                                                             *)

(* Slots and the index of the next one are well formed.                    *)
CacheTypeOK ==
  /\ table \in [Slot -> [ip : Ip \cup {NoIp}, mac : Mac \cup {NoMac},
                         valid : BOOLEAN]]
  /\ next_slot \in Slot

(* No host has two slots, so the scan's first hit is the only one and an   *)
(* address refreshed by update cannot be shadowed by a stale one.          *)
NoDuplicateIp ==
  \A i, j \in Slot :
    table[i].valid /\ table[j].valid /\ table[i].ip = table[j].ip => i = j

(* After an update the host is found under its new address; every other    *)
(* host is found as before or, evicted, not at all, and none appears.      *)
LookupCurrent ==
  [][\A ip \in Ip, mac \in Mac : Update(ip, mac) =>
       /\ Lookup(ip)' = mac
       /\ \A other \in Ip \ {ip} :
            Lookup(other)' \in {Lookup(other), NoMac}]_cacheVars

(* The valid slots, the one that will be evicted first in front.           *)
Oldest ==
  IF table[next_slot].valid
  THEN [k \in 1 .. Size |-> (next_slot + k - 1) % Size]
  ELSE [k \in 1 .. next_slot |-> k - 1]

Map == INSTANCE ArpMap WITH
  entries <- [k \in DOMAIN Oldest |->
                <<table[Oldest[k]].ip, table[Oldest[k]].mac>>]

(* The table is a bounded map with first-in-first-out eviction.            *)
ImplementsMap == Map!Spec

=============================================================================
