---------------------------- MODULE ArpCacheProofs ----------------------------
(* Proofs about ArpCache for every number of hosts, addresses and slots.   *)
EXTENDS ArpCache, Sequences, SequenceTheorems, TLAPS

CacheInv == CacheTypeOK /\ NoDuplicateIp

(* The scan of lookup and update ends at the host's only slot.             *)
LEMMA FirstHitIsOnly ==
  ASSUME CacheInv, NEW ip \in Ip, NEW i \in Hits(ip)
  PROVE  FirstHit(ip) = i /\ i \in Slot
<1>1. \A j \in Hits(ip) : j = i
  BY DEF CacheInv, NoDuplicateIp, Hits
<1>2. i \in Slot /\ i <= i
  BY DEF Hits, Slot
<1> QED
  BY <1>1, <1>2 DEF FirstHit

LEMMA NextSlotType ==
  ASSUME next_slot \in Slot
  PROVE  (next_slot + 1) % Size \in Slot /\ 0 \in Slot
BY ArpCacheAssumption DEF Slot

LEMMA UpdateKeepsInv ==
  ASSUME CacheInv, NEW ip \in Ip, NEW mac \in Mac, Update(ip, mac)
  PROVE  CacheInv'
<1> USE DEF CacheInv, CacheTypeOK
<1>1. CASE Hits(ip) # {}
  <2>1. PICK i \in Hits(ip) : TRUE
    BY <1>1
  <2>2. /\ i \in Slot
        /\ table' = [table EXCEPT ![i].mac = mac] /\ next_slot' = next_slot
    BY <1>1, <2>1, FirstHitIsOnly DEF Update
  <2> QED
    BY <2>2 DEF NoDuplicateIp
<1>2. CASE Hits(ip) = {}
  <2>1. /\ table' = [table EXCEPT ![next_slot] =
                       [ip |-> ip, mac |-> mac, valid |-> TRUE]]
        /\ next_slot' = (next_slot + 1) % Size
    BY <1>2 DEF Update
  <2>2. CacheTypeOK'
    BY <2>1, NextSlotType
  <2>3. NoDuplicateIp'
    BY <1>2, <2>1 DEF NoDuplicateIp, Hits
  <2> QED
    BY <2>2, <2>3
<1> QED
  BY <1>1, <1>2

(* Flush frees every slot, so nothing is duplicated after it.              *)
LEMMA CacheInvariant == CacheSpec => []CacheInv
<1>1. CacheInit => CacheInv
  BY ArpCacheAssumption
  DEF CacheInit, CacheInv, CacheTypeOK, NoDuplicateIp, Slot
<1>2. CacheInv /\ [CacheNext]_cacheVars => CacheInv'
  <2> SUFFICES ASSUME CacheInv, [CacheNext]_cacheVars PROVE CacheInv'
    OBVIOUS
  <2>1. ASSUME NEW ip \in Ip, NEW mac \in Mac, Update(ip, mac)
        PROVE  CacheInv'
    BY <2>1, UpdateKeepsInv
  <2>2. CASE Flush
    BY <2>2, NextSlotType
    DEF Flush, CacheInv, CacheTypeOK, NoDuplicateIp
  <2>3. CASE UNCHANGED cacheVars
    BY <2>3 DEF cacheVars, CacheInv, CacheTypeOK, NoDuplicateIp
  <2> QED
    BY <2>1, <2>2, <2>3 DEF CacheNext
<1> QED
  BY <1>1, <1>2, PTL DEF CacheSpec

(* A host never occupies two slots, however updates, evictions and flushes *)
(* follow each other.                                                      *)
THEOREM NoDuplicates == CacheSpec => []NoDuplicateIp
<1>1. CacheInv => NoDuplicateIp
  BY DEF CacheInv
<1> QED
  BY <1>1, CacheInvariant, PTL

(* What lookup returns: the address in the host's slot, if it has one.     *)
LookupSpec ==
  \A ip \in Ip :
    /\ \A i \in Slot :
         table[i].valid /\ table[i].ip = ip => Lookup(ip) = table[i].mac
    /\ (\A i \in Slot : ~ (table[i].valid /\ table[i].ip = ip))
         => Lookup(ip) = NoMac

LEMMA LookupMeetsSpec == CacheInv => LookupSpec
<1> SUFFICES ASSUME CacheInv, NEW ip \in Ip
             PROVE  /\ \A i \in Slot : table[i].valid /\ table[i].ip = ip
                         => Lookup(ip) = table[i].mac
                    /\ (\A i \in Slot : ~ (table[i].valid /\ table[i].ip = ip))
                         => Lookup(ip) = NoMac
  BY DEF LookupSpec
<1>1. ASSUME NEW i \in Slot, table[i].valid, table[i].ip = ip
      PROVE  Lookup(ip) = table[i].mac
  <2>1. i \in Hits(ip)
    BY <1>1 DEF Hits
  <2> QED
    BY <2>1, FirstHitIsOnly DEF Lookup
<1>2. ASSUME \A i \in Slot : ~ (table[i].valid /\ table[i].ip = ip)
      PROVE  Lookup(ip) = NoMac
  BY <1>2 DEF Lookup, Hits
<1> QED
  BY <1>1, <1>2

(* The address handed to update is the one lookup finds next, and no other *)
(* host's address changes except by eviction.                              *)
THEOREM LookupIsCurrent == CacheSpec => LookupCurrent
<1>1. CacheInv' => LookupSpec'
  BY LookupMeetsSpec, PTL
<1>2. CacheInv /\ [CacheNext]_cacheVars
        => [\A ip \in Ip, mac \in Mac : Update(ip, mac) =>
              /\ Lookup(ip)' = mac
              /\ \A other \in Ip \ {ip} :
                   Lookup(other)' \in {Lookup(other), NoMac}]_cacheVars
  <2> SUFFICES ASSUME CacheInv, NEW ip \in Ip, NEW mac \in Mac,
                      Update(ip, mac)
               PROVE  /\ Lookup(ip)' = mac
                      /\ \A other \in Ip \ {ip} :
                           Lookup(other)' \in {Lookup(other), NoMac}
    BY DEF cacheVars
  <2>1. LookupSpec /\ LookupSpec'
    BY <1>1, UpdateKeepsInv, LookupMeetsSpec
  <2>2. \E i \in Slot :
          /\ table'[i].valid /\ table'[i].ip = ip /\ table'[i].mac = mac
          /\ \A j \in Slot \ {i} : table'[j] = table[j]
    <3>1. CASE Hits(ip) # {}
      <4>1. PICK i \in Hits(ip) : TRUE
        BY <3>1
      <4>2. /\ i \in Slot /\ table[i].valid /\ table[i].ip = ip
            /\ table' = [table EXCEPT ![i].mac = mac]
        BY <3>1, <4>1, FirstHitIsOnly DEF Update, Hits
      <4> QED
        BY <4>2 DEF CacheInv, CacheTypeOK
    <3>2. CASE Hits(ip) = {}
      <4>1. table' = [table EXCEPT ![next_slot] =
                        [ip |-> ip, mac |-> mac, valid |-> TRUE]]
        BY <3>2 DEF Update
      <4> QED
        BY <4>1 DEF CacheInv, CacheTypeOK
    <3> QED
      BY <3>1, <3>2
  <2>3. PICK i \in Slot :
          /\ table'[i].valid /\ table'[i].ip = ip /\ table'[i].mac = mac
          /\ \A j \in Slot \ {i} : table'[j] = table[j]
    BY <2>2
  <2>4. Lookup(ip)' = mac
    BY <2>1, <2>3 DEF LookupSpec, Slot
  <2>5. ASSUME NEW other \in Ip \ {ip}
        PROVE  Lookup(other)' \in {Lookup(other), NoMac}
    <3>1. CASE \E j \in Slot \ {i} : table[j].valid /\ table[j].ip = other
      <4>1. PICK j \in Slot \ {i} : table[j].valid /\ table[j].ip = other
        BY <3>1
      <4>2. /\ table'[j].valid /\ table'[j].ip = other
            /\ table'[j].mac = table[j].mac
        BY <2>3, <4>1
      <4> QED
        BY <2>1, <4>1, <4>2 DEF LookupSpec, Slot
    <3>2. CASE ~ \E j \in Slot \ {i} : table[j].valid /\ table[j].ip = other
      <4>1. \A j \in Slot : ~ (table'[j].valid /\ table'[j].ip = other)
        BY <2>3, <3>2
      <4> QED
        BY <2>1, <4>1 DEF LookupSpec, Slot
    <3> QED
      BY <3>1, <3>2
  <2> QED
    BY <2>4, <2>5
<1> QED
  BY <1>2, CacheInvariant, PTL DEF CacheSpec, LookupCurrent

-----------------------------------------------------------------------------
(* The bounded map the table implements.                                   *)

LEMMA Wrap ==
  ASSUME NEW n \in Nat \ {0}, NEW x \in Nat, x < n + n
  PROVE  x % n = IF x < n THEN x ELSE x - n
<1>1. CASE x < n
  <2>1. x = n * 0 + x
    OBVIOUS
  <2> QED
    BY <1>1, <2>1
<1>2. CASE x >= n
  <2>1. x - n \in 0 .. n - 1 /\ x = n * 1 + (x - n)
    BY <1>2
  <2> QED
    BY <1>2, <2>1
<1> QED
  BY <1>1, <1>2

LEMMA NextSlotIs ==
  ASSUME next_slot \in Slot
  PROVE  (next_slot + 1) % Size =
           IF next_slot + 1 < Size THEN next_slot + 1 ELSE 0
<1>1. next_slot \in 0 .. Size - 1 /\ Size \in Nat \ {0}
  BY ArpCacheAssumption DEF Slot
<1> DEFINE x == next_slot + 1
<1>2. x \in Nat /\ x < Size + Size /\ x <= Size
  BY <1>1
<1> HIDE DEF x
<1>3. x % Size = IF x < Size THEN x ELSE x - Size
  BY <1>1, <1>2, Wrap
<1>4. x % Size = IF x < Size THEN x ELSE 0
  BY <1>1, <1>2, <1>3
<1> QED
  BY <1>4 DEF x

(* A sequence that drops its head for a new last element.                  *)
LEMMA AppendTail ==
  ASSUME NEW S, NEW s \in Seq(S), NEW e \in S, s # <<>>
  PROVE  Append(Tail(s), e) =
           [k \in 1 .. Len(s) |-> IF k < Len(s) THEN s[k + 1] ELSE e]
<1> DEFINE t == Tail(s)
           a == Append(t, e)
<1>1. /\ Len(s) \in Nat \ {0} /\ t \in Seq(S) /\ Len(t) = Len(s) - 1
      /\ \A i \in 1 .. Len(t) : t[i] = s[i + 1]
  BY HeadTailProperties, LenProperties, EmptySeq
<1> HIDE DEF t
<1>2. /\ a \in Seq(S) /\ Len(a) = Len(s)
      /\ \A i \in 1 .. Len(t) : a[i] = t[i]
      /\ a[Len(s)] = e
  BY <1>1, AppendProperties
<1> HIDE DEF a
<1>3. a \in [1 .. Len(s) -> S]
  BY <1>2, LenProperties
<1>4. \A k \in 1 .. Len(s) : a[k] = IF k < Len(s) THEN s[k + 1] ELSE e
  BY <1>1, <1>2
<1>5. a = [k \in 1 .. Len(s) |-> IF k < Len(s) THEN s[k + 1] ELSE e]
  BY <1>3, <1>4
<1> QED
  BY <1>5 DEF a, t

LEMMA AppendIs ==
  ASSUME NEW S, NEW s \in Seq(S), NEW e \in S
  PROVE  Append(s, e) =
           [k \in 1 .. Len(s) + 1 |-> IF k <= Len(s) THEN s[k] ELSE e]
<1> DEFINE a == Append(s, e)
<1>1. /\ a \in Seq(S) /\ Len(a) = Len(s) + 1 /\ Len(s) \in Nat
      /\ \A i \in 1 .. Len(s) : a[i] = s[i]
      /\ a[Len(s) + 1] = e
  BY AppendProperties, LenProperties
<1> HIDE DEF a
<1>2. a \in [1 .. Len(s) + 1 -> S]
  BY <1>1, LenProperties
<1>3. \A k \in 1 .. Len(s) + 1 : a[k] = IF k <= Len(s) THEN s[k] ELSE e
  BY <1>1
<1>4. a = [k \in 1 .. Len(s) + 1 |-> IF k <= Len(s) THEN s[k] ELSE e]
  BY <1>2, <1>3
<1> QED
  BY <1>4 DEF a

(* Slots are taken in order, so the table is full or filled up to the next *)
(* slot.                                                                   *)
Full == \A i \in Slot : table[i].valid

Filling == \A i \in Slot : table[i].valid <=> i < next_slot

MapInv == CacheInv /\ (Full \/ Filling)

LEMMA UpdateKeepsFilled ==
  ASSUME MapInv, NEW ip \in Ip, NEW mac \in Mac, Update(ip, mac)
  PROVE  (Full \/ Filling)'
<1> USE DEF MapInv, CacheInv, CacheTypeOK
<1>1. CASE Hits(ip) # {}
  <2>1. PICK i \in Hits(ip) : TRUE
    BY <1>1
  <2>2. /\ i \in Slot
        /\ table' = [table EXCEPT ![i].mac = mac] /\ next_slot' = next_slot
    BY <1>1, <2>1, FirstHitIsOnly DEF Update
  <2>3. \A j \in Slot : table'[j].valid = table[j].valid
    BY <2>2
  <2> QED
    BY <2>2, <2>3 DEF Full, Filling
<1>2. CASE Hits(ip) = {}
  <2>1. /\ table' = [table EXCEPT ![next_slot] =
                       [ip |-> ip, mac |-> mac, valid |-> TRUE]]
        /\ next_slot' = (next_slot + 1) % Size
    BY <1>2 DEF Update
  <2>2. /\ table'[next_slot].valid
        /\ \A j \in Slot \ {next_slot} : table'[j] = table[j]
    BY <2>1
  <2>3. CASE Full
    BY <2>2, <2>3 DEF Full
  <2>4. CASE Filling
    <3>1. next_slot' = IF next_slot + 1 < Size THEN next_slot + 1 ELSE 0
      BY <2>1, NextSlotIs
    <3> QED
      BY <2>2, <2>4, <3>1, ArpCacheAssumption DEF Full, Filling, Slot
  <2> QED
    BY <2>3, <2>4
<1> QED
  BY <1>1, <1>2

LEMMA MapInvariant == CacheSpec => []MapInv
<1>1. CacheInit => Filling
  BY ArpCacheAssumption DEF CacheInit, Filling, Slot
<1>2. CacheInv /\ (Full \/ Filling) /\ [CacheNext]_cacheVars
        => (Full \/ Filling)'
  <2> SUFFICES ASSUME CacheInv, Full \/ Filling, [CacheNext]_cacheVars
               PROVE  (Full \/ Filling)'
    OBVIOUS
  <2>1. ASSUME NEW ip \in Ip, NEW mac \in Mac, Update(ip, mac)
        PROVE  (Full \/ Filling)'
    BY <2>1, UpdateKeepsFilled DEF MapInv
  <2>2. CASE Flush
    BY <2>2, ArpCacheAssumption
    DEF Flush, Filling, Slot, CacheInv, CacheTypeOK
  <2>3. CASE UNCHANGED cacheVars
    BY <2>3 DEF cacheVars, Full, Filling
  <2> QED
    BY <2>1, <2>2, <2>3 DEF CacheNext
<1> QED
  BY <1>1, <1>2, CacheInvariant, PTL DEF CacheSpec, MapInv

(* The abstract state: what the refinement mapping puts for entries.       *)
Entry(i) == <<table[i].ip, table[i].mac>>

Entries ==
  [k \in DOMAIN Oldest |-> <<table[Oldest[k]].ip, table[Oldest[k]].mac>>]

(* The two shapes of the table, with the order of eviction spelled out.    *)
OldestOf(k) == IF next_slot + k - 1 < Size THEN next_slot + k - 1
                                           ELSE next_slot + k - 1 - Size

OrderWhenFull == Oldest = [k \in 1 .. Size |-> OldestOf(k)]

OrderWhenFilling == Oldest = [k \in 1 .. next_slot |-> k - 1]

LEMMA FullOrder == MapInv /\ Full => OrderWhenFull
<1> SUFFICES ASSUME MapInv, Full PROVE OrderWhenFull
  OBVIOUS
<1>1. next_slot \in 0 .. Size - 1 /\ Size \in Nat \ {0}
  BY ArpCacheAssumption DEF MapInv, CacheInv, CacheTypeOK, Slot
<1>2. table[next_slot].valid
  BY DEF MapInv, CacheInv, CacheTypeOK, Full
<1>3. ASSUME NEW k \in 1 .. Size
      PROVE  (next_slot + k - 1) % Size = OldestOf(k)
  <2> DEFINE x == next_slot + k - 1
  <2>1. x \in Nat /\ x < Size + Size
    BY <1>1
  <2> HIDE DEF x
  <2>2. x % Size = IF x < Size THEN x ELSE x - Size
    BY <1>1, <2>1, Wrap
  <2> QED
    BY <1>1, <2>2 DEF x, OldestOf
<1> QED
  BY <1>2, <1>3 DEF Oldest, OrderWhenFull

LEMMA FillingOrder == MapInv /\ ~ Full => Filling /\ OrderWhenFilling
<1> SUFFICES ASSUME MapInv, ~ Full PROVE Filling /\ OrderWhenFilling
  OBVIOUS
<1>1. Filling
  BY DEF MapInv
<1>2. ~ table[next_slot].valid
  BY <1>1 DEF MapInv, CacheInv, CacheTypeOK, Filling, Slot
<1> QED
  BY <1>1, <1>2 DEF Oldest, OrderWhenFilling

(* The entries are exactly the valid slots.                                *)
LEMMA OldestIsValid ==
  ASSUME MapInv
  PROVE  /\ \A k \in DOMAIN Oldest :
              Oldest[k] \in Slot /\ table[Oldest[k]].valid
         /\ \A i \in Slot :
              table[i].valid => \E k \in DOMAIN Oldest : Oldest[k] = i
<1>1. next_slot \in 0 .. Size - 1 /\ Size \in Nat \ {0}
  BY ArpCacheAssumption DEF MapInv, CacheInv, CacheTypeOK, Slot
<1>2. CASE Full
  <2>1. \A k \in DOMAIN Oldest : Oldest[k] \in Slot
    BY <1>1, <1>2, FullOrder DEF OrderWhenFull, Slot, OldestOf
  <2>2. ASSUME NEW i \in Slot PROVE \E k \in DOMAIN Oldest : Oldest[k] = i
    <3>1. CASE i >= next_slot
      <4>1. i - next_slot + 1 \in 1 .. Size
        BY <1>1, <3>1 DEF Slot
      <4>2. Oldest[i - next_slot + 1] = i
        BY <1>1, <1>2, <4>1, FullOrder DEF OrderWhenFull, Slot, OldestOf
      <4> QED
        BY <1>2, <4>1, <4>2, FullOrder DEF OrderWhenFull
    <3>2. CASE i < next_slot
      <4>1. i + Size - next_slot + 1 \in 1 .. Size
        BY <1>1, <3>2 DEF Slot
      <4>2. Oldest[i + Size - next_slot + 1] = i
        BY <1>1, <1>2, <3>2, <4>1, FullOrder DEF OrderWhenFull, Slot, OldestOf
      <4> QED
        BY <1>2, <4>1, <4>2, FullOrder DEF OrderWhenFull
    <3> QED
      BY <1>1, <3>1, <3>2 DEF Slot
  <2> QED
    BY <1>2, <2>1, <2>2 DEF Full
<1>3. CASE ~ Full
  <2>1. \A k \in DOMAIN Oldest : Oldest[k] \in Slot /\ Oldest[k] < next_slot
    BY <1>1, <1>3, FillingOrder DEF OrderWhenFilling, Slot
  <2>2. ASSUME NEW i \in Slot, table[i].valid
        PROVE  \E k \in DOMAIN Oldest : Oldest[k] = i
    <3>1. i + 1 \in 1 .. next_slot
      BY <1>1, <1>3, <2>2, FillingOrder DEF OrderWhenFilling, Filling, Slot
    <3>2. Oldest[i + 1] = i
      BY <1>1, <1>3, <3>1, FillingOrder DEF OrderWhenFilling, Slot
    <3> QED
      BY <1>3, <3>1, <3>2, FillingOrder DEF OrderWhenFilling
  <2> QED
    BY <1>3, <2>1, <2>2, FillingOrder DEF OrderWhenFilling, Filling
<1> QED
  BY <1>2, <1>3

(* A refreshed host keeps its place.                                       *)
LEMMA RefreshStep ==
  ASSUME MapInv, NEW ip \in Ip, NEW mac \in Mac, Update(ip, mac),
         Hits(ip) # {}
  PROVE  Map!Refresh(ip, mac)
<1>1. PICK i \in Hits(ip) : TRUE
  OBVIOUS
<1>2. /\ i \in Slot /\ table[i].valid /\ table[i].ip = ip
      /\ table' = [table EXCEPT ![i].mac = mac] /\ next_slot' = next_slot
      /\ \A j \in Hits(ip) : j = i
  BY <1>1, FirstHitIsOnly
  DEF Update, Hits, MapInv, CacheInv, NoDuplicateIp
<1>3. \A j \in Slot : /\ table'[j].valid = table[j].valid
                      /\ table'[j].ip = table[j].ip
                      /\ j # i => table'[j] = table[j]
                      /\ j = i => table'[j].mac = mac
  BY <1>2 DEF MapInv, CacheInv, CacheTypeOK
<1>4. Oldest' = Oldest
  BY <1>2, <1>3 DEF Oldest, MapInv, CacheInv, CacheTypeOK
<1>5. Entries' = [k \in DOMAIN Entries |->
                    IF Entries[k][1] = ip THEN <<ip, mac>> ELSE Entries[k]]
  <2>1. ASSUME NEW k \in DOMAIN Oldest
        PROVE  Entry(Oldest[k])' =
                 IF Entry(Oldest[k])[1] = ip THEN <<ip, mac>>
                                             ELSE Entry(Oldest[k])
    <3>1. Oldest[k] \in Slot /\ table[Oldest[k]].valid
      BY OldestIsValid
    <3>2. table[Oldest[k]].ip = ip <=> Oldest[k] = i
      BY <1>2, <3>1 DEF Hits
    <3> QED
      BY <1>2, <1>3, <1>4, <3>1, <3>2 DEF Entry
  <2> QED
    BY <1>4, <2>1 DEF Entries, Entry
<1>6. \E k \in DOMAIN Entries : Entries[k][1] = ip
  <2>1. PICK k \in DOMAIN Oldest : Oldest[k] = i
    BY <1>2, OldestIsValid
  <2> QED
    BY <1>2, <2>1 DEF Entries, Entry
<1> QED
  BY <1>5, <1>6 DEF Map!Refresh, Map!Known, Entries, Entry

(* A new host goes to the end, in place of the oldest one if all slots are *)
(* taken.                                                                  *)
LEMMA LearnStep ==
  ASSUME MapInv, MapInv', NEW ip \in Ip, NEW mac \in Mac, Update(ip, mac),
         Hits(ip) = {}
  PROVE  Map!Learn(ip, mac)
<1> DEFINE Pair == (Ip \cup {NoIp}) \X (Mac \cup {NoMac})
<1>1. next_slot \in 0 .. Size - 1 /\ Size \in Nat \ {0}
  BY ArpCacheAssumption DEF MapInv, CacheInv, CacheTypeOK, Slot
<1>2. /\ table' = [table EXCEPT ![next_slot] =
                     [ip |-> ip, mac |-> mac, valid |-> TRUE]]
      /\ next_slot' = IF next_slot + 1 < Size THEN next_slot + 1 ELSE 0
  BY <1>1, Wrap DEF Update
<1>3. /\ table'[next_slot] = [ip |-> ip, mac |-> mac, valid |-> TRUE]
      /\ \A j \in Slot \ {next_slot} : table'[j] = table[j]
  BY <1>2 DEF MapInv, CacheInv, CacheTypeOK
<1>4. ~ \E k \in DOMAIN Entries : Entries[k][1] = ip
  BY OldestIsValid DEF Entries, Entry, Hits
<1>5. \A j \in Slot : Entry(j) \in Pair
  BY DEF MapInv, CacheInv, CacheTypeOK, Entry
<1>6. <<ip, mac>> \in Pair
  OBVIOUS
<1> SUFFICES Entries' = Append(IF Len(Entries) = Size THEN Tail(Entries)
                                                      ELSE Entries,
                               <<ip, mac>>)
  BY <1>4 DEF Map!Learn, Map!Known, Entries
<1> HIDE DEF Pair
<1>7. CASE Full
  <2>1. /\ Entries = [k \in 1 .. Size |-> Entry(Oldest[k])]
        /\ \A k \in 1 .. Size : Oldest[k] \in Slot
    BY <1>7, FullOrder, OldestIsValid DEF OrderWhenFull, Entries, Entry
  <2>2. Entries \in Seq(Pair) /\ Len(Entries) = Size /\ Entries # <<>>
    BY <1>1, <1>5, <2>1
  <2>3. Full'
    BY <1>3, <1>7 DEF Full
  <2>4. /\ Oldest = [k \in 1 .. Size |-> OldestOf(k)]
        /\ Oldest' = [k \in 1 .. Size |-> OldestOf(k)']
    <3>1. OrderWhenFull /\ OrderWhenFull'
      BY <1>7, <2>3, FullOrder, PTL
    <3> QED
      BY <3>1 DEF OrderWhenFull
  <2>5. ASSUME NEW k \in 1 .. Size
        PROVE  <<table'[OldestOf(k)'].ip, table'[OldestOf(k)'].mac>> =
                 IF k < Size THEN Entries[k + 1] ELSE <<ip, mac>>
    <3>1. CASE k < Size
      <4>1. k + 1 \in 1 .. Size
        BY <1>1, <3>1
      <4>2. /\ OldestOf(k)' = OldestOf(k + 1)
            /\ OldestOf(k + 1) \in Slot \ {next_slot}
        BY <1>1, <1>2, <3>1 DEF OldestOf, Slot
      <4>3. Entries[k + 1] = Entry(OldestOf(k + 1))
        BY <2>1, <2>4, <4>1
      <4> QED
        BY <1>3, <3>1, <4>2, <4>3 DEF Entry
    <3>2. CASE k = Size
      <4>1. OldestOf(k)' = next_slot
        BY <1>1, <1>2, <3>2 DEF OldestOf
      <4> QED
        BY <1>1, <1>3, <3>2, <4>1
    <3> QED
      BY <1>1, <3>1, <3>2
  <2>6. Entries' = [k \in 1 .. Size |->
                      IF k < Size THEN Entries[k + 1] ELSE <<ip, mac>>]
    <3>1. Entries' = [k \in 1 .. Size |-> <<table'[OldestOf(k)'].ip,
                                            table'[OldestOf(k)'].mac>>]
      BY <2>4 DEF Entries
    <3> QED
      BY <2>5, <3>1
  <2> QED
    BY <1>6, <2>2, <2>6, AppendTail
<1>8. CASE ~ Full
  <2>1. /\ Entries = [k \in 1 .. next_slot |-> Entry(k - 1)]
        /\ \A k \in 1 .. next_slot : k - 1 \in Slot \ {next_slot}
        /\ Filling
    BY <1>1, <1>8, FillingOrder DEF OrderWhenFilling, Entries, Entry, Slot
  <2>2. Entries \in Seq(Pair) /\ Len(Entries) = next_slot
    BY <1>1, <1>5, <2>1
  <2>3. Oldest' = [k \in 1 .. next_slot + 1 |-> k - 1]
    <3>1. CASE next_slot + 1 < Size
      <4>1. ~ Full'
        BY <1>1, <1>3, <2>1, <3>1 DEF Full, Filling, Slot
      <4>2. Oldest' = [k \in 1 .. next_slot' |-> k - 1]
        <5>1. OrderWhenFilling'
          BY <4>1, FillingOrder, PTL
        <5> QED
          BY <5>1 DEF OrderWhenFilling
      <4> QED
        BY <1>2, <3>1, <4>2
    <3>2. CASE next_slot + 1 = Size
      <4>1. Full'
        BY <1>1, <1>3, <2>1, <3>2 DEF Full, Filling, Slot
      <4>2. Oldest' = [k \in 1 .. Size |-> OldestOf(k)']
        <5>1. OrderWhenFull'
          BY <4>1, FullOrder, PTL
        <5> QED
          BY <5>1 DEF OrderWhenFull
      <4>3. next_slot' = 0
        BY <1>1, <1>2, <3>2
      <4>4. \A k \in 1 .. Size : OldestOf(k)' = k - 1
        BY <1>1, <4>3 DEF OldestOf
      <4> QED
        BY <3>2, <4>2, <4>4
    <3> QED
      BY <1>1, <3>1, <3>2 DEF Slot
  <2>4. ASSUME NEW k \in 1 .. next_slot + 1
        PROVE  <<table'[k - 1].ip, table'[k - 1].mac>> =
                 IF k <= next_slot THEN Entries[k] ELSE <<ip, mac>>
    <3>1. CASE k <= next_slot
      <4>1. k \in 1 .. next_slot
        BY <1>1, <3>1
      <4> QED
        BY <1>3, <2>1, <3>1, <4>1 DEF Entry
    <3>2. CASE k = next_slot + 1
      BY <1>1, <1>3, <3>2
    <3> QED
      BY <1>1, <3>1, <3>2
  <2>5. Entries' = [k \in 1 .. next_slot + 1 |->
                      IF k <= next_slot THEN Entries[k] ELSE <<ip, mac>>]
    <3>1. Entries' = [k \in 1 .. next_slot + 1 |->
                        <<table'[k - 1].ip, table'[k - 1].mac>>]
      BY <2>3 DEF Entries
    <3> QED
      BY <2>4, <3>1
  <2>6. Entries' = Append(Entries, <<ip, mac>>)
    BY <1>6, <2>2, <2>5, AppendIs
  <2> QED
    BY <1>1, <2>2, <2>6
<1> QED
  BY <1>7, <1>8

(* The table implements the bounded map: whatever is learned, refreshed,   *)
(* evicted and flushed, lookups see the hosts learned last.                *)
THEOREM MapImplemented == CacheSpec => ImplementsMap
<1>1. CacheInit => Map!Init
  BY ArpCacheAssumption DEF CacheInit, Map!Init, Oldest, Slot
<1>2. MapInv /\ MapInv' /\ [CacheNext]_cacheVars
        => [Map!Next]_Entries
  <2> SUFFICES ASSUME MapInv, MapInv', [CacheNext]_cacheVars
               PROVE  [Map!Next]_Entries
    OBVIOUS
  <2>1. ASSUME NEW ip \in Ip, NEW mac \in Mac, Update(ip, mac)
        PROVE  Map!Next
    BY <2>1, RefreshStep, LearnStep DEF Map!Next
  <2>2. CASE Flush
    <3>1. /\ next_slot' = 0
          /\ \A i \in Slot : ~ table'[i].valid
      BY <2>2 DEF Flush, MapInv, CacheInv, CacheTypeOK
    <3>2. Oldest' = [k \in 1 .. 0 |-> k - 1]
      BY <3>1, ArpCacheAssumption DEF Oldest, Slot
    <3>3. Map!Clear
      BY <3>2 DEF Map!Clear
    <3> QED
      BY <3>3 DEF Map!Next
  <2>3. CASE UNCHANGED cacheVars
    BY <2>3 DEF cacheVars, Entries, Oldest
  <2> QED
    BY <2>1, <2>2, <2>3 DEF CacheNext
<1> QED
  BY <1>1, <1>2, MapInvariant, PTL
  DEF CacheSpec, ImplementsMap, Map!Spec, Entries

=============================================================================
