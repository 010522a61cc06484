--------------------------------- MODULE Arp ---------------------------------
(***************************************************************************)
(* The ARP cache of net/net.c: a table of addresses, filled by replies and *)
(* never emptied.                                                          *)
(***************************************************************************)
EXTENDS Naturals, Sequences

CONSTANTS ArpCacheSize,  \* ARP_CACHE_SIZE, 32
          Ips,           \* addresses of the other hosts
          Macs,          \* hardware addresses of theirs
          NoEntry

ASSUME ArpAssumption ==
  /\ ArpCacheSize \in Nat
  /\ NoEntry \notin [ip : Ips, mac : Macs] \cup Macs

VARIABLES cache,  \* arp_cache; NoEntry stands for one that is not valid
          told    \* the hardware address in the last reply of each host (history)

avars == <<cache, told>>

Slots == 0 .. ArpCacheSize - 1

(* arp_init *)
ArpInit ==
  /\ cache = [i \in Slots |-> NoEntry]
  /\ told = [ip \in Ips |-> NoEntry]

Entries(ip) == [ip : {ip}, mac : Macs]
Matches(i, ip) == cache[i] \in Entries(ip) \cup {NoEntry}

(* Mutant: an entry that the host has is left as it is. *)
LearnOnce(ip, mac) ==
  /\ told' = [told EXCEPT ![ip] = mac]
  /\ \/ \E i \in Slots :
          /\ Matches(i, ip)
          /\ \A j \in 0 .. i - 1 : ~Matches(j, ip)
          /\ cache' = [cache EXCEPT ![i] = IF @ = NoEntry THEN [ip |-> ip, mac |-> mac] ELSE @]
     \/ /\ \A i \in Slots : ~Matches(i, ip)
        /\ UNCHANGED cache

(* arp_process of a reply; a table that is full of others is left alone. *)
Learn(ip, mac) ==
  /\ told' = [told EXCEPT ![ip] = mac]
  /\ \/ \E i \in Slots :
          /\ Matches(i, ip)
          /\ \A j \in 0 .. i - 1 : ~Matches(j, ip)
          /\ cache' = [cache EXCEPT ![i] = [ip |-> ip, mac |-> mac]]
     \/ /\ \A i \in Slots : ~Matches(i, ip)
        /\ UNCHANGED cache

HasEntry(ip) == \E i \in Slots : cache[i] \in Entries(ip)

(* arp_resolve, NoEntry for -1 *)
Resolve(ip) ==
  IF HasEntry(ip)
    THEN cache[CHOOSE i \in Slots :
                 /\ cache[i] \in Entries(ip)
                 /\ \A j \in 0 .. i - 1 : cache[j] \notin Entries(ip)].mac
    ELSE NoEntry

-----------------------------------------------------------------------------
ArpTypeOK ==
  /\ cache \in [Slots -> [ip : Ips, mac : Macs] \cup {NoEntry}]
  /\ told \in [Ips -> Macs \cup {NoEntry}]

(* A host has at most one entry, so that its newest address is the one     *)
(* found whatever the order of replies and slots.                          *)
OneEntryPerIp ==
  \A i, j \in Slots :
    cache[i] # NoEntry /\ cache[j] # NoEntry /\ cache[i].ip = cache[j].ip => i = j

(* What resolves is the address in the last reply of the host; a host that *)
(* replied does not resolve only if the table is full of others, and then  *)
(* it never will.                                                          *)
NewestWins ==
  \A ip \in Ips :
    IF HasEntry(ip) THEN Resolve(ip) = told[ip]
    ELSE told[ip] # NoEntry => \A i \in Slots : cache[i] # NoEntry
=============================================================================
