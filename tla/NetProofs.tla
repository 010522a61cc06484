------------------------------ MODULE NetProofs ------------------------------
(***************************************************************************)
(* Proofs that the ARP cache answers with what each host said last, that   *)
(* packets go out addressed by it, and that sockets and connections stay   *)
(* their owners', for every size of the tables and every set of hosts,     *)
(* ports and callers.                                                      *)
(***************************************************************************)
EXTENDS Net, Integers, TLAPS

(* The part of the invariant that is about the cache: entries come without *)
(* gaps, or a host with an entry could be given another one before it; each*)
(* entry is what its host said last; and a host that said something is     *)
(* found, or the table is full.                                            *)
Packed == \A i \in Slots : cache[i] # NoEntry => \A j \in 0 .. i - 1 : cache[j] # NoEntry

EntryTold == \A i \in Slots : cache[i] # NoEntry => cache[i].mac = told[cache[i].ip]

Heard ==
  \A ip \in Ips : told[ip] # NoEntry =>
    \/ \E i \in Slots : cache[i] \in Entries(ip)
    \/ \A i \in Slots : cache[i] # NoEntry

ArpInv == ArpTypeOK /\ Packed /\ EntryTold /\ OneEntryPerIp /\ Heard

TcpInv == TcpTypeOK /\ SocketsSound /\ HandlesExclusive

NetTypes == myIp \in MyIps /\ ticks \in Ephemeral

NetInv == ArpInv /\ TcpInv /\ NetTypes /\ Len(sent) <= 2 /\ WellAddressed

-----------------------------------------------------------------------------
(* The entries of a host are those that bear its address.                  *)
LEMMA EntryOf ==
  ASSUME ArpTypeOK, NEW i \in Slots, NEW ip \in Ips
  PROVE  cache[i] \in Entries(ip) <=> cache[i] # NoEntry /\ cache[i].ip = ip
<1>1. cache[i] \in [ip : Ips, mac : Macs] \cup {NoEntry} BY DEF ArpTypeOK
<1>2. NoEntry \notin [ip : Ips, mac : Macs] BY ArpAssumption
<1>3. CASE cache[i] = NoEntry
  <2>1. Entries(ip) \subseteq [ip : Ips, mac : Macs] BY DEF Entries
  <2> QED BY <1>2, <1>3, <2>1
<1>4. CASE cache[i] \in [ip : Ips, mac : Macs]
  BY <1>2, <1>4 DEF Entries
<1> QED BY <1>1, <1>3, <1>4

(* What resolves is what the host said last.                               *)
LEMMA ResolveTold ==
  ASSUME ArpInv, NEW ip \in Ips, HasEntry(ip)
  PROVE  Resolve(ip) = told[ip]
<1> DEFINE First(i) == /\ cache[i] \in Entries(ip)
                       /\ \A j \in 0 .. i - 1 : cache[j] \notin Entries(ip)
<1>1. PICK i \in Slots : cache[i] \in Entries(ip) BY DEF HasEntry
<1>2. ArpTypeOK BY DEF ArpInv
<1>3. \A j \in Slots : cache[j] \in Entries(ip) => j = i
  BY <1>1, <1>2, EntryOf DEF ArpInv, OneEntryPerIp
<1>4. \A j \in 0 .. i - 1 : j \in Slots /\ j # i
  BY ArpAssumption DEF Slots
<1>5. First(i) BY <1>1, <1>3, <1>4
<1>6. \A j \in Slots : First(j) => j = i BY <1>3
<1>7. (CHOOSE j \in Slots : First(j)) = i BY <1>5, <1>6
<1>8. Resolve(ip) = cache[i].mac BY <1>7 DEF Resolve
<1>9. cache[i] # NoEntry /\ cache[i].ip = ip BY <1>1, <1>2, EntryOf
<1> QED BY <1>8, <1>9 DEF ArpInv, EntryTold

(* What the run checks of the cache follows from the invariant.            *)
LEMMA ArpInvGives ==
  ASSUME ArpInv
  PROVE  NewestWins
<1> SUFFICES ASSUME NEW ip \in Ips
             PROVE  IF HasEntry(ip) THEN Resolve(ip) = told[ip]
                    ELSE told[ip] # NoEntry => \A i \in Slots : cache[i] # NoEntry
  BY DEF NewestWins
<1>1. CASE HasEntry(ip) BY <1>1, ResolveTold
<1>2. CASE ~HasEntry(ip) BY <1>2 DEF HasEntry, ArpInv, Heard
<1> QED BY <1>1, <1>2

(* The cache after a reply.                                                *)
LEMMA LearnKeeps ==
  ASSUME ArpInv, NEW ip \in Ips, NEW mac \in Macs, Learn(ip, mac)
  PROVE  ArpInv'
<1> DEFINE entry == [ip |-> ip, mac |-> mac]
<1>1. ArpTypeOK BY DEF ArpInv
<1>2. entry \in [ip : Ips, mac : Macs] /\ entry.ip = ip /\ entry.mac = mac /\ entry \in Entries(ip)
  BY DEF Entries
<1>3. entry # NoEntry /\ mac # NoEntry BY <1>2, ArpAssumption
<1>4. told' = [told EXCEPT ![ip] = mac] BY DEF Learn
<1>5. CASE \A i \in Slots : ~Matches(i, ip)
  <2>1. UNCHANGED cache BY <1>5 DEF Learn
  <2>2. \A i \in Slots : cache[i] # NoEntry /\ cache[i].ip # ip
    BY <1>1, <1>5, EntryOf DEF Matches
  <2>3. ArpTypeOK' BY <1>1, <1>4, <2>1 DEF ArpTypeOK
  <2>4. Packed' /\ OneEntryPerIp' BY <2>1 DEF ArpInv, Packed, OneEntryPerIp
  <2>5. EntryTold'
    BY <1>1, <1>4, <2>1, <2>2 DEF ArpInv, EntryTold, ArpTypeOK
  <2>6. Heard' BY <2>1, <2>2 DEF Heard
  <2> QED BY <2>3, <2>4, <2>5, <2>6 DEF ArpInv
<1>6. CASE \E i \in Slots : Matches(i, ip)
  <2>1. PICK i \in Slots :
          /\ Matches(i, ip)
          /\ \A j \in 0 .. i - 1 : ~Matches(j, ip)
          /\ cache' = [cache EXCEPT ![i] = entry]
    BY <1>6 DEF Learn
  <2>2. /\ cache' \in [Slots -> [ip : Ips, mac : Macs] \cup {NoEntry}]
        /\ cache'[i] = entry
        /\ \A j \in Slots \ {i} : cache'[j] = cache[j]
    BY <1>1, <1>2, <2>1 DEF ArpTypeOK
  <2>3. ArpTypeOK' BY <1>1, <1>4, <2>2 DEF ArpTypeOK
  <2>4. Slots \subseteq Int /\ i \in Int BY ArpAssumption DEF Slots
  <2>41. \A k \in Slots : \A j \in 0 .. k - 1 : j \in Slots
    BY ArpAssumption DEF Slots
  <2>5. \A j \in 0 .. i - 1 : j \in Slots /\ cache[j] # NoEntry
    <3> SUFFICES ASSUME NEW j \in 0 .. i - 1 PROVE j \in Slots /\ cache[j] # NoEntry
      OBVIOUS
    <3>1. ~Matches(j, ip) BY <2>1
    <3> QED BY <3>1, <2>41 DEF Matches
  <2>6. Packed'
    <3> SUFFICES ASSUME NEW k \in Slots, cache'[k] # NoEntry, NEW j \in 0 .. k - 1
                 PROVE  cache'[j] # NoEntry
      BY DEF Packed
    <3>1. j \in Slots BY <2>41
    <3>2. CASE j = i BY <3>2, <2>2, <1>3
    <3>3. CASE j # i /\ k = i BY <3>1, <3>3, <2>2, <2>5
    <3>4. CASE j # i /\ k # i BY <3>1, <3>4, <2>2 DEF ArpInv, Packed
    <3> QED BY <3>2, <3>3, <3>4
  <2>7. \A j \in Slots \ {i} : cache[j] # NoEntry => cache[j].ip # ip
    <3> SUFFICES ASSUME NEW j \in Slots \ {i}, cache[j] # NoEntry, cache[j].ip = ip PROVE FALSE
      OBVIOUS
    <3>1. cache[j] \in Entries(ip) BY <1>1, EntryOf
    <3>2. ~(j \in 0 .. i - 1) BY <2>1, <3>1 DEF Matches
    <3>3. i \in 0 .. j - 1 BY <3>2, <2>4 DEF Slots
    <3>4. cache[i] # NoEntry BY <3>3 DEF ArpInv, Packed
    <3>5. cache[i].ip = ip BY <2>1, <3>4, <1>1, EntryOf DEF Matches
    <3> QED BY <3>4, <3>5 DEF ArpInv, OneEntryPerIp
  <2>8. OneEntryPerIp'
    BY <1>2, <2>2, <2>7 DEF ArpInv, OneEntryPerIp
  <2>9. EntryTold'
    <3> SUFFICES ASSUME NEW k \in Slots, cache'[k] # NoEntry
                 PROVE  cache'[k].mac = told'[cache'[k].ip]
      BY DEF EntryTold
    <3>1. CASE k = i BY <3>1, <2>2, <1>2, <1>4, <1>1 DEF ArpTypeOK
    <3>2. CASE k # i
      <4>1. cache'[k] = cache[k] /\ cache[k].ip # ip /\ cache[k].mac = told[cache[k].ip]
        BY <3>2, <2>2, <2>7 DEF ArpInv, EntryTold
      <4>2. told'[cache[k].ip] = told[cache[k].ip]
        BY <4>1, <1>4, <1>1 DEF ArpTypeOK
      <4> QED BY <4>1, <4>2
    <3> QED BY <3>1, <3>2
  <2>10. Heard'
    <3> SUFFICES ASSUME NEW h \in Ips, told'[h] # NoEntry,
                        NEW n \in Slots, cache'[n] = NoEntry
                 PROVE  \E k \in Slots : cache'[k] \in Entries(h)
      BY DEF Heard, Entries
    <3>1. CASE h = ip BY <3>1, <2>2, <1>2
    <3>2. CASE h # ip
      <4>1. told[h] # NoEntry /\ cache[n] = NoEntry
        BY <3>2, <1>1, <1>3, <1>4, <2>2 DEF ArpTypeOK
      <4>2. PICK k \in Slots : cache[k] \in Entries(h) BY <4>1 DEF ArpInv, Heard
      <4>3. cache[k] # NoEntry /\ cache[k].ip = h BY <4>2, <1>1, EntryOf
      <4>4. k # i BY <4>3, <3>2, <2>1, <1>1, EntryOf DEF Matches
      <4> QED BY <4>2, <4>4, <2>2
    <3> QED BY <3>1, <3>2
  <2> QED BY <2>3, <2>6, <2>8, <2>9, <2>10 DEF ArpInv
<1> QED BY <1>5, <1>6
-----------------------------------------------------------------------------
LEMMA InitInv == Init => NetInv
<1> SUFFICES ASSUME Init PROVE NetInv OBVIOUS
<1> USE DEF Init
<1>1. ArpTypeOK /\ Packed /\ EntryTold /\ OneEntryPerIp /\ Heard
  BY DEF ArpInit, ArpTypeOK, Packed, EntryTold, OneEntryPerIp, Heard
<1>2. TcpTypeOK /\ SocketsSound /\ HandlesExclusive
  BY DEF TcpInit, TcpTypeOK, SocketsSound, HandlesExclusive
<1>3. Len(sent) <= 2 /\ WellAddressed
  BY DEF WellAddressed
<1> QED BY <1>1, <1>2, <1>3 DEF NetInv, ArpInv, TcpInv, NetTypes

(* What stays as it is as long as the cache, or the sockets, do. *)
LEMMA ArpStays == ASSUME ArpInv, UNCHANGED avars PROVE ArpInv'
BY DEF ArpInv, avars, ArpTypeOK, Packed, EntryTold, OneEntryPerIp, Heard

LEMMA TcpStays == ASSUME TcpInv, UNCHANGED tvars PROVE TcpInv'
BY DEF TcpInv, tvars, TcpTypeOK, SocketsSound, HandlesExclusive

-----------------------------------------------------------------------------
(* A socket that is opened was nobody's.                                   *)
LEMMA OpenKeeps ==
  ASSUME TcpInv, NEW c \in Callers, NEW s \in Socks, FirstUnused(s), Opened(c, s),
         NEW st \in {"LISTEN", "SYN_SENT"}, state' = [state EXCEPT ![s] = st],
         NEW p \in Ports \cup Ephemeral, port' = [port EXCEPT ![s] = p],
         NEW peer \in Peers \cup {Nobody}, remote' = [remote EXCEPT ![s] = peer],
         st = "SYN_SENT" => peer # Nobody
  PROVE  TcpInv'
<1>1. TcpTypeOK /\ SocketsSound /\ HandlesExclusive BY DEF TcpInv
<1>2. ~inUse[s] BY DEF FirstUnused
<1>3. TcpTypeOK' BY <1>1 DEF TcpTypeOK, Opened
<1>4. SocketsSound' BY <1>1 DEF TcpTypeOK, SocketsSound, Opened
<1>5. HandlesExclusive'
  <2> SUFFICES ASSUME orderly', NEW r \in Socks
               PROVE  /\ \A a, b \in Callers : r \in has'[a] \cap has'[b] => a = b
                      /\ inUse'[r] <=> \E a \in Callers : r \in has'[a]
    BY DEF HandlesExclusive
  <2>1. orderly /\ has' = [has EXCEPT ![c] = @ \cup {s}] /\ inUse' = [inUse EXCEPT ![s] = TRUE]
    BY DEF Opened
  <2>2. \A a \in Callers : s \notin has[a] BY <1>1, <1>2, <2>1 DEF HandlesExclusive
  <2>3. \A a \in Callers : r \in has'[a] <=> (IF r = s THEN a = c ELSE r \in has[a])
    BY <1>1, <2>1, <2>2 DEF TcpTypeOK
  <2>4. inUse'[r] <=> (r = s \/ inUse[r]) BY <1>1, <2>1 DEF TcpTypeOK
  <2> QED BY <1>1, <2>1, <2>3, <2>4 DEF HandlesExclusive
<1> QED BY <1>3, <1>4, <1>5 DEF TcpInv

LEMMA CloseKeeps ==
  ASSUME TcpInv, NEW c \in Callers, NEW s \in Socks, TcpClose(c, s)
  PROVE  TcpInv'
<1>1. TcpTypeOK /\ SocketsSound /\ HandlesExclusive BY DEF TcpInv
<1> USE DEF TcpClose, Shut
<1>2. TcpTypeOK' BY <1>1 DEF TcpTypeOK
<1>3. SocketsSound' BY <1>1 DEF TcpTypeOK, SocketsSound
<1>4. HandlesExclusive'
  <2> SUFFICES ASSUME orderly', NEW r \in Socks
               PROVE  /\ \A a, b \in Callers : r \in has'[a] \cap has'[b] => a = b
                      /\ inUse'[r] <=> \E a \in Callers : r \in has'[a]
    BY DEF HandlesExclusive
  <2>1. orderly /\ s \in has[c] OBVIOUS
  <2>2. \A a \in Callers : s \in has[a] => a = c BY <1>1, <2>1 DEF HandlesExclusive
  <2>3. \A a \in Callers : r \in has'[a] <=> r # s /\ r \in has[a]
    BY <1>1, <2>2 DEF TcpTypeOK
  <2>4. inUse'[r] <=> r # s /\ inUse[r] BY <1>1 DEF TcpTypeOK
  <2> QED BY <1>1, <2>1, <2>3, <2>4 DEF HandlesExclusive
<1> QED BY <1>2, <1>3, <1>4 DEF TcpInv

LEMMA SynKeeps ==
  ASSUME TcpInv, NEW p \in Ports, NEW peer \in Peers, TcpSyn(p, peer)
  PROVE  TcpInv'
<1>1. TcpTypeOK /\ SocketsSound /\ HandlesExclusive BY DEF TcpInv
<1>2. PICK s \in Socks : Accept(s, peer) BY DEF TcpSyn
<1>3. UNCHANGED <<inUse, port, has, had, orderly>> BY DEF TcpSyn
<1>4. peer # Nobody BY TcpAssumption
<1>5. TcpTypeOK' BY <1>1, <1>2, <1>3 DEF TcpTypeOK, Accept
<1>6. SocketsSound' BY <1>1, <1>2, <1>3, <1>4 DEF TcpTypeOK, SocketsSound, Accept
<1>7. HandlesExclusive' BY <1>1, <1>3 DEF HandlesExclusive
<1> QED BY <1>5, <1>6, <1>7 DEF TcpInv

(* A socket that listens, on a port of its own, is the first with it.      *)
LEMMA TcpInvGives ==
  ASSUME TcpInv
  PROVE  SocketsOwned
<1>1. TcpTypeOK /\ SocketsSound /\ HandlesExclusive BY DEF TcpInv
<1>2. \A s \in Socks : \A r \in 0 .. s - 1 : r \in Socks /\ r # s
  BY TcpAssumption DEF Socks
<1>3. ListenersHear BY <1>1, <1>2 DEF ListenersHear, SocketsSound, Hears
<1> QED BY <1>1, <1>3 DEF SocketsOwned

-----------------------------------------------------------------------------
(* A call that sends nothing, and one that sends an answer.                *)
LEMMA SendsNothing ==
  ASSUME sent' = <<>>
  PROVE  Len(sent') <= 2 /\ WellAddressed'
BY DEF WellAddressed

LEMMA SendsAnswer ==
  ASSUME NEW mac, sent' = <<ArpFrame("reply", mac, myIp)>>, UNCHANGED myIp
  PROVE  Len(sent') <= 2 /\ WellAddressed'
<1>1. Len(sent') = 1 /\ sent'[1].kind = "reply" /\ sent'[1].about = myIp
  BY DEF ArpFrame
<1>2. \A k \in 1 .. Len(sent') : k = 1 BY <1>1
<1> QED BY <1>1, <1>2 DEF WellAddressed

(* A packet goes to what its host said last, or behind a request.          *)
LEMMA SendsPacket ==
  ASSUME ArpInv, NEW ip \in Ips, sent' = IpSend(ip), UNCHANGED <<avars, myIp>>
  PROVE  Len(sent') <= 2 /\ WellAddressed'
<1>1. cache' = cache /\ told' = told /\ myIp' = myIp BY DEF avars
<1>2. CASE HasEntry(ip)
  <2>1. Resolve(ip) = told[ip] BY <1>2, ResolveTold
  <2>2. /\ Len(sent') = 1 /\ sent'[1].kind = "ip" /\ sent'[1].src = myIp
        /\ sent'[1].dst = ip /\ sent'[1].to = told[ip]
    BY <1>2, <2>1 DEF IpSend, IpFrame
  <2>3. \A k \in 1 .. Len(sent') : k = 1 BY <2>2
  <2> QED BY <1>1, <2>2, <2>3 DEF WellAddressed
<1>3. CASE ~HasEntry(ip)
  <2>1. sent' = <<ArpFrame("request", Broadcast, ip), IpFrame(GatewayMac, myIp, ip)>>
    BY <1>3 DEF IpSend
  <2>2. /\ Len(sent') = 2
        /\ sent'[1] = ArpFrame("request", Broadcast, ip) /\ sent'[1].kind = "request"
        /\ sent'[2].kind = "ip" /\ sent'[2].src = myIp
        /\ sent'[2].dst = ip /\ sent'[2].to = GatewayMac
    BY <2>1 DEF ArpFrame, IpFrame
  <2>3. \A k \in 1 .. Len(sent') : k \in {1, 2} BY <2>2
  <2>4. told[ip] # NoEntry => \A i \in Slots : cache[i] # NoEntry /\ cache[i].ip # ip
    <3>1. told[ip] # NoEntry => \A i \in Slots : cache[i] # NoEntry
      BY <1>3 DEF ArpInv, Heard, HasEntry
    <3>2. \A i \in Slots : ~(cache[i] # NoEntry /\ cache[i].ip = ip)
      BY <1>3, EntryOf DEF ArpInv, HasEntry
    <3> QED BY <3>1, <3>2
  <2>5. ASSUME NEW k \in 1 .. Len(sent')
        PROVE  /\ sent'[k].kind = "reply" => sent'[k].about = myIp'
               /\ sent'[k].kind = "ip" =>
                    /\ sent'[k].src = myIp'
                    /\ sent'[k].to = GatewayMac
                    /\ k = 2 /\ sent'[1] = ArpFrame("request", Broadcast, sent'[k].dst)
                    /\ sent'[k].dst = ip
    BY <1>1, <2>2, <2>3
  <2> QED BY <1>1, <2>2, <2>4, <2>5 DEF WellAddressed, ArpFrame
<1> QED BY <1>2, <1>3

-----------------------------------------------------------------------------
LEMMA NextInv == NetInv /\ [Next]_vars => NetInv'
<1> SUFFICES ASSUME NetInv, [Next]_vars PROVE NetInv' OBVIOUS
<1> DEFINE SentWell == Len(sent) <= 2 /\ WellAddressed
<1>0. ArpInv /\ TcpInv /\ NetTypes /\ SentWell BY DEF NetInv
<1> SUFFICES ArpInv' /\ TcpInv' /\ NetTypes' /\ SentWell' BY DEF NetInv
<1>1. ASSUME NEW ip \in MyIps, NetSetIp(ip) PROVE ArpInv' /\ TcpInv' /\ NetTypes' /\ SentWell'
  BY <1>0, <1>1, ArpStays, TcpStays, SendsNothing DEF NetSetIp, NetTypes
<1>2. ASSUME NEW t \in Ephemeral, Tick(t) PROVE ArpInv' /\ TcpInv' /\ NetTypes' /\ SentWell'
  BY <1>0, <1>2, ArpStays, TcpStays, SendsNothing DEF Tick, NetTypes
<1>3. ASSUME NEW ip \in Ips, Send(ip) PROVE ArpInv' /\ TcpInv' /\ NetTypes' /\ SentWell'
  BY <1>0, <1>3, ArpStays, TcpStays, SendsPacket DEF Send, NetTypes
<1>4. ASSUME NEW mac \in Macs, NEW target \in MyIps, ArpRequest(mac, target)
      PROVE ArpInv' /\ TcpInv' /\ NetTypes' /\ SentWell'
  <2>1. SentWell' BY <1>4, SendsNothing, SendsAnswer DEF ArpRequest
  <2> QED BY <1>0, <1>4, <2>1, ArpStays, TcpStays DEF ArpRequest, NetTypes
<1>5. ASSUME NEW ip \in Ips, NEW mac \in Macs, ArpReply(ip, mac)
      PROVE ArpInv' /\ TcpInv' /\ NetTypes' /\ SentWell'
  BY <1>0, <1>5, LearnKeeps, TcpStays, SendsNothing DEF ArpReply, NetTypes
<1>6. ASSUME NEW src \in Ips, NEW dst \in MyIps \cup {Broadcast}, Echo(src, dst)
      PROVE ArpInv' /\ TcpInv' /\ NetTypes' /\ SentWell'
  BY <1>0, <1>6, ArpStays, TcpStays, SendsPacket DEF Echo, NetTypes
<1>7. ASSUME NEW dst \in MyIps \cup {Broadcast}, NEW p \in Ports, NEW peer \in Peers, Syn(dst, p, peer)
      PROVE ArpInv' /\ TcpInv' /\ NetTypes' /\ SentWell'
  BY <1>0, <1>7, ArpStays, SynKeeps, SendsNothing DEF Syn, NetTypes
<1>8. ASSUME NEW c \in Callers, NEW s \in Socks, NEW p \in Ports, Listen(c, s, p)
      PROVE ArpInv' /\ TcpInv' /\ NetTypes' /\ SentWell'
  <2>1. remote[s] \in Peers \cup {Nobody} /\ remote' = [remote EXCEPT ![s] = remote[s]]
    BY <1>0, <1>8 DEF TcpInv, TcpTypeOK, Listen, TcpListen
  <2>2. TcpInv' BY <1>0, <1>8, <2>1, OpenKeeps DEF Listen, TcpListen
  <2> QED BY <1>0, <1>8, <2>2, ArpStays, SendsNothing DEF Listen, NetTypes
<1>9. ASSUME NEW c \in Callers, NEW s \in Socks, NEW peer \in Peers, Connect(c, s, peer)
      PROVE ArpInv' /\ TcpInv' /\ NetTypes' /\ SentWell'
  <2>1. peer # Nobody BY TcpAssumption
  <2>2. TcpInv' BY <1>0, <1>9, <2>1, OpenKeeps DEF Connect, TcpConnect, NetTypes
  <2> QED BY <1>0, <1>9, <2>2, ArpStays, SendsNothing DEF Connect, NetTypes
<1>10. ASSUME NEW c \in Callers, NEW s \in Socks, Close(c, s)
       PROVE ArpInv' /\ TcpInv' /\ NetTypes' /\ SentWell'
  BY <1>0, <1>10, ArpStays, CloseKeeps, SendsNothing DEF Close, NetTypes
<1>11. ASSUME UNCHANGED vars PROVE ArpInv' /\ TcpInv' /\ NetTypes' /\ SentWell'
  BY <1>0, <1>11, ArpStays, TcpStays DEF vars, avars, NetTypes, WellAddressed
<1> QED
  BY <1>1, <1>2, <1>3, <1>4, <1>5, <1>6, <1>7, <1>8, <1>9, <1>10, <1>11 DEF Next

(* The invariant holds in every state, whatever packets come in whatever   *)
(* order and whatever the callers do.                                      *)
THEOREM NetInductive == Spec => []NetInv
BY InitInv, NextInv, PTL DEF Spec

(* However replies are lost, repeated and reordered, the cache resolves    *)
(* what each host said last, and each host once (arp_process).             *)
THEOREM CacheNewestAlways == Spec => []CacheNewest
<1>1. NetInv => CacheNewest
  BY ArpInvGives DEF NetInv, ArpInv, TcpInv, NetTypes, CacheNewest, TypeOK
<1> QED BY <1>1, NetInductive, PTL

(* What goes out bears the address of the NIC and that of its destination  *)
(* (ip_send, arp_process).                                                 *)
THEOREM WellAddressedAlways == Spec => []WellAddressed
<1>1. NetInv => WellAddressed BY DEF NetInv
<1> QED BY <1>1, NetInductive, PTL

(* A socket in use is one caller's, and one that listens is heard          *)
(* (tcp_listen, tcp_connect, tcp_close, tcp_process).                      *)
THEOREM SocketsOwnedAlways == Spec => []SocketsOwned
<1>1. NetInv => SocketsOwned BY TcpInvGives DEF NetInv
<1> QED BY <1>1, NetInductive, PTL

(* A connection keeps its peer, whoever's segments come for its port       *)
(* (tcp_process).                                                          *)
THEOREM PeerFixedAlways == Spec => PeerFixed
<1> DEFINE Fixed == \A s \in Socks :
      state[s] \in {"SYN_SENT", "SYN_RCVD"} /\ inUse[s] /\ inUse'[s]
        => remote'[s] = remote[s] /\ port'[s] = port[s] /\ state'[s] = state[s]
<1>1. ASSUME NetInv, Next PROVE Fixed
  <2> SUFFICES ASSUME NEW s \in Socks, state[s] \in {"SYN_SENT", "SYN_RCVD"}, inUse[s], inUse'[s]
               PROVE  remote'[s] = remote[s] /\ port'[s] = port[s] /\ state'[s] = state[s]
    OBVIOUS
  <2>0. TcpTypeOK BY <1>1 DEF NetInv, TcpInv
  <2>1. CASE UNCHANGED tvars BY <2>1 DEF tvars
  <2>2. ASSUME NEW dst, NEW p, NEW peer, Syn(dst, p, peer)
        PROVE  remote'[s] = remote[s] /\ port'[s] = port[s] /\ state'[s] = state[s]
    <3>1. PICK r \in Socks : Accept(r, peer) BY <2>2 DEF Syn, TcpSyn
    <3>2. r # s BY <3>1 DEF Accept
    <3> QED BY <2>0, <2>2, <3>1, <3>2 DEF Accept, Syn, TcpSyn, TcpTypeOK
  <2>3. ASSUME NEW c, NEW r \in Socks, NEW p, Listen(c, r, p)
        PROVE  remote'[s] = remote[s] /\ port'[s] = port[s] /\ state'[s] = state[s]
    BY <2>0, <2>3 DEF Listen, TcpListen, FirstUnused, TcpTypeOK
  <2>4. ASSUME NEW c, NEW r \in Socks, NEW peer, Connect(c, r, peer)
        PROVE  remote'[s] = remote[s] /\ port'[s] = port[s] /\ state'[s] = state[s]
    BY <2>0, <2>4 DEF Connect, TcpConnect, FirstUnused, TcpTypeOK
  <2>5. ASSUME NEW c, NEW r \in Socks, Close(c, r)
        PROVE  remote'[s] = remote[s] /\ port'[s] = port[s] /\ state'[s] = state[s]
    BY <2>0, <2>5 DEF Close, TcpClose, Shut, TcpTypeOK
  <2>6. \/ UNCHANGED tvars
        \/ \E dst, p, peer : Syn(dst, p, peer)
        \/ \E c : \E r \in Socks : \E p : Listen(c, r, p)
        \/ \E c : \E r \in Socks : \E peer : Connect(c, r, peer)
        \/ \E c : \E r \in Socks : Close(c, r)
    BY <1>1 DEF Next, NetSetIp, Tick, Send, ArpRequest, ArpReply, Echo
  <2> QED BY <2>1, <2>2, <2>3, <2>4, <2>5, <2>6
<1>2. NetInv /\ [Next]_vars => [Fixed]_tvars
  BY <1>1 DEF vars
<1>3. Spec => [][Fixed]_tvars BY <1>2, NetInductive, PTL DEF Spec
<1> QED BY <1>3 DEF PeerFixed
=============================================================================
