--------------------------------- MODULE Net ---------------------------------
(***************************************************************************)
(* The network stack of net/net.c over its ARP cache and TCP sockets.  A   *)
(* driver hands over any packet at any time, so that packets are lost,     *)
(* delayed, repeated and reordered.  The frames that a call passes to      *)
(* g_nic->send are in sent.                                                *)
(***************************************************************************)
EXTENDS Arp, Tcp

CONSTANTS MyIps,      \* addresses that the NIC is given
          Broadcast,  \* 255.255.255.255
          GatewayMac  \* 52:52:52:52:52:02

ASSUME NetAssumption == Broadcast \notin MyIps

VARIABLES myIp,   \* g_nic->ip
          ticks,  \* timer_get_ticks(), as the port that tcp_connect makes of it
          sent    \* frames of the last call

vars == <<avars, tvars, myIp, ticks, sent>>

(* net_init, and net_set_ip *)
Init ==
  /\ ArpInit /\ TcpInit
  /\ myIp \in MyIps
  /\ ticks \in Ephemeral
  /\ sent = <<>>

NetSetIp(ip) ==
  /\ ip # myIp
  /\ myIp' = ip
  /\ sent' = <<>>
  /\ UNCHANGED <<avars, tvars, ticks>>

Tick(t) ==
  /\ t # ticks
  /\ ticks' = t
  /\ sent' = <<>>
  /\ UNCHANGED <<avars, tvars, myIp>>

ArpFrame(kind, mac, ip) == [kind |-> kind, to |-> mac, about |-> ip]
IpFrame(mac, src, dst) == [kind |-> "ip", to |-> mac, src |-> src, dst |-> dst]

(* Mutant: without an entry the packet goes out as a broadcast. *)
IpSendBroadcast(ip) ==
  IF HasEntry(ip) THEN <<IpFrame(Resolve(ip), myIp, ip)>>
  ELSE <<ArpFrame("request", Broadcast, ip), IpFrame(Broadcast, myIp, ip)>>

(* ip_send: without an entry a request goes first, and the packet to the   *)
(* gateway.                                                                *)
IpSend(ip) ==
  IF HasEntry(ip) THEN <<IpFrame(Resolve(ip), myIp, ip)>>
  ELSE <<ArpFrame("request", Broadcast, ip), IpFrame(GatewayMac, myIp, ip)>>

(* icmp_ping and udp_send *)
Send(ip) ==
  /\ sent' = IpSend(ip)
  /\ UNCHANGED <<avars, tvars, myIp, ticks>>

(* arp_process: the sender of a request is answered, and not learned. *)
ArpRequest(mac, target) ==
  /\ sent' = IF target = myIp THEN <<ArpFrame("reply", mac, myIp)>> ELSE <<>>
  /\ UNCHANGED <<avars, tvars, myIp, ticks>>

ArpReply(ip, mac) ==
  /\ Learn(ip, mac)
  /\ sent' = <<>>
  /\ UNCHANGED <<tvars, myIp, ticks>>

(* ip_process *)
ForMe(dst) == dst \in {myIp, Broadcast}

(* icmp_process of an echo request *)
Echo(src, dst) ==
  /\ ForMe(dst)
  /\ sent' = IpSend(src)
  /\ UNCHANGED <<avars, tvars, myIp, ticks>>

Syn(dst, p, peer) ==
  /\ ForMe(dst)
  /\ TcpSyn(p, peer)
  /\ sent' = <<>>
  /\ UNCHANGED <<avars, myIp, ticks>>

(* tcp_listen, tcp_connect and tcp_close by their callers *)
Listen(c, s, p) ==
  /\ TcpListen(c, s, p)
  /\ sent' = <<>>
  /\ UNCHANGED <<avars, myIp, ticks>>

Connect(c, s, peer) ==
  /\ TcpConnect(c, s, ticks, peer)
  /\ sent' = <<>>
  /\ UNCHANGED <<avars, myIp, ticks>>

Close(c, s) ==
  /\ TcpClose(c, s)
  /\ sent' = <<>>
  /\ UNCHANGED <<avars, myIp, ticks>>

Next ==
  \/ \E ip \in MyIps : NetSetIp(ip)
  \/ \E t \in Ephemeral : Tick(t)
  \/ \E ip \in Ips : Send(ip)
  \/ \E mac \in Macs, target \in MyIps : ArpRequest(mac, target)
  \/ \E ip \in Ips, mac \in Macs : ArpReply(ip, mac)
  \/ \E src \in Ips, dst \in MyIps \cup {Broadcast} : Echo(src, dst)
  \/ \E dst \in MyIps \cup {Broadcast}, p \in Ports, peer \in Peers : Syn(dst, p, peer)
  \/ \E c \in Callers, s \in Socks, p \in Ports : Listen(c, s, p)
  \/ \E c \in Callers, s \in Socks, peer \in Peers : Connect(c, s, peer)
  \/ \E c \in Callers, s \in Socks : Close(c, s)

Spec == Init /\ [][Next]_vars

-----------------------------------------------------------------------------
TypeOK ==
  /\ ArpTypeOK /\ TcpTypeOK
  /\ myIp \in MyIps
  /\ ticks \in Ephemeral
  /\ Len(sent) <= 2

(* What the cache resolves is what the network said last, and said once.   *)
CacheNewest == TypeOK /\ OneEntryPerIp /\ NewestWins

(* What goes out bears the address that the NIC has, and goes where its    *)
(* destination last said it is; to the gateway only when the destination   *)
(* never said so or found the table full, and not without asking for it.   *)
WellAddressed ==
  \A k \in 1 .. Len(sent) :
    LET frame == sent[k] IN
    /\ frame.kind = "reply" => frame.about = myIp
    /\ frame.kind = "ip" =>
         /\ frame.src = myIp
         /\ \/ frame.to = told[frame.dst]
            \/ /\ frame.to = GatewayMac
               /\ k = 2 /\ sent[1] = ArpFrame("request", Broadcast, frame.dst)
               /\ told[frame.dst] # NoEntry =>
                    \A i \in Slots : cache[i] # NoEntry /\ cache[i].ip # frame.dst

(* A listening socket whose port no other open socket has is heard,        *)
(* whatever closed sockets were used for.                                  *)
ListenersHear ==
  \A s \in Socks :
    /\ state[s] = "LISTEN"
    /\ \A r \in Socks \ {s} : state[r] # "CLOSED" => port[r] # port[s]
    => Hears(s, port[s])

(* A socket in use is one caller's, and a connection that is one; closed   *)
(* sockets take nothing from those that listen.                            *)
SocketsOwned == SocketsSound /\ HandlesExclusive /\ ListenersHear
=============================================================================
