--------------------------------- MODULE Tcp ---------------------------------
(***************************************************************************)
(* The TCP sockets of net/net.c.  A socket that was closed keeps its port  *)
(* and its peer until it is used again.  ESTABLISHED is not reachable, so  *)
(* that tcp_send and tcp_recv never change a socket.                       *)
(***************************************************************************)
EXTENDS Naturals

CONSTANTS MaxTcpSockets,  \* MAX_TCP_SOCKETS, 16
          Ports,          \* ports that are listened on
          Ephemeral,      \* ports that tcp_connect takes from the tick count
          Peers,          \* address, port and sequence number of remote ends
          Callers,        \* those who open sockets
          Nobody

ASSUME TcpAssumption ==
  /\ MaxTcpSockets \in Nat
  /\ Nobody \notin Peers

VARIABLES state,     \* state
          inUse,     \* in_use
          port,      \* local_port
          remote,    \* remote_ip, remote_port and ack
          has,       \* the sockets that each caller has open (history)
          had,       \* those that it has closed (history)
          orderly    \* no caller closed a socket twice (history)

tvars == <<state, inUse, port, remote, has, had, orderly>>

Socks == 0 .. MaxTcpSockets - 1

(* tcp_init *)
TcpInit ==
  /\ state = [s \in Socks |-> "CLOSED"]
  /\ inUse = [s \in Socks |-> FALSE]
  /\ port = [s \in Socks |-> 0]
  /\ remote = [s \in Socks |-> Nobody]
  /\ has = [c \in Callers |-> {}]
  /\ had = [c \in Callers |-> {}]
  /\ orderly = TRUE

(* Mutant: only listening sockets are passed over. *)
FirstNotListening(s) == state[s] # "LISTEN" /\ \A r \in 0 .. s - 1 : state[r] = "LISTEN"

FirstUnused(s) == ~inUse[s] /\ \A r \in 0 .. s - 1 : inUse[r]

Opened(c, s) ==
  /\ inUse' = [inUse EXCEPT ![s] = TRUE]
  /\ has' = [has EXCEPT ![c] = @ \cup {s}]
  /\ had' = [had EXCEPT ![c] = @ \ {s}]
  /\ UNCHANGED orderly

TcpListen(c, s, p) ==
  /\ FirstUnused(s)
  /\ Opened(c, s)
  /\ state' = [state EXCEPT ![s] = "LISTEN"]
  /\ port' = [port EXCEPT ![s] = p]
  /\ UNCHANGED remote

TcpConnect(c, s, p, peer) ==
  /\ FirstUnused(s)
  /\ Opened(c, s)
  /\ state' = [state EXCEPT ![s] = "SYN_SENT"]
  /\ port' = [port EXCEPT ![s] = p]
  /\ remote' = [remote EXCEPT ![s] = peer]

Shut(s) ==
  /\ state' = [state EXCEPT ![s] = "CLOSED"]
  /\ inUse' = [inUse EXCEPT ![s] = FALSE]

(* tcp_close of a socket that the caller has, or had: nothing tells the    *)
(* two apart.                                                              *)
TcpClose(c, s) ==
  /\ s \in has[c] \cup had[c]
  /\ Shut(s)
  /\ has' = [has EXCEPT ![c] = @ \ {s}]
  /\ had' = [had EXCEPT ![c] = @ \cup {s}]
  /\ orderly' = (orderly /\ s \in has[c])
  /\ UNCHANGED <<port, remote>>

(* The socket that a segment is for: the first in use with its port. *)
Hears(s, p) ==
  /\ inUse[s] /\ port[s] = p
  /\ \A r \in 0 .. s - 1 : inUse[r] => port[r] # p

(* Mutant: a connection that is being opened starts again. *)
AcceptAgain(s, peer) ==
  /\ state[s] \in {"LISTEN", "SYN_RCVD"}
  /\ state' = [state EXCEPT ![s] = "SYN_RCVD"]
  /\ remote' = [remote EXCEPT ![s] = peer]

Accept(s, peer) ==
  /\ state[s] = "LISTEN"
  /\ state' = [state EXCEPT ![s] = "SYN_RCVD"]
  /\ remote' = [remote EXCEPT ![s] = peer]

(* tcp_process of a segment with SYN set; any other changes nothing. *)
TcpSyn(p, peer) ==
  /\ \E s \in Socks : Hears(s, p) /\ Accept(s, peer)
  /\ UNCHANGED <<inUse, port, has, had, orderly>>

-----------------------------------------------------------------------------
TcpTypeOK ==
  /\ state \in [Socks -> {"CLOSED", "LISTEN", "SYN_SENT", "SYN_RCVD"}]
  /\ inUse \in [Socks -> BOOLEAN]
  /\ port \in [Socks -> Ports \cup Ephemeral \cup {0}]
  /\ remote \in [Socks -> Peers \cup {Nobody}]
  /\ has \in [Callers -> SUBSET Socks]
  /\ had \in [Callers -> SUBSET Socks]
  /\ orderly \in BOOLEAN

(* A socket is CLOSED exactly when it may be used again, and a connection  *)
(* has a peer.                                                             *)
SocketsSound ==
  \A s \in Socks :
    /\ inUse[s] <=> state[s] # "CLOSED"
    /\ state[s] \in {"SYN_SENT", "SYN_RCVD"} => remote[s] # Nobody

(* Callers that close what they opened, once, never share a socket, no     *)
(* matter how slots are used again, and none is in use without a caller.   *)
HandlesExclusive ==
  orderly =>
    \A s \in Socks :
      /\ \A c, d \in Callers : s \in has[c] \cap has[d] => c = d
      /\ inUse[s] <=> \E c \in Callers : s \in has[c]

(* The peer of a connection stays the one that it was opened with, however *)
(* often segments are repeated, delayed or addressed to the port by others.*)
PeerFixed ==
  [][\A s \in Socks :
       state[s] \in {"SYN_SENT", "SYN_RCVD"} /\ inUse[s] /\ inUse'[s]
         => remote'[s] = remote[s] /\ port'[s] = port[s] /\ state'[s] = state[s]]_tvars
=============================================================================
