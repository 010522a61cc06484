CONSTANTS
  ArpCacheSize = 2
  Ips = {h1, h2, h3}
  Macs = {m1, m2}
  NoEntry = NoEntry
  MaxTcpSockets = 2
  Ports = {2}
  Ephemeral = {2, 3}
  Peers = {p1, p2}
  Callers = {c1, c2}
  Nobody = Nobody
  MyIps = {a1, a2}
  Broadcast = Broadcast
  GatewayMac = GatewayMac
SPECIFICATION Spec
INVARIANTS CacheNewest SocketsOwned WellAddressed
PROPERTY PeerFixed
SYMMETRY Symmetry
