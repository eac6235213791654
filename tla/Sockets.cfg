\* Sockets of both types over one end point; peers that do anything; ports that
\* start over, and callers that bind DNS's.
SPECIFICATION Spec
CONSTANTS
  MAX_SOCKETS = 2
  MAX_TCP_SOCKETS = 1
  MAX_UDP_BINDINGS = 3
  FirstPort = 10
  LastPort = 11
  LastTcpPort = 11
  RemotePort = {1}
  BindPort = {53}
  DnsPort = 53
  DhcpPort = 68
  Types = {"SOCK_STREAM", "SOCK_DGRAM"}
  PeerFlags = {{"SYN","ACK"},{"FIN","ACK"},{"RST"}}
  RxCapacity = 1
INVARIANTS NoLeak OwnBytes BindingsUnique
PROPERTIES OwnersKept
