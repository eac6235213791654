\* Late answers, waiting sends, DHCP, the card's rings and the checksum.
SPECIFICATION MCSpec
CONSTANTS
  Host = {"h1", "h2"}
  BuiltIn = {"h2"}
  Numbers = 3
  MaxLate = 2
  PollsRunOut = FALSE
  MaxRequests = 4
  Peer = {"p", "gw"}
  Gateway = "gw"
  Far = {"far"}
  Server = {"s1", "s2"}
  Partial = {"s2"}
  ARP_CACHE_SIZE = 1
  Polls = 1
  MaxPackets = 5
  Words = {0, 1, 32767, 32768, 65534, 65535}
  NUM_RX_DESC = 3
  NUM_TX_DESC = 3
  MaxArrivals = 9
  MaxSent = 9
INVARIANTS  LinkSound RingsFaithful
PROPERTIES SendsEnd
CHECK_DEADLOCK FALSE
