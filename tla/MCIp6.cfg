CONSTANTS
  Base = 3
  Mss = 2
  MaxRtx = 1
  Rto = 0
  TimeWait = 1
  PeerWnds = {3}
  MaxApp = 2
  MaxPeer = 2
  NetIn = 1
  NetOut = 1
  Datagrams = {1, 3}
  DatagramLength <- DatagramLengths
  BitsPerByte = 2
  ReassBufsize = 4
  Packets <- PacketSet
  Addrs = {"ll", "global"}
  LinkLocalAddr = "ll"
  OutNbrs = {"m", "n"}
  MaxDad = 1
  MaxMulticastNs = 3
  Hops = {"a", "b", "c"}
  NbrEntries = 2
  MaxQueued = 2
  Items = {"a", "b", "c", "d"}
  MaxNeighbors = 2
  RouteNb = 2
  Lladdrs = {"A", "B"}
  NextHops = {"a", "b"}
  Dests <- NetAndHost
  NbrIps = {"r", "h"}
  NbrLls = {"L"}
  NbrSlots = 2
  DefrtNb = 1
  MaxSolicit = 1
  RetransTime = 1
  ReachableTime = 1
  DelayTime = 1
  RouterTime = 2
  NumParents = 2
  Dios <- DioSet
  Metrics = {1, 3}
  MinDiff = 1
  RootRank = 1
  MaxRankInc = 1
  InfiniteRank = 6
  LolMax = 7
  LolCircular = 3
  LolWindow = 2
  NumNodes = 3
  NodeRanks = {1, 2}
  MaxHops = 7
SPECIFICATION Spec
INVARIANTS ToldIsTrue  InputAsSpecified AskedOnTheLink QueuedOnce
  ListWalks RoutesKept AttachedOnce LoopIsSeen
PROPERTIES Tcp6Streams NeighboursUsable
CHECK_DEADLOCK FALSE
