CONSTANTS
  SplitThreshold = 4
  MaxSegment = 21
  SeqWrap = 16
  HttpConns = 3
  HttpSlots = 2
  PageLen = 3
  MssValues = {1, 2}
  TxLen = 5
  Lowmark = 3
  Mss = 2
  Messages = {1, 3}
  MaxQueued = 8
  RxLen = 6
  ClientBuf = 3
  Lengths = {1, 2, 5}
  Delimiter = 3
  MaxArrived = 9
  Senders = {"p", "q"}
  NumBlocks = 2
  MaxFileBlocks = 3
  MaxTid = 2
  WriteLens = {0, 3}
  BlMss = 2
  MinLens = {1, 2}
  MaxWrites = 3
  MaxIncoming = 3
  UdpLinks = {1}
  UdpPeers = {"p"}
  UdpSlots = 2
  MaxGuid = 3
  MaxOpens = 2
  MaxGiven = 2
  MaxResets = 0
  ArpHosts = {1, 2, 3}
  ArpMacs = {"a", "b"}
  ArpSize = 2
  ArpMaxAge = 2
  ArpWrap = 4
  Groups = {"g", "h"}
  MaxGroups = 2
  SumWidth = 2
  MaxJoins = 4
  MdnsHosts = {1, 2}
  MaxNames = 4
  MaxQueries = 1
  MaxIfups = 2
  Digit = 4
  EchoType = 2
  Ip4Packets <- Ip4PacketSet
SPECIFICATION Spec
INVARIANTS DoneIsDone UdpAsTold ArpIsCurrent NameIsOwn WireIsRight
PROPERTIES StreamsKept AskedIsDone
CHECK_DEADLOCK FALSE
