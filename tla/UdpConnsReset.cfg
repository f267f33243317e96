CONSTANTS
  UdpLinks = {1}
  UdpPeers = {"p"}
  UdpSlots = 2
  MaxGuid = 3
  MaxOpens = 2
  MaxGiven = 2
  MaxResets = 1
SPECIFICATION UdpResetSpec
INVARIANT SentWasSent
CHECK_DEADLOCK FALSE
