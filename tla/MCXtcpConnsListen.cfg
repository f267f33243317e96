CONSTANTS
  NumClients = 2
  NumConns = 2
  NumListeners = 2
  MaxGuid = 3
  Ports <- TwoPorts
  PortUsers <- EachListens
  Connectors = {}
  Cmds = {}
  MaxRtx = 1
  MaxSynRtx = 0
  MaxSend = 1
SPECIFICATION Spec
INVARIANT ListenersServed
