CONSTANTS
  NumClients = 2
  NumConns = 1
  NumListeners = 2
  MaxGuid = 2
  Ports <- OnePort
  PortUsers <- FirstListens
  Connectors = {1}
  Cmds = {}
  MaxRtx = 1
  MaxSynRtx = 0
  MaxSend = 1
SPECIFICATION Spec
INVARIANT EventToReadyClient
