CONSTANTS
  NumClients = 1
  NumConns = 2
  NumListeners = 2
  MaxGuid = 3
  Ports <- OnePort
  PortUsers <- FirstListens
  Connectors = {0}
  Cmds = {"close"}
  MaxRtx = 1
  MaxSynRtx = 0
  MaxSend = 1
SPECIFICATION Spec
INVARIANTS HandlesAgree EventsInOrder
