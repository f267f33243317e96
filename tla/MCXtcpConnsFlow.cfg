CONSTANTS
  NumClients = 1
  NumConns = 1
  NumListeners = 2
  MaxGuid = 2
  Ports <- OnePort
  PortUsers <- FirstListens
  Connectors = {}
  Cmds = {"init_send", "abort", "close", "ack_recv_mode", "ack_recv", "pause", "unpause"}
  MaxRtx = 2
  MaxSynRtx = 1
  MaxSend = 1
SPECIFICATION FairSpec
PROPERTIES CloseHappens SendsHappen
