CONSTANTS
  NumClients = 2
  Cmds = {"plain", "push", "pull"}
  Jobs = {"event", "recv", "send"}
SPECIFICATION Spec
INVARIANTS InStep NotifiedMeansOwed LastIfStateSeen
