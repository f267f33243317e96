CONSTANTS
  NumClients = 1
  Cmds = {"plain"}
  Jobs = {"event", "recv"}
SPECIFICATION IgnoreSpec
INVARIANT IgnoreKeepsLinkInStep
