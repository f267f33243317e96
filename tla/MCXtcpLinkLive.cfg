CONSTANTS
  NumClients = 2
  Cmds = {"plain"}
  Jobs = {"recv"}
SPECIFICATION FairSpec
PROPERTIES EventsAreTaken CommandsReturn IfStateReachesAll
