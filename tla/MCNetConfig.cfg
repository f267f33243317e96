CONSTANTS
  DhcpAddrs = {"d1", "d2"}
  AutoAddrs = {"a1", "a2"}
  Leases = {0, 16, 260}
  Second = 1
  Word = 256
  ProbeNum = 2
  AnnounceNum = 2
  MaxConflicts = 1
SPECIFICATION FairSpec
INVARIANTS HoldingsMatch LeaseKept ProbedFirst
PROPERTIES SettlesUp LeaseObtained
