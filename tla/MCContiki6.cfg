CONSTANTS
  Procs = {"p", "q"}
  NumEvents = 1
  MaxCalls = 3
  Ctimers = {"c"}
  Wrap = 7
  Intervals = {2}
  QueueLen = 2
  MaxLag = 1
  MaxSets = 3
  Nets = {"n", "m"}
  AddrNb = 2
  PrefixNb = 2
  MaxDadNs = 1
  MaxRs = 1
  TwoHours = 2
  Validlts = {0, 1, 3}
  DadRetrans = 1
  MaxClaims = 2
  Routers = {"a", "b"}
  LongLife = 2
  ShortLife = 1
  MaxInFlight = 1
  IntMin = 1
  Doublings = 1
  Redundancy = 2
SPECIFICATION Spec
INVARIANTS NoDuplicateUse
PROPERTIES ProcessesServed CallbackOnTime DadEnds DeadIsForgotten NewsIsSent
CHECK_DEADLOCK FALSE
