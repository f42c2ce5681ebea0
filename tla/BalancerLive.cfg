SPECIFICATION FairSpec
CONSTANTS
  NumClients = 2
  Limit <- LimitsOne
  Callers = {p1}
  Handles = {h1, h2, h3, h4}
  NoHandle = none
  TicksPerSec = 1
  MaxInt64 = 9
  MaxSent = 2
  Ops = {"CallW"}
  Faults = {"dial", "break"}
PROPERTY NoGlobalStall Reconnects
