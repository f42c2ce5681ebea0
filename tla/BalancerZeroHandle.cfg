SPECIFICATION Spec
CONSTANTS
  NumClients = 2
  Limit <- LimitsOne
  Callers = {p1, p2}
  Handles = {h1, h2, h3, h4, h5}
  NoHandle = none
  TicksPerSec = 1
  MaxInt64 = 9
  MaxSent = 2
  Ops = {"Call"}
  Faults = {"dial", "break"}
INVARIANT OpGetsAvailableClient
