SPECIFICATION Spec
CONSTANTS
  NumClients = 2
  Limit <- LimitsOne
  Callers = {p1, p2}
  Handles = {h1, h2, h3, h4}
  NoHandle = none
  TicksPerSec = 1
  MaxInt64 = 9
  MaxSent = 2
  Ops = {"Call", "Close"}
  Faults = {"dial", "break"}
SYMMETRY Symmetry
INVARIANT TypeOK RotationOrdered NoLostUpstream MarkedIsUp
