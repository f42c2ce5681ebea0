SPECIFICATION Spec
CONSTANTS
  NumClients = 3
  Limit <- LimitsEqual
  Callers = {p1, p2}
  Handles = {h1, h2, h3, h4, h5, h6}
  NoHandle = none
  TicksPerSec = 2
  MaxInt64 = 9
  MaxSent = 2
  Ops = {"Call", "CallW", "CallEveryUpstream"}
  Faults = {}
SYMMETRY Symmetry
INVARIANT EvenLoad RefusedOnlyWhenUsed CalendarRate
PROPERTY ImplementsQuota
