SPECIFICATION ClientSpec
CONSTANTS
  NumClients = 2
  Limit <- LimitsOne
  Callers = {p1, p2}
  Handles = {h1, h2}
  NoHandle = none
  TicksPerSec = 1
  MaxInt64 = 9
  MaxSent = 2
  Ops = {"CallW", "CallEveryUpstream", "Close"}
  Faults = {"dial"}
  Label <- Labels
INVARIANT LivesUntilClosed
PROPERTY JoinsInTheEnd NoneAbandoned
CHECK_DEADLOCK FALSE
