SPECIFICATION Spec
CONSTANTS
  Requests = {r1, r2}
  Expiration = 2
  MaxCall = 2
  Complete = {TRUE, FALSE}
  MaxNow = 5
CHECK_DEADLOCK FALSE
INVARIANT TypeOK IntentIsWhole FeesAreFresh
