\* Two requests for an IP limit of one, one on either side of a flush of the ticker.
SPECIFICATION SteadySpec
CHECK_DEADLOCK FALSE
CONSTANTS
  r1 = r1
  r2 = r2
  x = x
  Calls = {}
  Subnets = {}
  ValidSubnets = {}
  Covers = {}
  Requests <- TwoRequests
  Logins <- OneValue
  Passwords <- OneValue
  IPs <- OneValue
  limitLogin = 2
  limitPassword = 2
  limitIP = 1
  MaxAttempts = 1
  MaxInFlight = 0
  Period = 3
  FlushTime = 1
  MaxLate = 0
  MaxFails = 0
  Deadline = 2
  MaxTime = 5
SYMMETRY PairSymmetry
INVARIANT AtMostLimitPerPeriod
