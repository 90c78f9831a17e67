\* Two requests of one login and one IP, with limits of one, and a ticker that may be
\* late, sends FLUSHDB again and loses some until later.  The clock is bounded, so the system stops.
SPECIFICATION WindowSpec
CHECK_DEADLOCK FALSE
CONSTANTS
  r1 = r1
  r2 = r2
  x = x
  Calls = {}
  Subnets = {}
  ValidSubnets = {}
  Covers = {}
  Requests <- TwoRequests
  Logins <- OneValue
  Passwords <- OneValue
  IPs <- OneValue
  limitLogin = 1
  limitPassword = 2
  limitIP = 1
  MaxAttempts = 1
  MaxInFlight = 0
  Period = 1
  FlushTime = 1
  MaxLate = 1
  MaxFails = 0
  Deadline = 1
  MaxTime = 2
SYMMETRY PairSymmetry
INVARIANTS
  AtMostLimitPerWindow
