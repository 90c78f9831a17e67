\* Two requests beside a ticker whose call may take as long as the period.
SPECIFICATION TickerSpec
CONSTANTS
  r1 = r1
  r2 = r2
  x = x
  Calls = {}
  Subnets = {}
  ValidSubnets = {}
  Covers = {}
  Requests <- TwoRequests
  Logins <- OneValue
  Passwords <- OneValue
  IPs <- OneValue
  limitLogin = 1
  limitPassword = 1
  limitIP = 1
  MaxAttempts = 1
  MaxInFlight = 1
  Period = 2
  FlushTime = 2
  MaxLate = 1
  MaxFails = 1
SYMMETRY PairSymmetry
INVARIANTS
  CountsAreForgotten
