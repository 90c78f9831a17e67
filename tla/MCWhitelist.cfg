\* The lists and the checks together: one request whose IP
\* two overlapping subnets contain.
SPECIFICATION AppSpec
CONSTANTS
  r1 = r1
  r2 = r2
  c1 = c1
  c2 = c2
  s1 = s1
  s2 = s2
  x = x
  Calls <- TwoCalls
  Subnets <- TwoSubnets
  ValidSubnets <- TwoSubnets
  Covers <- Overlapping
  Requests <- OneRequest
  Logins <- OneValue
  Passwords <- OneValue
  IPs <- OneValue
  limitLogin = 1
  limitPassword = 1
  limitIP = 1
  MaxAttempts = 1
  MaxInFlight = 1
SYMMETRY CallSymmetry
INVARIANTS
  WhitelistUnconditional
