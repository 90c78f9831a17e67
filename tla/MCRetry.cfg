\* Retries, in fair behaviours: two requests with one login, one password and one
\* IP, two attempts per INCR, no list calls.
SPECIFICATION FairAppSpec
CONSTANTS
  r1 = r1
  r2 = r2
  c1 = c1
  c2 = c2
  s1 = s1
  s2 = s2
  x = x
  Calls = {}
  Subnets = {}
  ValidSubnets = {}
  Covers = {}
  Requests <- TwoRequests
  Logins <- OneValue
  Passwords <- OneValue
  IPs <- OneValue
  limitLogin = 2
  limitPassword = 1
  limitIP = 1
  MaxAttempts = 2
  MaxInFlight = 1
INVARIANTS
  AppTypeOK
  WindowBudget
  AnswerBudget
PROPERTIES
  LimitedOnlyWhenSpent
  BudgetSpec
  WorkIsBounded
  EveryRequestEnds
