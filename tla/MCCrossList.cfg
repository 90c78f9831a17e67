\* Calls are made once each, so the system stops when all are settled.
SPECIFICATION ListsSpec
CHECK_DEADLOCK FALSE
CONSTANTS
  c1 = c1
  c2 = c2
  c3 = c3
  s1 = s1
  s2 = s2
  bad = bad
  Calls <- MCCalls
  Subnets <- MCSubnets
  ValidSubnets <- MCValidSubnets
SYMMETRY MCSymmetry
INVARIANTS
  NoSubnetInBothLists
