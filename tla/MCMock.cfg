\* The storage of the tests: three concurrent calls.  They are made once each.
SPECIFICATION FairMockSpec
CONSTANTS
  c1 = c1
  c2 = c2
  c3 = c3
  s1 = s1
  s2 = s2
  Calls <- ThreeCalls
  Subnets <- TwoSubnets
  BadNames <- OneBadName
INVARIANTS
  MockTypeOK
  OnlyRemovesRace
  IdsTellOrder
  LockNeverStuck
PROPERTIES
  LeakFreezesMaps
  CallsEndUnlessLeaked
  StoreSpec
CHECK_DEADLOCK FALSE
