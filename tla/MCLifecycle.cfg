\* Starts and stops of the server: three requests, four faults.  A server that
\* has no request left and no fault to come waits for ever.
SPECIFICATION FairLifeSpec
CONSTANTS
  r1 = r1
  r2 = r2
  r3 = r3
  Requests <- ThreeRequests
  MaxFaults = 4
INVARIANTS
  LifeTypeOK
  StoragesOutliveRequests
  RestsOnlyWhileServing
PROPERTIES
  StopIsBounded
  ServesAgain
  SignalEnds
  ServiceSpec
CHECK_DEADLOCK FALSE
