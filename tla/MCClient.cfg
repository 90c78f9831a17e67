\* The client with a server whose root route answers "pong"; it ends at its exit.
SPECIFICATION FairClientSpec
CONSTANTS
  s1 = s1
  Calls = {1, 2, 3}
  Subnets <- OneSubnet
  ValidSubnets <- OneSubnet
  RootAnswer = "pong"
  UserCommands <- MCCommands
  MaxStray = 1
INVARIANTS
  ClientTypeOK
  SuccessIsTrue
  ReadsOwnWrites
  BothListsOnlyAfterError
  AtMostOneAfterSignal
PROPERTIES
  CommandsAreAnswered
  SignalEndsClient
CHECK_DEADLOCK FALSE
