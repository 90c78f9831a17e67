\* The start of the client with the server as it is; it ends in a panic.
SPECIFICATION StartSpec
CONSTANTS
  s1 = s1
  Calls = {1, 2, 3}
  Subnets <- OneSubnet
  ValidSubnets <- OneSubnet
  RootAnswer <- HelloWorld
  UserCommands <- MCCommands
  MaxStray = 1
INVARIANT ServerIsAvailable
CHECK_DEADLOCK FALSE
