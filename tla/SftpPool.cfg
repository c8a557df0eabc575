SPECIFICATION FairSpec
CONSTANTS
  Tasks = {"t1", "t2", "t3", "t4"}
  Boxes = {"box"}
  Passwords = {"old", "new"}
  CfgOf <- MCCfgOf
  InitialPassword <- MCInitialPassword
  MaxPerBox = 2
  NoTask = "none"
INVARIANTS TypeOK OwnCredentials NoClientForgotten
PROPERTIES Served ImplementsLeasing
CHECK_DEADLOCK FALSE
