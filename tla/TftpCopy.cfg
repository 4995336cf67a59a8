SPECIFICATION FairSpec
CONSTANTS
  f1 = f1
  f2 = f2
  Files = {f1}
  MaxBlocks = 3
  Modulus = 3
  MaxTries = 2
  MaxServers = 2
  MaxTransfers = 1
  Losable = {"ERROR"}
  NoFile = NoFile
  Hole = Hole
  Old = Old
INVARIANTS TypeOK SuccessIsWhole InOrder Lockstep
CHECK_DEADLOCK FALSE
PROPERTIES Ends CopiesFile
