SPECIFICATION Spec
CONSTANTS
  f1 = f1
  f2 = f2
  Files = {f1}
  MaxBlocks = 1
  Modulus = 4
  MaxTries = 2
  MaxServers = 1
  MaxTransfers = 1
  Losable = {"ACK"}
  NoFile = NoFile
  Hole = Hole
  Old = Old
CHECK_DEADLOCK FALSE
PROPERTY FinalAckIsRepeated
