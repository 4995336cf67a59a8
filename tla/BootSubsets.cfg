SPECIFICATION FairSpec
CONSTANTS
  s1 = s1
  s2 = s2
  a = a
  b = b
  Servers = {}
  Clients = {c1}
  Names = {a, b}
  MaxPorts = 7
  MaxRequests = 1
  ServerType <- NoServers
  Declared <- FreeA
  SelfNames = {b}
  Parent = NoTask
  NoTask = NoTask
  NoServer = NoServer
  MachInit = MachInit
  NoName = NoName
  Ops = {"register", "look_up", "subset"}
  Env = {}
INVARIANTS UniqueNames NoOrphans DeathIsNoticed
PROPERTIES SubsetReaped
CHECK_DEADLOCK FALSE
