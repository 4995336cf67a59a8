SPECIFICATION FairSpec
CONSTANTS
  s1 = s1
  s2 = s2
  a = a
  b = b
  Servers = {s1}
  Clients = {}
  Names = {a}
  MaxPorts = 10
  MaxRequests = 1
  ServerType <- OneServer
  Declared <- OwnsA
  SelfNames = {}
  Parent = NoTask
  NoTask = NoTask
  NoServer = NoServer
  MachInit = MachInit
  NoName = NoName
  Ops = {"check_in", "register", "look_up", "create_service"}
  Env = {}
PROPERTIES KeepsPromise RestartableComesBack
CHECK_DEADLOCK FALSE
