SPECIFICATION Spec
CONSTANTS
  s1 = s1
  s2 = s2
  a = a
  b = b
  Servers = {s1, s2}
  Clients = {}
  Names = {a, b}
  MaxPorts = 10
  MaxRequests = 1
  ServerType <- TwoServers
  Declared <- OwnsA
  SelfNames = {}
  Parent = NoTask
  NoTask = NoTask
  NoServer = NoServer
  MachInit = MachInit
  NoName = NoName
  Ops = {"check_in", "register", "look_up"}
  Env = {}
INVARIANTS ActiveIffServed InactiveIsBacked PrivilegedCustody RunningCount
PROPERTIES DeletedOnlyIfGone StableBinding
CHECK_DEADLOCK FALSE
