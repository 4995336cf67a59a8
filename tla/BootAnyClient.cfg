SPECIFICATION Spec
CONSTANTS
  s1 = s1
  s2 = s2
  a = a
  b = b
  Servers = {s1, s2}
  Clients = {c1}
  Names = {a}
  MaxPorts = 9
  MaxRequests = 1
  ServerType <- WithInit
  Declared <- OwnsA
  SelfNames = {}
  Parent = c1
  NoTask = NoTask
  NoServer = NoServer
  MachInit = MachInit
  NoName = NoName
  Ops = {"check_in", "register", "look_up", "look_up_array", "status", "info", "subset", "create_service"}
  Env = {"alias", "sharedreq", "taskreq", "deadreply", "forkfail", "earlyexit", "debuginit", "uaf"}
INVARIANT Inv
CHECK_DEADLOCK FALSE
