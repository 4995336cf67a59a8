SPECIFICATION Spec
CONSTANTS
  l1 = l1
  l2 = l2
  p1 = p1
  p2 = p2
  p3 = p3
  p4 = p4
  Line = {l1, l2}
  OnError = {l1}
  OnOption = {l1}
  Pid = {p1, p2, p3, p4}
  NoPid = NoPid
  NoLine = NoLine
  NoSession = NoSession
  MaxSignals = 2
  MaxFailures = 0
  MaxOrphans = 0
  Signals = {"HUP", "TERM", "TSTP"}
  Entries = {"on", "off"}
  Env = {}
SYMMETRY Numbers
INVARIANTS TypeOK OneLoginPerLine DataBaseAgrees
PROPERTIES FitsExit NoLoginAfterShutdown DeathIsThorough
CHECK_DEADLOCK FALSE
