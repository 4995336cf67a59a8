SPECIFICATION FairSpec
CONSTANTS
  l1 = l1
  l2 = l2
  p1 = p1
  p2 = p2
  p3 = p3
  p4 = p4
  Line = {l1}
  OnError = {l1}
  OnOption = {l1}
  Pid = {p1, p2}
  NoPid = NoPid
  NoLine = NoLine
  NoSession = NoSession
  MaxSignals = 1
  MaxFailures = 1
  MaxOrphans = 1
  Signals = {"HUP", "TERM", "TSTP"}
  Entries = {"on", "off", "none"}
  Env = {"stuck", "stop", "full"}
PROPERTIES KeepsDiagram LinesServed DeathEnds
CHECK_DEADLOCK FALSE
