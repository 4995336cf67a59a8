SPECIFICATION Spec
CONSTANTS
  SLAVES = 3
  ntrec = 2
  Total = 8
  Kinds <- SomeKinds
  Rooms <- SomeRooms
  Limits = {0, 3}
INVARIANTS LeftOverIsCopied
CHECK_DEADLOCK FALSE
