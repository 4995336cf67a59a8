SPECIFICATION FairSpec
CONSTANTS
  SLAVES = 3
  ntrec = 2
  Total = 8
  Kinds <- SomeKinds
  Rooms <- SomeRooms
  Limits = {0, 3}
INVARIANTS TypeOK OneTurn RestoresInOrder
PROPERTIES Finishes
CHECK_DEADLOCK FALSE
