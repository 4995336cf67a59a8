SPECIFICATION Spec
CONSTANTS
  String <- MCString
  Files <- MCFiles
  DefaultFile <- MCDefault
INVARIANTS DeclaresTheFile Bootable
PROPERTY BootsIfNoStray
CHECK_DEADLOCK FALSE
