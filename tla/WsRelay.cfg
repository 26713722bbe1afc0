SPECIFICATION Spec
CONSTANTS
  Buffer = 1
  MaxSent = 3
INVARIANTS
  TypeOK
  LastWords
  NeverStuck
PROPERTIES
  NoLeak
  NearsEnd
CHECK_DEADLOCK FALSE
