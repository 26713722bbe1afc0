SPECIFICATION Spec
CONSTANTS
  r1 = r1
  r2 = r2
  p0 = p0
  w1 = w1
  Req = {r1, r2}
  Path <- Paths
  Workspace = {w1}
  Clean <- Cleaned
  Body <- Bodies
  Size <- Sizes
  MaxSize = 2
  Initial <- Start
  MaxGen = 2
  MaxFault = 2
INVARIANTS
  TypeOK
  CommandsOnce
  RefreshesBounded
  OneProject
  ScopeInPlace
PROPERTY ImplementsPromise
CHECK_DEADLOCK FALSE
