SPECIFICATION Spec
CONSTANTS
  Container = {"c1", "c2"}
  Owner <- AllOfOne
  Order <- GoodOnly
  Name = {"good"}
  ManagerKind <- MissingEnd
  ContainerKind <- Directory
  Loop = {"ticker", "docker"}
  MaxLeft = 2
  MaxChange = 2
INVARIANTS
  NilNeverUsed
  ReadyIsReal
PROPERTIES
  OnlyUndesiredTerminated
  NeverDuplicates
