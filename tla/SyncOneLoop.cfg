SPECIFICATION LiveSpec
CONSTANTS
  Container = {"c1", "c2"}
  Owner <- AllOfOne
  Order <- BadFirst
  Name = {"good", "bad"}
  ManagerKind <- MissingEnd
  ContainerKind <- Directory
  Loop = {"ticker"}
  MaxLeft = 2
  MaxChange = 2
INVARIANTS
  TypeOK
  ErrorsSurface
  EntriesCarriedOut
PROPERTIES
  SessionsSettle
  CardsSettle
