SPECIFICATION Spec
CONSTANTS
  c1 = c1
  c2 = c2
  e1 = e1
  Container = {c1, c2}
  Env = {e1}
  EnvOf <- OneEnv
  ShortId <- ShortIds
  Ip = {a1, a2}
  Addr <- Addrs
  Configs <- OnOnly
  Broken = Broken
  Override <- NoAddrs
  Loop = {"main", "config", "ticker"}
  Proc = {q1}
  MaxGen = 1
  MaxEvents = 1
  MaxChange = 3
SYMMETRY Alike
INVARIANTS
  TypeOK
  TokenOwner
  RoutableRows
PROPERTIES
  TokenKept
