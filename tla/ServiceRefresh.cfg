SPECIFICATION Spec
CONSTANTS
  c1 = c1
  c2 = c2
  e1 = e1
  Container = {c1}
  Env = {e1}
  EnvOf <- Unnamed
  ShortId <- ShortIds
  Ip = {a1}
  Addr <- Addrs
  Configs <- OnOnly
  Broken = Broken
  Override <- NoAddrs
  Loop = {"main", "ticker"}
  Proc = {q1}
  MaxGen = 1
  MaxEvents = 1
  MaxChange = 1
INVARIANTS
  RefreshedTokenSticks
