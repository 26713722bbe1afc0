SPECIFICATION LiveSpec
CONSTANTS
  c1 = c1
  c2 = c2
  e1 = e1
  Container = {c1}
  Env = {e1}
  EnvOf <- Unnamed
  ShortId <- ShortIds
  Ip = {a1}
  Addr <- Addrs
  Configs <- OnBlindOff
  Broken = Broken
  Override <- NoAddrs
  Loop = {"main", "docker", "config", "ticker"}
  Proc = {q1}
  MaxGen = 0
  MaxEvents = 1
  MaxChange = 2
PROPERTIES
  TableConverges
  EditPickedUp
