SPECIFICATION Spec
CONSTANTS
  c1 = c1
  c2 = c2
  e1 = e1
  Container = {c1}
  Env = {e1}
  EnvOf <- OneEnv
  ShortId <- ShortIds
  Ip = {a1}
  Addr <- Addrs
  Configs <- OnOnly
  Broken = Broken
  Override <- OnLan
  Loop = {"main", "config"}
  Proc = {}
  MaxGen = 0
  MaxEvents = 1
  MaxChange = 1
INVARIANTS
  AdvertisedAddressIsBound
CHECK_DEADLOCK FALSE
