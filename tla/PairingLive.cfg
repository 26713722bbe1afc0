SPECIFICATION LiveSpec
CONSTANTS
  e1 = e1
  e2 = e2
  c1 = c1
  c2 = c2
  Env = {e1, e2}
  Container = {c1, c2}
  Routes <- Distinct
  Code = {k1, k2}
  Token = {t1, t2}
  Proc = {p1, p2}
  HasStore = TRUE
  StoreFaults = TRUE
  CodeTTL = 0
  TokenTTL = 1
  MaxTime = 1
  MaxLate = 1
PROPERTIES
  
  ImplementsAuthority
