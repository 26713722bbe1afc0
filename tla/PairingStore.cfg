SPECIFICATION Spec
CONSTANTS
  e1 = e1
  e2 = e2
  c1 = c1
  c2 = c2
  Env = {e1}
  Container = {c1, c2}
  Routes <- Rebuilt
  Code = {k1, k2}
  Token = {t1, t2}
  Proc = {p1, p2}
  HasStore = TRUE
  StoreFaults = TRUE
  CodeTTL = 1
  TokenTTL = 1
  MaxTime = 2
  MaxLate = 2
SYMMETRY Symmetry
INVARIANTS
  TypeOK
  ExpiredNeverAccepted
  
  CodeSingleUse
  TokenProvenance
  OneTokenPerEnv
  DurableUnlessRaced
