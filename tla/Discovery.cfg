SPECIFICATION Spec
CONSTANTS
  c1 = c1
  tick = tick
  event = event
  Container = {c1}
  Facts <- Known
  HomeOf <- Homes
  Network = {"bridge", "shared"}
  FirstHost <- Hosts
  File <- Files
  Loop = {tick, event}
  Ticker = tick
  MaxHost = 2
  MaxChange = 2
INVARIANTS
  TypeOK
  NoFalseAlarm
  CalmRowsReach
  UsersAgree
 
