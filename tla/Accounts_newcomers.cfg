SPECIFICATION Spec
CONSTANTS
  People = {a, b}
  Owner = a
  x = x
  X = X
  Addresses = {x, X}
  Lower <- MCLower
  Sleeper = sleeper
  Demo = demo
  l1 = l1
  l2 = l2
  AtSleeper <- MCAtSleeper
  DemoLeague = l0
  Requests = {r1, r2}
  MaxImport = 1
  Limit = 1
  Window = 1
  MaxKeys = 1
  MaxMishaps = 1
INVARIANTS
  SavedOnce
  WindowHolds
PROPERTIES
  EveryLeagueArrives
