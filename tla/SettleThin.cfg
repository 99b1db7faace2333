SPECIFICATION Spec
CONSTANTS
  solar = solar  wind = wind  home = home  mill = mill  grid = grid
  Admin = grid
  I128Max = 1000000000
  MeterIds = {1, 2, 3, 4}
  Accounts = {solar, wind, home, mill, grid}
  Windows <- ThinWindows
  Wallets <- Ample
INVARIANTS ProducersGetThePool
CHECK_DEADLOCK FALSE
