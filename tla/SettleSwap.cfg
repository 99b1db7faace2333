SPECIFICATION Spec
CONSTANTS
  solar = solar  wind = wind  home = home  mill = mill  grid = grid
  Admin = grid
  I128Max = 2500000
  MeterIds = {1, 2, 3, 4}
  Accounts = {solar, wind, home, mill, grid}
  Windows <- ManyWindows
  Wallets <- AmpleOrShort
INVARIANTS IInv ExactSwap RoundedFairly TradedAtTariff DustOnly
PROPERTIES RunIsAtomic Terminates
CHECK_DEADLOCK FALSE
