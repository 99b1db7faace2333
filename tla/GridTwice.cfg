SPECIFICATION Spec
CONSTANTS
  ana = ana  ben = ben  grid = grid  k1 = k1  k2 = k2
  Admin = grid
  I128Max = 100000
  Accounts = {ana, ben, grid}
  Funds <- Tens
  Keys = {k1}
  Readings <- HomeReadings
  Signatures <- HomeSignatures
  Lists <- Repeated
  Prices = {600}
  Fees = {1000}
  Allowances = {2}
  TempTtl = 2
  MaxMeters = 2
PROPERTIES OwnEnergyOnly
CHECK_DEADLOCK FALSE
