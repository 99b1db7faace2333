SPECIFICATION Spec
CONSTANTS
  ana = ana  ben = ben  grid = grid  k1 = k1  k2 = k2
  Admin = grid
  I128Max = 100000
  Accounts = {ana, ben, grid}
  Funds <- Tens
  Keys = {k1, k2}
  Readings <- SubmittedReadings
  Signatures <- DeviceSignatures
  Lists <- EachOnce
  Prices = {600}
  Fees = {1000, 10001}
  Allowances = {2}
  TempTtl = 2
  MaxMeters = 2
INVARIANTS TypeOK NoReplay DeviceBinding EnergyLedger
PROPERTIES StaleForGood OwnEnergyOnly KeepsTheGate
CHECK_DEADLOCK FALSE
