SPECIFICATION Spec
CONSTANTS
  Unset = Unset  Blank = Blank  Invalid = Invalid
  deployed = deployed  secret = secret
  Environments <- Monthly
  Jumps = {1, 1000}
PROPERTIES OnCadence
CHECK_DEADLOCK FALSE
