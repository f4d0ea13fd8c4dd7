SPECIFICATION Spec
CONSTANTS
  Hashes = {h1, h2}
  Callers = {c1}
  Processor = Processor
  None = None
  MaxFaults = 1
INVARIANTS
  CreditsBounded
  SettledIsCredited
  CreditedIsConfirmed
PROPERTIES
  SettledForGood
  SettledOnceFaultsStop
