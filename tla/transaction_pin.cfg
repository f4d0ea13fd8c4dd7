SPECIFICATION Spec
CONSTANTS
  Pins = {p1, p2}
  Codes = {c1, c2}
  Requests = {q1, q2}
  None = None
  Limit = 3
  MaxFaults = 1
SYMMETRY Symmetry
INVARIANTS
  AttemptsBounded
  ClockRuns
  SpentForGood
  ReplacedKnowingly
CHECK_DEADLOCK FALSE
