SPECIFICATION Spec
CONSTANTS
  Users = {u1, u2}
  Sessions = {s1}
  Tokens = {t1, t2, t3}
  Requests = {q1, q2}
  None = None
  MaxEpoch = 1
  MaxFaults = 1
SYMMETRY Symmetry
INVARIANTS
  OnlyRacedSurvive
  SessionKept
CHECK_DEADLOCK FALSE
