SPECIFICATION Spec
CONSTANTS
  Books = {b}
  Users = {u}
  Objects = {o1, o2, o3, o4, o5}
  Requests = {q1, q2, q3}
  None = None
  MaxFaults = 1
SYMMETRY Symmetry
INVARIANTS
  NoDangling
  OrphansExplained
CHECK_DEADLOCK FALSE
