SPECIFICATION Spec
CONSTANTS
  Author = author
  Admins = {admin}
  Public = public
  Lists = {"public"}
  Requests = {q1, q2}
  None = None
  MaxWrites = 3
  MaxFaults = 1
INVARIANTS
  PublicServed
PROPERTIES
  BanHolds
  CacheSettles
CHECK_DEADLOCK FALSE
