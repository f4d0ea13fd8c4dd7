SPECIFICATION Spec
CONSTANTS
  Users = {u1, u2}
  Addresses = {a1, a2, a3}
  Googles = {g}
  Requests = {r1, r2}
  None = None
  MaxCodes = 2
  a1 = a1
  EmailOf <- GoogleEmails
SYMMETRY Symmetric
INVARIANTS
  AddressProven
  WayIn
PROPERTIES
  CodeKept
  PendingKept
