SPECIFICATION Safety
CONSTANTS
  Books = {b1}
  Bogus = Bogus
  Carts = {{b1}, {b1, Bogus}}
  Prices = {1, 2}
  Orders = {o1, o2}
  Rows = {p1}
  Requests = {r1, r2}
  None = None
  Funds = 4
  MaxFaults = 1
INVARIANTS
  CheckoutIsWhole
  ChargedInFull
  FailedWithReason
SYMMETRY Symmetry
