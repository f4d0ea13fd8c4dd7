SPECIFICATION Spec
CONSTANTS
  Books = {b1}
  Bogus = Bogus
  Carts = {{b1}}
  Prices = {1, 2}
  Orders = {o1}
  Rows = {p1}
  Requests = {r1}
  None = None
  Funds = 4
  MaxFaults = 0
PROPERTY
  WalletPays
