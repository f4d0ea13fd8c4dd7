SPECIFICATION Safety
CONSTANTS
  None = None
  r1 = r1
  Refs = {r1}
  Requests = {q1}
  Passes = {p1}
  Deliveries <- MCDeliveries
  Delay = 2
  MaxJobs = 1
  MaxFaults = 0
INVARIANT
  FundedByPaystack
CHECK_DEADLOCK FALSE
