SPECIFICATION PaymentsSpec
CONSTANTS
  None = None
  r1 = r1
  Refs = {r1}
  Requests = {q1, q2}
  Passes = {p1, p2}
  Deliveries <- MCDeliveries
  Delay = 2
  MaxJobs = 2
  MaxFaults = 1
  Withdrawals = {w1, w2}
  Amounts = {0, 3, 10}
  Deposits = {9, 12}
  MaxDeposit = 21
  MaxFailures = 2
INVARIANTS
  OnePassAtATime
  AttemptedInOrder
  PendingOnlyIfThrown
  FailedOnlyIfReported
  DebitFollowsPayout
  PaystackNeverDebited
  OverdraftTakesTwo
PROPERTIES
  FailedChargeSettles
  KeepsPromise
  DecidedForGood
  ConfirmedIsDecided
CHECK_DEADLOCK FALSE
