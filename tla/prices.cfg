SPECIFICATION FairPricesSpec
CONSTANTS
  Conversions = {c1}
  Rates <- TwoRates
  NoRate = NoRate
  MaxSetbacks = 3
  Feeds <- BothFeeds
  Interval <- Intervals
  TTL <- TTLs
  Latency <- Latencies
INVARIANTS
  ColdOnlyWhile
  RatesAgree
PROPERTIES
  StaysWarm
