\* Three calls for two addresses, nothing fails and nothing is evicted.
SPECIFICATION Spec
CONSTANTS
  c1 = c1
  c2 = c2
  c3 = c3
  p = p
  q = q
  bad = bad
  Callers <- ThreeCallers
  Addrs <- TwoAddrs
  Valid <- OnePair
  Capacity = 2
  MayFail = FALSE
INVARIANTS SingleFlight
PROPERTY AllReturn
