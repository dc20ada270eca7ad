\* Three calls for three addresses in a cache of two, any of which may fail.
SPECIFICATION Spec
CONSTANTS
  c1 = c1
  c2 = c2
  c3 = c3
  p = p
  q = q
  bad = bad
  Callers <- ThreeCallers
  Addrs <- ThreeAddrs
  Valid <- TwoPairs
  Capacity = 2
  MayFail = TRUE
SYMMETRY Symmetry
INVARIANTS TypeOK ResultComplete WaitsServed
