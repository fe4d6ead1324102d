SPECIFICATION MCSpec
CONSTANTS
  c0 = c0
  c1 = c1
  p1 = p1
  p2 = p2
  h1 = h1
  h2 = h2
  CPUs = {c0, c1}
  NoCpu = NoCpu
  Allocators = {c0, c1}
  HeapWords = 18
  Requests = {0, 9, 33}
  Locked = TRUE
  MaxLive = 4
  MaxCalls = 2
INVARIANTS HeapIntact NullOnlyIfFull UsedExact FreeMeansUncounted OneInside  HostImageExact Arm64Exact
PROPERTIES CallsReturn 
