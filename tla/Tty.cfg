SPECIFICATION Spec
CONSTANTS
  Pids = {p1, p2, p3}
  NoPid = NoPid
  Capacity = 3
  Counts = {0, 1, 4}
  MaxKeys = 4
INVARIANTS  NoStrandedInput LinesExact
SYMMETRY Interchangeable
