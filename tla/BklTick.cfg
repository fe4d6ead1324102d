SPECIFICATION Spec
CONSTANTS
  CPUs = {c0, c1}
  BSP = c0
  NoCpu = NoCpu
  TickPoints <- AllPoints
  MaxParked = 1
  MaxDebt = 2
INVARIANT NoSelfDeadlock
CHECK_DEADLOCK FALSE
