SPECIFICATION FaultSpec
CONSTANTS
  CPUs = {c0, c1}
  BSP = c0
  NoCpu = NoCpu
  TickPoints <- SafePoints
  MaxParked = 1
  MaxDebt = 2
INVARIANT KernelExclusive
CHECK_DEADLOCK FALSE
