SPECIFICATION EndSpec
CONSTANTS
  CPUs = {c0, c1}
  BSP = c0
  NoCpu = NoCpu
  NSlots = 3
  MaxPid = 3
  MaxSleep = 1
  Calls = {"spawn", "wait", "kill"}
INVARIANTS NoDoubleDispatch
CHECK_DEADLOCK FALSE
