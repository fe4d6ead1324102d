SPECIFICATION LiveSpec
CONSTANTS
  CPUs = {c0, c1}
  BSP = c0
  NoCpu = NoCpu
  NSlots = 3
  MaxPid = 3
  MaxSleep = 1
  Calls = {"spawn", "launch", "exit", "wait", "sleep", "block", "fault"}
INVARIANTS DispatchedOnce
PROPERTIES ReadyRuns SleepersWake
