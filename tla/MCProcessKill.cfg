SPECIFICATION MCSpec
CONSTANTS
  CPUs = {c0}
  BSP = c0
  NoCpu = NoCpu
  NSlots = 3
  MaxPid = 4
  MaxSleep = 1
  Calls = {"spawn", "exit", "wait", "sleep", "block", "thread", "kill", "interrupt", "fault"}
  Two = {c0, c1}
INVARIANTS RunsSafely NoMissedExit ThreadsDieWithOwner
PROPERTIES DeadStaysDead 
