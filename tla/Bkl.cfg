SPECIFICATION FairSpec
CONSTANTS
  CPUs = {c0, c1, c2}
  BSP = c0
  NoCpu = NoCpu
  TickPoints <- SafePoints
  MaxParked = 1
  MaxDebt = 2
INVARIANTS LockExact NoSelfDeadlock
PROPERTIES ImplementsLock SomeoneGetsIn
