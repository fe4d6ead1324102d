------------------------------ MODULE BklProof ------------------------------
(***************************************************************************)
(* Proofs about the Big Kernel Lock, for any number of CPUs: where ticks   *)
(* stay out of the windows of bkl_acquire and bkl_release and no user      *)
(* program faults, the lock serialises the kernel and implements the       *)
(* abstract lock.                                                          *)
(***************************************************************************)
EXTENDS Bkl, TLAPS

\* The condition under which bkl.c keeps its promises while nothing faults.
Quiet == TickPoints \cap Window = {}

\* One of the threads of CPU c has the lock.
Has(c) == HasLock(Base(c)) \/ HasLock(Isr(c))

\* The releases that CPU c still owes.
Owed(c) == (IF Pending(Base(c)) THEN 1 ELSE 0) + (IF Pending(Isr(c)) THEN 1 ELSE 0)

\* CPU c has the spinlock but g_bkl_owner does not say so.
Unrecorded(c) == step[Base(c)] \in {"own", "unlock"} \/ step[Isr(c)] \in {"own", "unlock"}

\* Which continuations the calls of bkl_* on CPU c have.
Shape(c) ==
    /\ at[Isr(c)] \in {"isr", "off"}
    /\ at[Base(c)] \notin {"isr", "off", "fault"}
    /\ step[Isr(c)] \in AcquireSteps => at[Isr(c)] = "isr"
    /\ step[Isr(c)] \in ReleaseSteps => at[Isr(c)] = "off"
    /\ step[Base(c)] \in AcquireSteps => at[Base(c)] \in {"sched", "handler"}
    /\ step[Base(c)] \in ReleaseSteps => at[Base(c)] \in {"user", "halt", "top"}

\* How the tick handler of CPU c nests in the code it has interrupted.
Nesting(c) ==
    /\ step[Base(c)] # "deepen"
    /\ step[Base(c)] \in Window => IsrOff(c)
    /\ step[Isr(c)] = "deepen" => HasLock(Base(c))
    /\ step[Isr(c)] \in {"spin", "own", "depth", "disown", "unlock"} => ~HasLock(Base(c))

\* What the three words of bkl.c say of the CPU that has the lock.
Held(c) ==
    Has(c) => /\ locked
              /\ depth = Owed(c)
              /\ owner = IF Unrecorded(c) THEN NoCpu ELSE c

Exclusive == \A c, d \in CPUs : Has(c) /\ Has(d) => c = d

Free == (\A c \in CPUs : ~Has(c)) => ~locked /\ owner = NoCpu /\ depth = 0

IInv ==
    /\ TypeOK
    /\ \A c \in CPUs : Shape(c) /\ Nesting(c) /\ Held(c)
    /\ Exclusive
    /\ Free

-----------------------------------------------------------------------------
\* The two threads of a CPU are different, and those of different CPUs too.
LEMMA ThreadsOf ==
    /\ \A c \in CPUs : Base(c) \in Threads /\ Isr(c) \in Threads
    /\ \A c, d \in CPUs : Base(c) # Isr(d)
    /\ \A c, d \in CPUs : c # d => Base(c) # Base(d) /\ Isr(c) # Isr(d)
    /\ \A c \in CPUs : cpu(Base(c)) = c /\ cpu(Isr(c)) = c
    /\ \A t \in Threads : cpu(t) \in CPUs /\ (t = Base(cpu(t)) \/ t = Isr(cpu(t)))
BY DEF Threads, Kinds, Base, Isr, cpu

\* The initial state of bkl.c and of the scheduler loops.
LEMMA InitIInv == Init => IInv
<1> SUFFICES ASSUME Init PROVE IInv
  OBVIOUS
<1> USE ThreadsOf, BklAssumption
<1>1. TypeOK
  <2>1. at \in [Threads -> Places] /\ step \in [Threads -> Steps]
    BY DEF Init, Places, Steps
  <2>2. intr \in [CPUs -> BOOLEAN]
    BY Zenon DEF Init
  <2>3. parked \in 0 .. MaxParked /\ depth \in Int
    BY DEF Init
  <2> QED
    BY Zenon, <2>1, <2>2, <2>3 DEF Init, TypeOK
<1>2. ASSUME NEW c \in CPUs
      PROVE /\ step[Base(c)] = "out" /\ step[Isr(c)] = "out"
            /\ at[Isr(c)] = "off" /\ at[Base(c)] \in {"woken", "top"}
  BY DEF Init, Base, Isr
<1>3. \A c \in CPUs : ~Has(c)
  BY Zenon, <1>2 DEF Has, HasLock, InKernelCode
<1>4. \A c \in CPUs : Shape(c) /\ Nesting(c) /\ Held(c)
  BY Zenon, <1>2, <1>3 DEF Shape, Nesting, Held, AcquireSteps, ReleaseSteps, Window
<1>5. Exclusive /\ Free
  BY <1>3 DEF Exclusive, Free, Init
<1> QED
  BY <1>1, <1>4, <1>5 DEF IInv

-----------------------------------------------------------------------------
\* A step leaves the threads of CPU d alone.
Same(d) ==
    /\ at'[Base(d)] = at[Base(d)] /\ at'[Isr(d)] = at[Isr(d)]
    /\ step'[Base(d)] = step[Base(d)] /\ step'[Isr(d)] = step[Isr(d)]

\* What a step of CPU c may do to the lock as a whole.
Keeps(c)  == Has(c) /\ Has(c)' /\ Held(c)'
Without(c) == ~Has(c) /\ ~Has(c)' /\ UNCHANGED lock
Takes(c)  == ~Has(c) /\ ~locked /\ Has(c)' /\ Held(c)'
Drops(c)  == Has(c) /\ ~Has(c)' /\ ~locked' /\ owner' = NoCpu /\ depth' = 0
Moves(c)  == /\ \A d \in CPUs \ {c} : Same(d)
             /\ Keeps(c) \/ Without(c) \/ Takes(c) \/ Drops(c)

\* A CPU that a step leaves alone is in the same position after it.
LEMMA SameCpu ==
    ASSUME NEW d \in CPUs, Same(d)
    PROVE  /\ Has(d)' = Has(d) /\ Owed(d)' = Owed(d) /\ Unrecorded(d)' = Unrecorded(d)
           /\ Shape(d)' = Shape(d) /\ Nesting(d)' = Nesting(d)
<1>1. HasLock(Base(d))' = HasLock(Base(d)) /\ HasLock(Isr(d))' = HasLock(Isr(d))
  BY DEF Same, HasLock, InKernelCode
<1>2. Pending(Base(d))' = Pending(Base(d)) /\ Pending(Isr(d))' = Pending(Isr(d))
  BY DEF Same, Pending, InKernelCode
<1> QED
  BY <1>1, <1>2 DEF Same, Has, Owed, Unrecorded, Shape, Nesting, IsrOff

\* The invariant survives a step of CPU c that keeps c itself in shape and does
\* one of the four things above to the lock.
LEMMA Combine ==
    ASSUME NEW c \in CPUs, IInv, TypeOK', Shape(c)', Nesting(c)',
           Moves(c)
    PROVE  IInv'
<1> DEFINE Others == CPUs \ {c}
<1>1. \A d \in Others : /\ Has(d)' = Has(d) /\ Owed(d)' = Owed(d)
                        /\ Unrecorded(d)' = Unrecorded(d)
                        /\ Shape(d)' = Shape(d) /\ Nesting(d)' = Nesting(d)
  BY SameCpu DEF Moves
<1>2. \A d \in CPUs : Shape(d)' /\ Nesting(d)'
  BY <1>1 DEF IInv
<1>3. Keeps(c) => \A d \in Others : ~Has(d) /\ ~Has(d)'
  BY <1>1 DEF Keeps, IInv, Exclusive
<1>4. Takes(c) => \A d \in Others : ~Has(d) /\ ~Has(d)'
  BY <1>1 DEF Takes, IInv, Held
<1>5. Drops(c) => \A d \in Others : ~Has(d) /\ ~Has(d)'
  BY <1>1 DEF Drops, IInv, Exclusive
<1>6. CASE Without(c)
  <2>1. \A d \in CPUs : Held(d)'
    BY <1>1, <1>6 DEF IInv, Held, Without, lock
  <2>2. Exclusive'
    BY <1>1, <1>6 DEF IInv, Exclusive, Without
  <2>3. Free'
    BY <1>1, <1>6 DEF IInv, Free, Without, lock
  <2> QED
    BY <1>2, <2>1, <2>2, <2>3 DEF IInv
<1>7. CASE ~Without(c)
  <2>1. \A d \in Others : ~Has(d)'
    BY <1>3, <1>4, <1>5, <1>7 DEF Moves
  <2>2. Held(c)'
    BY <1>7 DEF Moves, Held, Keeps, Takes, Drops
  <2>3. \A d \in CPUs : Held(d)'
    BY <2>1, <2>2 DEF Held
  <2>4. Exclusive'
    BY <2>1 DEF Exclusive
  <2>5. Free'
    BY <1>7 DEF Moves, Free, Keeps, Takes, Drops
  <2> QED
    BY <1>2, <2>3, <2>4, <2>5 DEF IInv
<1> QED
  BY <1>6, <1>7

-----------------------------------------------------------------------------
\* Every step of the lock, of the loops and of the traps keeps the types.
LEMMA TypeStep == TypeOK /\ [FaultNext]_vars => TypeOK'
<1> SUFFICES ASSUME TypeOK, FaultNext PROVE TypeOK'
  BY DEF TypeOK, vars
<1> USE ThreadsOf, BklAssumption DEF TypeOK, Advance, Goto, Jump, Acquire, Release, lock
<1>1. PICK c \in CPUs : \/ BaseStep(c) \/ IsrStep(c) \/ Trap(c) \/ Tick(c)
                        \/ UserFault(c) \/ FaultLeaves(c)
  BY DEF FaultNext, Next
<1> DEFINE S == Steps
           P == Places
<1>2. /\ {"test", "deepen", "spin", "own", "depth", "dec", "disown", "unlock", "out"} \subseteq S
      /\ {"top", "sched", "handler", "back", "fault", "halt", "woken", "user", "isr", "off"} \subseteq P
  BY DEF Steps, Places, AcquireSteps, ReleaseSteps
<1>3. ASSUME NEW t \in Threads, LockStep(t) PROVE TypeOK'
  <2>1. step' \in [Threads -> S] /\ UNCHANGED <<at, parked, intr>>
    BY <1>2, <1>3 DEF LockStep, AcquireTest, Deepen, SpinLock, SetOwner, SetDepth,
                      DecDepth, ClearOwner, SpinUnlock
  <2>2. locked' \in BOOLEAN /\ owner' \in CPUs \cup {NoCpu}
    BY Zenon, <1>3 DEF LockStep, AcquireTest, Deepen, SpinLock, SetOwner, SetDepth,
                DecDepth, ClearOwner, SpinUnlock
  <2>3. depth' \in Int
    BY <1>3 DEF LockStep, AcquireTest, Deepen, SpinLock, SetOwner, SetDepth,
                DecDepth, ClearOwner, SpinUnlock
  <2> QED
    BY <2>1, <2>2, <2>3
<1>4. ASSUME ~LockStep(Base(c)), ~LockStep(Isr(c)) PROVE TypeOK'
  <2> USE <1>1, <1>4 DEF BaseStep, IsrStep, LoopTop, Idle, Dispatch, Resume, SliceOver, Woken,
          HandlerReturns, HandlerLeaves, HandlerParks, FaultLeaves, Trap, UserFault,
          Tick, IsrReturns
  <2>1. at' \in [Threads -> P]
    <3>1. CASE BaseStep(c)
      BY ZenonT(60), <1>2, <3>1
    <3>2. CASE ~BaseStep(c)
      BY SMTT(60), <1>2, <3>2
    <3> QED
      BY SMTT(60), <3>1, <3>2
  <2>2. step' \in [Threads -> S]
    BY <1>2
  <2>3. parked' \in 0 .. MaxParked
    OBVIOUS
  <2>4. intr' \in [CPUs -> BOOLEAN]
    BY Zenon
  <2>5. UNCHANGED <<locked, owner, depth>>
    OBVIOUS
  <2> QED
    BY SMTT(60), <2>1, <2>2, <2>3, <2>4, <2>5
<1> QED
  BY <1>3, <1>4

-----------------------------------------------------------------------------
\* A step of bkl_acquire or bkl_release by the scheduler loop or a trap handler.
LEMMA BaseLockStep ==
    ASSUME IInv, TypeOK', NEW c \in CPUs, LockStep(Base(c))
    PROVE  IInv' /\ Moves(c)
<1> DEFINE b == Base(c)
           i == Isr(c)
<1> USE ThreadsOf DEF Advance, Doing, Runs
<1>1. \A d \in CPUs \ {c} : Same(d)
  BY DEF LockStep, AcquireTest, Deepen, SpinLock, SetOwner, SetDepth, DecDepth,
         ClearOwner, SpinUnlock, Same, IInv, TypeOK
<1>2. /\ at'[b] = at[b] /\ at'[i] = at[i] /\ step'[i] = step[i]
      /\ at[i] = "off" /\ step[i] = "out"
  BY DEF LockStep, AcquireTest, Deepen, SpinLock, SetOwner, SetDepth, DecDepth,
         ClearOwner, SpinUnlock, IInv, TypeOK, Base, Isr, IsrOff
<1>3. ~HasLock(i) /\ ~HasLock(i)' /\ ~Pending(i) /\ ~Pending(i)'
  BY <1>2 DEF HasLock, Pending, InKernelCode
<1>4. Shape(c) /\ Nesting(c) /\ Held(c)
  BY DEF IInv
<1>5. CASE AcquireTest(b)
  <2>1. owner # c
    <3>1. ~Has(c)
      BY <1>3, <1>5 DEF AcquireTest, Has, HasLock, InKernelCode
    <3> QED
      BY <3>1, BklAssumption DEF IInv, Free, Held
  <2>2. step[b] = "test" /\ step'[b] = "spin" /\ UNCHANGED lock
    BY <1>5, <2>1 DEF AcquireTest, IInv, TypeOK
  <2>3. Without(c)
    BY SMTT(60), <1>3, <2>2 DEF Without, Has, HasLock, InKernelCode
  <2>4. Shape(c)' /\ Nesting(c)'
    BY <1>2, <1>3, <1>4, <2>2 DEF Shape, Nesting, AcquireSteps, ReleaseSteps, Window
  <2> QED
    BY <1>1, <2>3, <2>4, Combine DEF Moves
<1>6. CASE Deepen(b)
  BY <1>4, <1>6 DEF Deepen, Nesting
<1>7. CASE SpinLock(b)
  <2>0. step[b] = "spin" /\ step'[b] = "own" /\ ~locked /\ locked' /\ UNCHANGED <<owner, depth>>
    BY <1>7 DEF SpinLock, IInv, TypeOK
  <2>1. owner = NoCpu /\ depth = 0
    BY <2>0 DEF IInv, Held, Free
  <2>2. step[b] = "spin" /\ step'[b] = "own" /\ ~locked /\ locked' /\ owner' = NoCpu /\ depth' = 0
    BY SMTT(60), <2>0, <2>1
  <2>3. Takes(c)
    BY SMTT(60), <1>2, <1>3, <1>4, <2>2 DEF Takes, Held, Has, HasLock, Owed, Pending, Unrecorded,
       InKernelCode, Shape, AcquireSteps, ReleaseSteps
  <2>4. Shape(c)' /\ Nesting(c)'
    BY <1>2, <1>3, <1>4, <2>2 DEF Shape, Nesting, AcquireSteps, ReleaseSteps, Window, IsrOff
  <2> QED
    BY <1>1, <2>3, <2>4, Combine DEF Moves
<1>8. CASE SetOwner(b)
  <2>2. step[b] = "own" /\ step'[b] = "depth" /\ owner' = c /\ UNCHANGED <<locked, depth>>
    BY SMTT(60), <1>8 DEF SetOwner, IInv, TypeOK
  <2>3. Keeps(c)
    BY SMTT(60), <1>2, <1>3, <1>4, <2>2 DEF Keeps, Held, Has, HasLock, Owed, Pending, Unrecorded,
       InKernelCode, Shape, AcquireSteps, ReleaseSteps
  <2>4. Shape(c)' /\ Nesting(c)'
    BY <1>2, <1>3, <1>4, <2>2 DEF Shape, Nesting, AcquireSteps, ReleaseSteps, Window, IsrOff
  <2> QED
    BY <1>1, <2>3, <2>4, Combine DEF Moves
<1>9. CASE SetDepth(b)
  <2>2. step[b] = "depth" /\ step'[b] = "out" /\ depth' = 1 /\ UNCHANGED <<locked, owner>>
    BY SMTT(60), <1>9 DEF SetDepth, IInv, TypeOK
  <2>3. Keeps(c)
    BY SMTT(60), <1>2, <1>3, <1>4, <2>2 DEF Keeps, Held, Has, HasLock, Owed, Pending, Unrecorded,
       InKernelCode, Shape, AcquireSteps, ReleaseSteps
  <2>4. Shape(c)' /\ Nesting(c)'
    BY <1>2, <1>3, <1>4, <2>2 DEF Shape, Nesting, AcquireSteps, ReleaseSteps, Window, IsrOff
  <2> QED
    BY <1>1, <2>3, <2>4, Combine DEF Moves
<1>10. CASE DecDepth(b)
  <2>1. step[b] = "dec" /\ depth = 1
    BY <1>3, <1>4, <1>10 DEF DecDepth, Held, Has, HasLock, Owed, Pending
  <2>2. step[b] = "dec" /\ step'[b] = "disown" /\ depth' = 0 /\ UNCHANGED <<locked, owner>>
    BY SMTT(60), <1>10, <2>1 DEF DecDepth, IInv, TypeOK
  <2>3. Keeps(c)
    BY SMTT(60), <1>2, <1>3, <1>4, <2>2 DEF Keeps, Held, Has, HasLock, Owed, Pending, Unrecorded,
       InKernelCode, Shape, AcquireSteps, ReleaseSteps
  <2>4. Shape(c)' /\ Nesting(c)'
    BY <1>2, <1>3, <1>4, <2>2 DEF Shape, Nesting, AcquireSteps, ReleaseSteps, Window, IsrOff
  <2> QED
    BY <1>1, <2>3, <2>4, Combine DEF Moves
<1>11. CASE ClearOwner(b)
  <2>2. step[b] = "disown" /\ step'[b] = "unlock" /\ owner' = NoCpu /\ UNCHANGED <<locked, depth>>
    BY SMTT(60), <1>11 DEF ClearOwner, IInv, TypeOK
  <2>3. Keeps(c)
    BY SMTT(60), <1>2, <1>3, <1>4, <2>2 DEF Keeps, Held, Has, HasLock, Owed, Pending, Unrecorded,
       InKernelCode, Shape, AcquireSteps, ReleaseSteps
  <2>4. Shape(c)' /\ Nesting(c)'
    BY <1>2, <1>3, <1>4, <2>2 DEF Shape, Nesting, AcquireSteps, ReleaseSteps, Window, IsrOff
  <2> QED
    BY <1>1, <2>3, <2>4, Combine DEF Moves
<1>12. CASE SpinUnlock(b)
  <2>2. step[b] = "unlock" /\ step'[b] = "out" /\ ~locked' /\ UNCHANGED <<owner, depth>>
    BY <1>12 DEF SpinUnlock, IInv, TypeOK
  <2>3. Drops(c)
    BY SMTT(60), <1>2, <1>3, <1>4, <2>2 DEF Drops, Held, Has, HasLock, Owed, Pending, Unrecorded,
       InKernelCode, Shape, AcquireSteps, ReleaseSteps
  <2>4. Shape(c)' /\ Nesting(c)'
    BY <1>2, <1>3, <1>4, <2>2 DEF Shape, Nesting, AcquireSteps, ReleaseSteps, Window, IsrOff
  <2> QED
    BY <1>1, <2>3, <2>4, Combine DEF Moves
<1> QED
  BY <1>5, <1>6, <1>7, <1>8, <1>9, <1>10, <1>11, <1>12 DEF LockStep

\* A step of bkl_acquire or bkl_release by a tick handler nested in kernel code.
LEMMA IsrLockStep ==
    ASSUME IInv, TypeOK', NEW c \in CPUs, LockStep(Isr(c))
    PROVE  IInv' /\ Moves(c)
<1> DEFINE b == Base(c)
           i == Isr(c)
<1> USE ThreadsOf DEF Advance, Doing
<1>1. \A d \in CPUs \ {c} : Same(d)
  BY DEF LockStep, AcquireTest, Deepen, SpinLock, SetOwner, SetDepth, DecDepth,
         ClearOwner, SpinUnlock, Same, IInv, TypeOK
<1>2. /\ at'[b] = at[b] /\ at'[i] = at[i] /\ step'[b] = step[b]
      /\ step[i] # "out"
  BY DEF LockStep, AcquireTest, Deepen, SpinLock, SetOwner, SetDepth, DecDepth,
         ClearOwner, SpinUnlock, IInv, TypeOK
<1>3. /\ HasLock(b)' = HasLock(b) /\ Pending(b)' = Pending(b)
      /\ InKernelCode(b)' = InKernelCode(b)
  BY <1>2 DEF HasLock, Pending, InKernelCode
<1>4. Shape(c) /\ Nesting(c) /\ Held(c)
  BY DEF IInv
<1>5. step[b] \notin Window \cup {"deepen"} /\ (HasLock(b) <=> Pending(b))
  BY <1>2, <1>4 DEF Nesting, IsrOff, Window, HasLock, Pending
<1>6. CASE AcquireTest(i)
  <2>1. step[i] = "test" /\ UNCHANGED lock /\ at[i] = "isr"
    BY <1>4, <1>6 DEF AcquireTest, Shape, AcquireSteps
  <2>2. CASE HasLock(b)
    <3>1. owner = c
      BY <1>4, <1>5, <2>1, <2>2 DEF Held, Has, Unrecorded, Window
    <3>2. step'[i] = "deepen"
      BY SMTT(60), <1>6, <3>1 DEF AcquireTest, IInv, TypeOK
    <3>3. Keeps(c)
      BY SMTT(60), <1>3, <1>4, <1>5, <2>1, <2>2, <3>2, <1>2
         DEF Keeps, Held, Has, HasLock, Owed, Pending, Unrecorded, InKernelCode, lock
    <3>4. Shape(c)' /\ Nesting(c)'
      BY <1>2, <1>3, <1>4, <1>5, <2>1, <2>2, <3>2
         DEF Shape, Nesting, AcquireSteps, ReleaseSteps, Window
    <3> QED
      BY SMTT(60), <1>1, <3>3, <3>4, Combine DEF Moves
  <2>3. CASE ~HasLock(b)
    <3>1. ~Has(c)
      BY <2>1, <2>3 DEF Has, HasLock, InKernelCode
    <3>2. owner # c
      BY <3>1, BklAssumption DEF IInv, Free, Held
    <3>3. step'[i] = "spin"
      BY <1>6, <3>2 DEF AcquireTest, IInv, TypeOK
    <3>4. Without(c)
      BY SMTT(60), <1>3, <2>1, <2>3, <3>1, <3>3 DEF Without, Has, HasLock, InKernelCode
    <3>5. Shape(c)' /\ Nesting(c)'
      BY <1>2, <1>3, <1>4, <1>5, <2>1, <2>3, <3>3
         DEF Shape, Nesting, AcquireSteps, ReleaseSteps, Window
    <3> QED
      BY <1>1, <3>4, <3>5, Combine DEF Moves
  <2> QED
    BY <2>2, <2>3
<1>7. CASE Deepen(i)
  <2>1. /\ step[i] = "deepen" /\ step'[i] = "out" /\ depth' = depth + 1
        /\ UNCHANGED <<locked, owner>> /\ HasLock(b)
    BY <1>4, <1>7 DEF Deepen, Nesting, IInv, TypeOK
  <2>2. depth = 1 /\ at[i] = "isr"
    <3>1. Pending(b) /\ ~Pending(i) /\ Has(c)
      BY SMTT(60), <1>5, <2>1 DEF Has, Pending, InKernelCode
    <3> QED
      BY <1>4, <2>1, <3>1 DEF Held, Owed, Shape, AcquireSteps
  <2>3. Keeps(c)
    BY SMTT(60), <1>2, <1>3, <1>4, <1>5, <2>1, <2>2
       DEF Keeps, Held, Has, HasLock, Owed, Pending, Unrecorded, InKernelCode, Window
  <2>4. Shape(c)' /\ Nesting(c)'
    BY SMTT(60), <1>2, <1>3, <1>4, <1>5, <2>1, <2>2 DEF Shape, Nesting, AcquireSteps, ReleaseSteps, Window
  <2> QED
    BY <1>1, <2>3, <2>4, Combine DEF Moves
<1>8. CASE DecDepth(i)
  <2>1. /\ step[i] = "dec" /\ at[i] = "off" /\ depth' = depth - 1 /\ UNCHANGED <<locked, owner>>
        /\ depth = IF HasLock(b) THEN 2 ELSE 1
    <3>1. step[i] = "dec" /\ Pending(i) /\ Has(c)
      BY <1>8 DEF DecDepth, Has, HasLock, Pending
    <3> QED
      BY <1>4, <1>5, <1>8, <3>1 DEF DecDepth, Shape, ReleaseSteps, Held, Owed
  <2>2. step'[i] = IF HasLock(b) THEN "out" ELSE "disown"
    BY SMTT(60), <1>8, <2>1 DEF DecDepth, IInv, TypeOK
  <2>3. Keeps(c)
    BY SMTT(60), <1>2, <1>3, <1>4, <1>5, <2>1, <2>2
       DEF Keeps, Held, Has, HasLock, Owed, Pending, Unrecorded, InKernelCode, Window
  <2>4. Shape(c)' /\ Nesting(c)'
    BY <1>2, <1>3, <1>4, <1>5, <2>1, <2>2
       DEF Shape, Nesting, AcquireSteps, ReleaseSteps, Window, IsrOff
  <2> QED
    BY <1>1, <2>3, <2>4, Combine DEF Moves
<1>9. CASE SpinLock(i)
  <2>0. step[i] = "spin" /\ step'[i] = "own" /\ ~locked /\ locked' /\ UNCHANGED <<owner, depth>>
    BY <1>9 DEF SpinLock, IInv, TypeOK
  <2>1. owner = NoCpu /\ depth = 0
    BY <2>0 DEF IInv, Held, Free
  <2>2. step[i] = "spin" /\ step'[i] = "own" /\ ~locked /\ locked' /\ owner' = NoCpu /\ depth' = 0
    BY <2>0, <2>1
  <2>3. ~HasLock(b)
    BY SMTT(60), <1>4, <2>2 DEF Nesting
  <2>4. Takes(c)
    BY SMTT(60), <1>2, <1>3, <1>4, <1>5, <2>2, <2>3
       DEF Takes, Held, Has, HasLock, Owed, Pending, Unrecorded, InKernelCode, Window,
           Shape, AcquireSteps, ReleaseSteps
  <2>5. Shape(c)' /\ Nesting(c)'
    BY <1>2, <1>3, <1>4, <1>5, <2>2, <2>3
       DEF Shape, Nesting, AcquireSteps, ReleaseSteps, Window, IsrOff
  <2> QED
    BY <1>1, <2>4, <2>5, Combine DEF Moves
<1>10. CASE SetOwner(i)
  <2>2. step[i] = "own" /\ step'[i] = "depth" /\ owner' = c /\ UNCHANGED <<locked, depth>>
    BY SMTT(60), <1>10 DEF SetOwner, IInv, TypeOK
  <2>3. ~HasLock(b)
    BY SMTT(60), <1>4, <2>2 DEF Nesting
  <2>4. Keeps(c)
    BY SMTT(60), <1>2, <1>3, <1>4, <1>5, <2>2, <2>3
       DEF Keeps, Held, Has, HasLock, Owed, Pending, Unrecorded, InKernelCode, Window,
           Shape, AcquireSteps, ReleaseSteps
  <2>5. Shape(c)' /\ Nesting(c)'
    BY <1>2, <1>3, <1>4, <1>5, <2>2, <2>3
       DEF Shape, Nesting, AcquireSteps, ReleaseSteps, Window, IsrOff
  <2> QED
    BY <1>1, <2>4, <2>5, Combine DEF Moves
<1>11. CASE SetDepth(i)
  <2>2. step[i] = "depth" /\ step'[i] = "out" /\ depth' = 1 /\ UNCHANGED <<locked, owner>>
    BY SMTT(60), <1>11 DEF SetDepth, IInv, TypeOK
  <2>3. ~HasLock(b)
    BY SMTT(60), <1>4, <2>2 DEF Nesting
  <2>4. Keeps(c)
    BY SMTT(60), <1>2, <1>3, <1>4, <1>5, <2>2, <2>3
       DEF Keeps, Held, Has, HasLock, Owed, Pending, Unrecorded, InKernelCode, Window,
           Shape, AcquireSteps, ReleaseSteps
  <2>5. Shape(c)' /\ Nesting(c)'
    BY <1>2, <1>3, <1>4, <1>5, <2>2, <2>3
       DEF Shape, Nesting, AcquireSteps, ReleaseSteps, Window, IsrOff
  <2> QED
    BY <1>1, <2>4, <2>5, Combine DEF Moves
<1>12. CASE ClearOwner(i)
  <2>2. step[i] = "disown" /\ step'[i] = "unlock" /\ owner' = NoCpu /\ UNCHANGED <<locked, depth>>
    BY SMTT(60), <1>12 DEF ClearOwner, IInv, TypeOK
  <2>3. ~HasLock(b)
    BY SMTT(60), <1>4, <2>2 DEF Nesting
  <2>4. Keeps(c)
    BY SMTT(60), <1>2, <1>3, <1>4, <1>5, <2>2, <2>3
       DEF Keeps, Held, Has, HasLock, Owed, Pending, Unrecorded, InKernelCode, Window,
           Shape, AcquireSteps, ReleaseSteps
  <2>5. Shape(c)' /\ Nesting(c)'
    BY <1>2, <1>3, <1>4, <1>5, <2>2, <2>3
       DEF Shape, Nesting, AcquireSteps, ReleaseSteps, Window, IsrOff
  <2> QED
    BY <1>1, <2>4, <2>5, Combine DEF Moves
<1>13. CASE SpinUnlock(i)
  <2>2. step[i] = "unlock" /\ step'[i] = "out" /\ ~locked' /\ UNCHANGED <<owner, depth>>
    BY SMTT(60), <1>13 DEF SpinUnlock, IInv, TypeOK
  <2>3. ~HasLock(b)
    BY SMTT(60), <1>4, <2>2 DEF Nesting
  <2>4. Drops(c)
    BY SMTT(60), <1>2, <1>3, <1>4, <1>5, <2>2, <2>3
       DEF Drops, Held, Has, HasLock, Owed, Pending, Unrecorded, InKernelCode, Window,
           Shape, AcquireSteps, ReleaseSteps
  <2>5. Shape(c)' /\ Nesting(c)'
    BY SMTT(60), <1>2, <1>3, <1>4, <1>5, <2>2, <2>3
       DEF Shape, Nesting, AcquireSteps, ReleaseSteps, Window, IsrOff
  <2> QED
    BY <1>1, <2>4, <2>5, Combine DEF Moves
<1> QED
  BY <1>6, <1>7, <1>8, <1>9, <1>10, <1>11, <1>12, <1>13 DEF LockStep
\* The steps of the loops and of the traps between calls of bkl_acquire and
\* bkl_release stay on the side of the lock that they are on.
LEMMA BaseMove ==
    ASSUME IInv, TypeOK', NEW c \in CPUs,
           \/ LoopTop(c) \/ Idle(c) \/ Dispatch(c) \/ Resume(c) \/ SliceOver(c)
           \/ Woken(c) \/ HandlerReturns(c) \/ HandlerLeaves(c) \/ HandlerParks(c)
           \/ Trap(c)
    PROVE  IInv' /\ Moves(c)
<1> DEFINE b == Base(c)
           i == Isr(c)
           Inside == {"sched", "handler", "back"}
           Outside == {"top", "woken", "user", "halt"}
<1>1. Shape(c) /\ Nesting(c) /\ Held(c)
  BY DEF IInv
<1>2. /\ at[b] \notin {"isr", "off", "fault"} /\ step[b] = "out" /\ IsrOff(c) /\ UNCHANGED lock
      /\ \/ /\ at[b] \in Inside
            /\ \E q \in {"halt", "user", "top"} : Release(b, q)
         \/ /\ at[b] \in Inside
            /\ \E q \in Inside : Jump(b, q)
         \/ /\ at[b] \in Outside
            /\ \E q \in {"sched", "handler"} : Acquire(b, q)
         \/ /\ at[b] \in Outside
            /\ Jump(b, "top")
  BY <1>1 DEF Shape, LoopTop, Idle, Dispatch, Resume, SliceOver, Woken, HandlerReturns,
     HandlerLeaves, HandlerParks, Trap, At, Runs, Base, Isr, cpu
<1>3. /\ at'[i] = at[i] /\ step'[i] = step[i] /\ at[i] = "off" /\ step[i] = "out"
      /\ \A d \in CPUs \ {c} : Same(d)
  BY <1>2, ThreadsOf DEF IInv, TypeOK, Same, Jump, Goto, Acquire, Release, IsrOff
<1>4. \/ at[b] \in Inside /\ at'[b] \in {"halt", "user", "top"} /\ step'[b] = "dec"
      \/ at[b] \in Inside /\ at'[b] \in Inside /\ step'[b] = "out"
      \/ at[b] \in Outside /\ at'[b] \in {"sched", "handler"} /\ step'[b] = "test"
      \/ at[b] \in Outside /\ at'[b] = "top" /\ step'[b] = "out"
  BY SMTT(60), <1>2, ThreadsOf DEF IInv, TypeOK, Jump, Goto, Acquire, Release
<1>5. /\ ~HasLock(i) /\ ~HasLock(i)' /\ ~Pending(i) /\ ~Pending(i)'
      /\ ~Unrecorded(c) /\ ~Unrecorded(c)'
  BY <1>2, <1>3, <1>4 DEF HasLock, Pending, InKernelCode, Unrecorded
<1>6. Shape(c)' /\ Nesting(c)'
  BY ZenonT(60), <1>1, <1>2, <1>3, <1>4 DEF Shape, Nesting, AcquireSteps, ReleaseSteps, Window
<1>7. CASE at[b] \in Inside
  <2>1. HasLock(b) /\ Pending(b) /\ HasLock(b)' /\ Pending(b)'
    BY <1>2, <1>4, <1>7 DEF HasLock, Pending, InKernelCode
  <2>2. Keeps(c)
    BY Zenon, <1>1, <1>2, <1>5, <2>1 DEF Keeps, Held, Has, Owed, lock
  <2> QED
    BY ZenonT(60), <1>3, <1>6, <2>2, Combine DEF Moves
<1>8. CASE at[b] \in Outside
  <2>1. ~HasLock(b) /\ ~HasLock(b)'
    BY ZenonT(60), <1>2, <1>4, <1>8 DEF HasLock, InKernelCode
  <2>2. Without(c)
    BY <1>2, <1>5, <2>1 DEF Without, Has
  <2> QED
    BY Zenon, <1>3, <1>6, <2>2, Combine DEF Moves
<1> QED
  BY <1>4, <1>7, <1>8

\* A tick arrives outside the windows, and its handler returns.
LEMMA IsrMove ==
    ASSUME IInv, TypeOK', NEW c \in CPUs, TickPoints \cap Window = {},
           Tick(c) \/ IsrReturns(c)
    PROVE  IInv' /\ Moves(c)
<1> DEFINE b == Base(c)
           i == Isr(c)
<1> USE ThreadsOf
<1>1. Shape(c) /\ Nesting(c) /\ Held(c)
  BY DEF IInv
<1>2. /\ \A d \in CPUs \ {c} : Same(d)
      /\ step'[b] = step[b] /\ UNCHANGED lock
  BY DEF Tick, IsrReturns, Release, Goto, Same, IInv, TypeOK
<1>3. CASE Tick(c)
  <2>1. /\ at[i] = "off" /\ step[i] = "out" /\ at'[i] = "isr" /\ step'[i] = "test"
        /\ at'[b] = (IF at[b] = "halt" /\ step[b] = "out" THEN "woken" ELSE at[b])
    BY <1>3 DEF Tick, IsrOff, IInv, TypeOK
  <2>2. step[b] \notin Window
    BY SMTT(60), <1>3 DEF Tick, Window
  <2>3. /\ (HasLock(b)' <=> HasLock(b)) /\ (Pending(b)' <=> Pending(b))
        /\ ~HasLock(i) /\ ~HasLock(i)' /\ ~Pending(i) /\ ~Pending(i)'
        /\ ~Unrecorded(c) /\ ~Unrecorded(c)'
    BY SMTT(60), <1>2, <2>1, <2>2 DEF HasLock, Pending, InKernelCode, Unrecorded, Window
  <2>4. Shape(c)' /\ Nesting(c)'
    BY SMTT(60), <1>1, <1>2, <2>1, <2>2 DEF Shape, Nesting, AcquireSteps, ReleaseSteps
  <2>5. Keeps(c) \/ Without(c)
    BY SMTT(60), <1>1, <1>2, <2>3 DEF Keeps, Without, Held, Has, Owed, lock
  <2> QED
    BY Zenon, <1>2, <2>4, <2>5, Combine DEF Moves
<1>4. CASE IsrReturns(c)
  <2>1. /\ at[i] = "isr" /\ step[i] = "out" /\ at'[i] = "off" /\ step'[i] = "dec"
        /\ at'[b] = at[b]
    BY SMTT(60), <1>4 DEF IsrReturns, At, Release, Goto, IInv, TypeOK
  <2>2. /\ (HasLock(b)' <=> HasLock(b)) /\ (Pending(b)' <=> Pending(b))
        /\ HasLock(i) /\ HasLock(i)' /\ Pending(i) /\ Pending(i)'
        /\ (Unrecorded(c)' <=> Unrecorded(c))
    BY <1>2, <2>1 DEF HasLock, Pending, InKernelCode, Unrecorded
  <2>3. Shape(c)' /\ Nesting(c)'
    BY Zenon, <1>1, <1>2, <2>1 DEF Shape, Nesting, AcquireSteps, ReleaseSteps, IsrOff
  <2>4. Keeps(c)
    BY Zenon, <1>1, <1>2, <2>2 DEF Keeps, Held, Has, Owed, lock
  <2> QED
    BY <1>2, <2>3, <2>4, Combine DEF Moves
<1> QED
  BY <1>3, <1>4

\* Every step preserves the invariant and moves the lock at most once.
LEMMA StepIInv ==
    ASSUME Quiet, IInv, Next
    PROVE  IInv' /\ \E c \in CPUs : Moves(c)
<1>1. TypeOK'
  BY TypeStep DEF IInv, FaultNext
<1>2. PICK c \in CPUs : BaseStep(c) \/ IsrStep(c) \/ Trap(c) \/ Tick(c)
  BY DEF Next
<1> QED
  BY <1>1, <1>2, BaseLockStep, IsrLockStep, BaseMove, IsrMove DEF BaseStep, IsrStep, Quiet

-----------------------------------------------------------------------------
\* The types of bkl.c's three words and of every thread's position are kept by
\* all of its code, wherever ticks arrive and whichever CPUs fault.
THEOREM TypeCorrect == FaultSpec => []TypeOK
<1>1. Init => TypeOK
  BY InitIInv DEF IInv
<1> QED
  BY <1>1, TypeStep, PTL DEF FaultSpec

LEMMA SpecFaultless == Spec => FaultSpec
  BY PTL DEF Spec, FaultSpec, FaultNext

\* The inductive invariant of the quiet system.
THEOREM Inductive == ASSUME Quiet PROVE Spec => []IInv
<1>1. IInv /\ [Next]_vars => IInv'
  <2> SUFFICES ASSUME IInv, UNCHANGED vars PROVE IInv'
    BY SMTT(60), StepIInv
  <2>1. \A c \in CPUs : Same(c) /\ UNCHANGED lock
    BY DEF vars, Same, lock
  <2> QED
    BY <2>1, SameCpu DEF IInv, TypeOK, Held, Exclusive, Free, vars
<1> QED
  BY <1>1, InitIInv, PTL DEF Spec
\* bkl.h: "One global lock that serialises all in-kernel execution".
THEOREM Serialised == ASSUME Quiet PROVE Spec => []KernelExclusive
<1>1. IInv => KernelExclusive
  BY ThreadsOf DEF IInv, Exclusive, KernelExclusive, Has, HasLock
<1> QED
  BY <1>1, Inductive, PTL

\* bkl.h: a tick in kernel mode deepens the hold "instead of self-deadlocking".
THEOREM TickNeverWaits == ASSUME Quiet PROVE Spec => []NoSelfDeadlock
<1>1. IInv => NoSelfDeadlock
  BY DEF IInv, Nesting, NoSelfDeadlock
<1> QED
  BY <1>1, Inductive, PTL

\* While a CPU runs kernel code the owner and the depth describe its hold.
THEOREM DepthIsCount == ASSUME Quiet PROVE Spec => []DepthCounts
<1>1. ASSUME IInv PROVE DepthCounts
  <2> SUFFICES ASSUME NEW t \in Threads, InKernelCode(t)
               PROVE  locked /\ owner = cpu(t) /\ depth = Owed(cpu(t))
    BY DEF DepthCounts, Owed
  <2> DEFINE c == cpu(t)
  <2>1. c \in CPUs /\ Has(c) /\ Held(c) /\ Nesting(c) /\ Shape(c)
    BY <1>1, ThreadsOf DEF IInv, Has, HasLock
  <2>2. ~Unrecorded(c)
    <3>1. CASE t = Base(c)
      BY SMTT(60), <2>1, <3>1 DEF Unrecorded, Nesting, InKernelCode, HasLock
    <3>2. CASE t = Isr(c)
      BY <2>1, <3>2 DEF Unrecorded, Nesting, Shape, InKernelCode, Window, IsrOff
    <3> QED
      BY SMTT(60), <3>1, <3>2, ThreadsOf
  <2> QED
    BY <2>1, <2>2 DEF Held
<1> QED
  BY <1>1, Inductive, PTL

\* bkl.h's promises of a held lock together.
THEOREM HeldExactly == ASSUME Quiet PROVE Spec => []LockExact
  BY TypeCorrect, SpecFaultless, Serialised, DepthIsCount, PTL DEF LockExact

\* A lock that nobody has taken has no releases left to count.
THEOREM FreeIsUncounted == ASSUME Quiet PROVE Spec => []FreeMeansUncounted
<1>1. IInv => FreeMeansUncounted
  BY DEF IInv, Free, Held, FreeMeansUncounted
<1> QED
  BY <1>1, Inductive, PTL

-----------------------------------------------------------------------------
HolderFits ==
    /\ \A c \in CPUs : Has(c) => Holder = c
    /\ (\A c \in CPUs : ~Has(c)) => Holder = NoCpu

\* The holder of the abstract lock is the CPU that has the lock.
LEMMA HolderIs == IInv => HolderFits
<1> SUFFICES ASSUME IInv PROVE HolderFits
  OBVIOUS
<1>1. ASSUME NEW c \in CPUs, Has(c) PROVE Holder = c
  <2>1. \E t \in Threads : HasLock(t)
    BY <1>1, ThreadsOf DEF Has
  <2>2. \A t \in Threads : HasLock(t) => cpu(t) = c
    BY <1>1, ThreadsOf DEF IInv, Exclusive, Has
  <2> QED
    BY <2>1, <2>2 DEF Holder
<1>2. ASSUME \A c \in CPUs : ~Has(c) PROVE Holder = NoCpu
  BY <1>2, ThreadsOf DEF Holder, Has
<1> QED
  BY <1>1, <1>2 DEF HolderFits

\* bkl.c implements the abstract lock of bkl.h: no step hands the lock from one
\* CPU to another, takes it while it is held or gives it back for someone else.
THEOREM Implements == ASSUME Quiet PROVE Spec => ImplementsLock
<1>1. Init => Abstract!Init
  <2> SUFFICES ASSUME Init PROVE Holder = NoCpu
    BY DEF Abstract!Init
  <2>1. \A t \in Threads : ~HasLock(t)
    BY DEF Init, HasLock, InKernelCode
  <2> QED
    BY <2>1 DEF Holder
<1>2. IInv /\ IInv' => HolderFits /\ HolderFits'
  BY HolderIs, PTL
<1>3. IInv /\ IInv' /\ [Next]_vars => [Abstract!Next]_Holder
  <2>1. ASSUME IInv, IInv', Next PROVE [Abstract!Next]_Holder
    <3>1. PICK c \in CPUs : Moves(c)
      BY <2>1, StepIInv
    <3>2. \A d \in CPUs \ {c} : Has(d)' = Has(d)
      BY <3>1, SameCpu DEF Moves
    <3>3. HolderFits /\ HolderFits'
      BY <1>2, <2>1
    <3>4. CASE Keeps(c)
      BY <3>3, <3>4 DEF Keeps, HolderFits
    <3>5. CASE Without(c)
      <4>1. CASE \A d \in CPUs : ~Has(d)
        BY <3>2, <3>3, <3>5, <4>1 DEF Without, HolderFits
      <4>2. CASE \E d \in CPUs : Has(d)
        BY <3>2, <3>3, <3>5, <4>2 DEF Without, HolderFits
      <4> QED
        BY <4>1, <4>2
    <3>6. CASE Takes(c)
      <4>1. \A d \in CPUs : ~Has(d)
        BY <2>1, <3>6 DEF Takes, IInv, Held
      <4> QED
        BY <3>3, <3>6, <4>1 DEF Takes, HolderFits, Abstract!Next, Abstract!Take
    <3>7. CASE Drops(c)
      <4>1. \A d \in CPUs : ~Has(d)'
        BY <2>1, <3>2, <3>7 DEF Drops, IInv, Exclusive
      <4> QED
        BY <3>3, <3>7, <4>1 DEF Drops, HolderFits, Abstract!Next, Abstract!Drop
    <3> QED
      BY <3>1, <3>4, <3>5, <3>6, <3>7 DEF Moves
  <2>2. ASSUME UNCHANGED vars PROVE UNCHANGED Holder
    BY <2>2 DEF vars, Holder, HasLock, InKernelCode
  <2> QED
    BY <2>1, <2>2
<1> QED
  BY <1>1, <1>3, Inductive, PTL DEF Spec, ImplementsLock, Abstract!Spec

-----------------------------------------------------------------------------
(***************************************************************************)
(* One CPU whose programs may fault.  A fault enters the kernel without    *)
(* the lock, and the release on the way out has nothing to match: the      *)
(* depth goes below zero.  What is left is that the three words recover.   *)
(***************************************************************************)
\* The boot CPU alone, with ticks outside the windows of bkl.c.
Uni == CPUs = {BSP} /\ TickPoints \cap Window = {}

\* Nobody has the lock.
Unlocked(c) ==
    /\ ~locked /\ owner = NoCpu /\ depth <= 0
    /\ step[Base(c)] \in {"out", "test", "spin", "dec"}
    /\ step[Isr(c)] \in {"test", "spin"} \/ IsrOff(c)

\* The base thread is about to have the lock, or has nearly dropped it.
BaseBetween(c) ==
    /\ locked /\ IsrOff(c)
    /\ \/ step[Base(c)] = "own" /\ owner = NoCpu
       \/ step[Base(c)] = "depth" /\ owner = c
       \/ step[Base(c)] = "disown" /\ owner = c /\ depth = 0
       \/ step[Base(c)] = "unlock" /\ owner = NoCpu /\ depth = 0

\* The base thread has it, and a tick may have deepened the hold.
BaseHolds(c) ==
    /\ locked /\ owner = c /\ Pending(Base(c))
    /\ \/ IsrOff(c) /\ depth = 1
       \/ step[Isr(c)] \in {"test", "deepen"} /\ depth = 1
       \/ Pending(Isr(c)) /\ depth = 2

\* A tick has taken it while the base thread did not have it.
IsrHolds(c) ==
    /\ locked
    /\ step[Base(c)] \in {"out", "test", "spin", "dec"}
    /\ \/ step[Isr(c)] = "own" /\ owner = NoCpu
       \/ step[Isr(c)] = "depth" /\ owner = c
       \/ Pending(Isr(c)) /\ owner = c /\ depth = 1
       \/ step[Isr(c)] = "disown" /\ owner = c /\ depth = 0
       \/ step[Isr(c)] = "unlock" /\ owner = NoCpu /\ depth = 0

UniInv ==
    /\ TypeOK
    /\ at[Isr(BSP)] \in {"isr", "off"} /\ at[Base(BSP)] \notin {"isr", "off"}
    /\ step[Isr(BSP)] \in AcquireSteps => at[Isr(BSP)] = "isr"
    /\ step[Isr(BSP)] \in ReleaseSteps => at[Isr(BSP)] = "off"
    /\ step[Base(BSP)] \in AcquireSteps => at[Base(BSP)] \in {"sched", "handler"}
    /\ step[Base(BSP)] \in ReleaseSteps => at[Base(BSP)] \in {"user", "halt", "top"}
    /\ Unlocked(BSP) \/ BaseBetween(BSP) \/ BaseHolds(BSP) \/ IsrHolds(BSP)

\* A step of bkl_acquire or bkl_release on the lone CPU, in either thread.
LEMMA UniLockStep ==
    ASSUME Uni, UniInv, TypeOK', LockStep(Base(BSP)) \/ LockStep(Isr(BSP)) PROVE UniInv'
<1> DEFINE b == Base(BSP)
           i == Isr(BSP)
<1>1. b \in Threads /\ i \in Threads /\ b # i /\ cpu(b) = BSP /\ cpu(i) = BSP
  BY ThreadsOf, BklAssumption
<1>2. step \in [Threads -> Steps] /\ at \in [Threads -> Places] /\ depth \in Int /\ BSP # NoCpu
  BY BklAssumption DEF UniInv, TypeOK
<1> USE DEF UniInv, Unlocked, BaseBetween, BaseHolds, IsrHolds, IsrOff, Pending, InKernelCode,
            AcquireSteps, ReleaseSteps, Doing, Runs, Advance, lock
<1>3. ASSUME LockStep(b) PROVE UniInv'
  <2>0. IsrOff(BSP) /\ b[2] # "isr" /\ step'[i] = step[i] /\ at' = at
    <3>1. b[2] = "base"
      BY SMTT(60) DEF Base
    <3> QED
      BY ZenonT(60), <1>1, <1>2, <1>3, <3>1 DEF LockStep, AcquireTest, Deepen, SpinLock, SetOwner, SetDepth,
         DecDepth, ClearOwner, SpinUnlock
  <2>1. CASE AcquireTest(b)
    BY SMTT(60), <1>1, <1>2, <2>0, <2>1 DEF AcquireTest
  <2>2. CASE Deepen(b)
    BY SMTT(60), <1>1, <1>2, <2>0, <2>2 DEF Deepen
  <2>3. CASE SpinLock(b)
    BY SMTT(60), <1>1, <1>2, <2>0, <2>3 DEF SpinLock
  <2>4. CASE SetOwner(b)
    BY SMTT(60), <1>1, <1>2, <2>0, <2>4 DEF SetOwner
  <2>5. CASE SetDepth(b)
    BY SMTT(60), <1>1, <1>2, <2>0, <2>5 DEF SetDepth
  <2>6. CASE DecDepth(b)
    BY SMTT(60), <1>1, <1>2, <2>0, <2>6 DEF DecDepth
  <2>7. CASE ClearOwner(b)
    BY SMTT(60), <1>1, <1>2, <2>0, <2>7 DEF ClearOwner
  <2>8. CASE SpinUnlock(b)
    BY <1>1, <1>2, <2>0, <2>8 DEF SpinUnlock
  <2> QED
    BY Zenon, <1>3, <2>1, <2>2, <2>3, <2>4, <2>5, <2>6, <2>7, <2>8 DEF LockStep
<1>4. ASSUME LockStep(i) PROVE UniInv'
  <2>0. ~IsrOff(BSP) /\ step'[b] = step[b] /\ at' = at
    BY ZenonT(60), <1>1, <1>2, <1>4 DEF LockStep, AcquireTest, Deepen, SpinLock, SetOwner, SetDepth,
         DecDepth, ClearOwner, SpinUnlock
  <2>1. CASE AcquireTest(i)
    BY SMTT(60), <1>1, <1>2, <2>0, <2>1 DEF AcquireTest
  <2>2. CASE Deepen(i)
    BY SMTT(60), <1>1, <1>2, <2>0, <2>2 DEF Deepen
  <2>3. CASE SpinLock(i)
    BY SMTT(60), <1>1, <1>2, <2>0, <2>3 DEF SpinLock
  <2>4. CASE SetOwner(i)
    BY SMTT(60), <1>1, <1>2, <2>0, <2>4 DEF SetOwner
  <2>5. CASE SetDepth(i)
    BY SMTT(60), <1>1, <1>2, <2>0, <2>5 DEF SetDepth
  <2>6. CASE DecDepth(i)
    BY SMTT(60), <1>1, <1>2, <2>0, <2>6 DEF DecDepth
  <2>7. CASE ClearOwner(i)
    BY SMTT(60), <1>1, <1>2, <2>0, <2>7 DEF ClearOwner
  <2>8. CASE SpinUnlock(i)
    BY <1>1, <1>2, <2>0, <2>8 DEF SpinUnlock
  <2> QED
    BY Zenon, <1>4, <2>1, <2>2, <2>3, <2>4, <2>5, <2>6, <2>7, <2>8 DEF LockStep
<1> QED
  BY Zenon, <1>3, <1>4

\* The moves of the scheduler loop and of the handlers between calls of bkl_*.
LEMMA UniBaseMove ==
    ASSUME Uni, UniInv, TypeOK', NEW c \in CPUs,
           LoopTop(c) \/ Idle(c) \/ Dispatch(c) \/ Resume(c) \/ SliceOver(c) \/ Woken(c)
           \/ HandlerReturns(c) \/ HandlerLeaves(c) \/ HandlerParks(c) \/ FaultLeaves(c)
           \/ Trap(c) \/ UserFault(c)
    PROVE  UniInv'
<1> DEFINE b == Base(BSP)
           i == Isr(BSP)
<1>1. b \in Threads /\ i \in Threads /\ b # i /\ c = BSP /\ b[2] # "isr"
  BY SMTT(60), ThreadsOf, BklAssumption DEF Uni, Base
<1>2. step \in [Threads -> Steps] /\ at \in [Threads -> Places] /\ depth \in Int /\ BSP # NoCpu
  BY BklAssumption DEF UniInv, TypeOK
<1> USE DEF UniInv, Unlocked, BaseBetween, BaseHolds, IsrHolds, IsrOff, Pending, InKernelCode,
            AcquireSteps, ReleaseSteps, At, Runs, lock, Acquire, Release, Jump, Goto
<1>3. IsrOff(BSP) /\ step'[i] = step[i] /\ at'[i] = at[i] /\ UNCHANGED lock /\ step[b] = "out"
  <2>1. cpu(b) = BSP
    BY Zenon, ThreadsOf, BklAssumption
  <2> QED
    BY Zenon, <1>1, <1>2, <2>1 DEF LoopTop, Idle, Dispatch, Resume, SliceOver, Woken, HandlerReturns,
       HandlerLeaves, HandlerParks, FaultLeaves, Trap, UserFault
<1>4. CASE step'[b] = "test"
  <2>1. at'[b] \in {"sched", "handler"} /\ at[b] \in {"top", "woken", "user"}
    BY Zenon, <1>1, <1>2, <1>4 DEF LoopTop, Idle, Dispatch, Resume, SliceOver, Woken, HandlerReturns,
       HandlerLeaves, HandlerParks, FaultLeaves, Trap, UserFault
  <2> QED
    BY Zenon, <1>1, <1>2, <1>3, <1>4, <2>1
<1>5. CASE step'[b] = "dec"
  <2>1. at'[b] \in {"user", "halt", "top"} /\ at[b] \in {"sched", "back", "handler"}
    BY Zenon, <1>1, <1>2, <1>5 DEF LoopTop, Idle, Dispatch, Resume, SliceOver, Woken, HandlerReturns,
       HandlerLeaves, HandlerParks, FaultLeaves, Trap, UserFault
  <2> QED
    BY Zenon, <1>1, <1>2, <1>3, <1>5, <2>1
<1>6. CASE step'[b] = "out"
  <2>1. \/ /\ at[b] \in {"sched", "back", "handler", "fault"}
           /\ at'[b] \in {"sched", "back", "handler"}
        \/ at[b] = "user" /\ at'[b] = "fault"
        \/ at[b] = "woken" /\ at'[b] = "top"
    BY Zenon, <1>1, <1>2, <1>6 DEF LoopTop, Idle, Dispatch, Resume, SliceOver, Woken, HandlerReturns,
       HandlerLeaves, HandlerParks, FaultLeaves, Trap, UserFault
  <2> QED
    BY Zenon, <1>1, <1>2, <1>3, <1>6, <2>1
<1>7. step'[b] \in {"test", "dec", "out"}
  BY Zenon, <1>1, <1>2, <1>3 DEF LoopTop, Idle, Dispatch, Resume, SliceOver, Woken, HandlerReturns,
     HandlerLeaves, HandlerParks, FaultLeaves, Trap, UserFault
<1> QED
  BY Zenon, <1>4, <1>5, <1>6, <1>7

\* A tick arrives and its handler returns.
LEMMA UniTick ==
    ASSUME Uni, UniInv, TypeOK', NEW c \in CPUs, Tick(c) \/ IsrReturns(c)
    PROVE  UniInv'
<1> DEFINE b == Base(BSP)
           i == Isr(BSP)
<1>1. b \in Threads /\ i \in Threads /\ b # i /\ c = BSP
  BY ThreadsOf, BklAssumption DEF Uni
<1>2. step \in [Threads -> Steps] /\ at \in [Threads -> Places] /\ depth \in Int /\ BSP # NoCpu
  BY BklAssumption DEF UniInv, TypeOK
<1> USE DEF UniInv, Unlocked, BaseBetween, BaseHolds, IsrHolds, IsrOff, Pending, InKernelCode,
            AcquireSteps, ReleaseSteps, lock
<1>3. CASE Tick(c)
  <2>1. IsrOff(BSP) /\ step[b] \notin Window
    BY SMTT(60), <1>1, <1>3 DEF Tick, Uni, Window
  <2>2. /\ step'[i] = "test" /\ at'[i] = "isr" /\ step'[b] = step[b] /\ UNCHANGED lock
        /\ at'[b] = IF at[b] = "halt" /\ step[b] = "out" THEN "woken" ELSE at[b]
    BY <1>1, <1>2, <1>3 DEF Tick
  <2> QED
    BY ZenonT(60), <1>1, <1>2, <2>1, <2>2 DEF Window
<1>4. CASE IsrReturns(c)
  <2>1. /\ at[i] = "isr" /\ step[i] = "out" /\ step'[i] = "dec" /\ at'[i] = "off"
        /\ step'[b] = step[b] /\ at'[b] = at[b] /\ UNCHANGED lock
    BY <1>1, <1>2, <1>4 DEF IsrReturns, At, Release, Goto
  <2> QED
    BY ZenonT(60), <1>1, <1>2, <2>1
<1> QED
  BY Zenon, <1>3, <1>4

LEMMA UniInductive == ASSUME Uni PROVE FaultSpec => []UniInv
<1>1. Init => UniInv
  <2> SUFFICES ASSUME Init PROVE UniInv
    OBVIOUS
  <2>1. TypeOK
    BY InitIInv DEF IInv
  <2>2. Base(BSP) \in Threads /\ Isr(BSP) \in Threads
    BY ThreadsOf, BklAssumption
  <2>3. /\ step[Base(BSP)] = "out" /\ step[Isr(BSP)] = "out"
        /\ at[Isr(BSP)] = "off" /\ at[Base(BSP)] = "woken"
    BY <2>2 DEF Init, Base, Isr, cpu
  <2> QED
    BY <2>1, <2>3 DEF Init, UniInv, Unlocked, IsrOff, AcquireSteps, ReleaseSteps
<1>2. UniInv /\ [FaultNext]_vars => UniInv'
  <2> SUFFICES ASSUME UniInv, [FaultNext]_vars PROVE UniInv'
    BY SMTT(60)
  <2>1. TypeOK'
    BY TypeStep DEF UniInv
  <2>2. CASE UNCHANGED vars
    BY ZenonT(60), <2>1, <2>2 DEF vars, UniInv, Unlocked, BaseBetween, BaseHolds, IsrHolds, IsrOff, Pending,
       InKernelCode
  <2>3. ASSUME NEW c \in CPUs, \/ BaseStep(c) \/ IsrStep(c) \/ Trap(c) \/ Tick(c)
                               \/ UserFault(c) \/ FaultLeaves(c)
        PROVE  UniInv'
    <3>1. c = BSP
      BY DEF Uni
    <3> QED
      BY <2>1, <2>3, <3>1, UniLockStep, UniBaseMove, UniTick DEF BaseStep, IsrStep
  <2> QED
    BY <2>2, <2>3 DEF FaultNext, Next
<1> QED
  BY <1>1, <1>2, PTL DEF FaultSpec

\* With one CPU a page fault, which leaves through a release that nothing
\* matches, never leaves a free lock with a positive depth: the next bkl_acquire
\* starts its own count and its release drops the lock.
THEOREM RecoversFromFaults == ASSUME Uni PROVE FaultSpec => []FreeMeansUncounted
<1>1. UniInv => FreeMeansUncounted
  BY SMTT(60) DEF UniInv, Unlocked, BaseBetween, BaseHolds, IsrHolds, FreeMeansUncounted
<1> QED
  BY <1>1, UniInductive, PTL

\* Nor does a tick ever wait for the code it has interrupted, although that code
\* may be a fault handler which has no lock.
THEOREM TickNeverWaitsAfterFault == ASSUME Uni PROVE FaultSpec => []NoSelfDeadlock
<1>1. UniInv => NoSelfDeadlock
  <2> SUFFICES ASSUME UniInv, NEW c \in CPUs, locked, step[Isr(c)] = "spin"
               PROVE  FALSE
    BY DEF NoSelfDeadlock
  <2>1. c = BSP
    BY DEF Uni
  <2> QED
    BY <2>1 DEF UniInv, Unlocked, BaseBetween, BaseHolds, IsrHolds, IsrOff, Pending, InKernelCode
<1> QED
  BY <1>1, UniInductive, PTL
=============================================================================
