-------------------------------- MODULE Bkl --------------------------------
(***************************************************************************)
(* The Big Kernel Lock (kernel/src/bkl.c) and the trap entry and exit      *)
(* paths that take and drop it (interrupt_stubs.S, the scheduler loops in  *)
(* smp.c and kernel.c), one store per step.                                *)
(*                                                                         *)
(* Every CPU runs two threads of control: "base", the scheduler loop and   *)
(* whatever it switches to (a user program, a system call), and "isr", the *)
(* timer handler nested in it when the tick arrives in kernel mode.  The   *)
(* handler runs with interrupts off, so there is one level of nesting.     *)
(***************************************************************************)
EXTENDS Integers

CONSTANTS CPUs,        \* indices of the registered CPUs
          BSP,         \* the boot CPU, which runs kernel_main's loop
          NoCpu,       \* g_bkl_owner = -1
          TickPoints,  \* kernel positions at which a timer tick may arrive
          MaxParked,   \* bound on the system calls parked at a time
          MaxDebt      \* bound on the unmatched releases after faults

\* The steps of bkl_acquire and bkl_release, in program order.
AcquireSteps == {"test", "deepen", "spin", "own", "depth"}
ReleaseSteps == {"dec", "disown", "unlock"}
Steps == AcquireSteps \cup ReleaseSteps \cup {"out"}

\* Where a thread is, or returns to when its call of bkl_* is over.
Places == {"top", "sched", "handler", "back", "fault", "halt", "woken",
           "user", "isr", "off"}

Kinds   == {"base", "isr"}
Threads == CPUs \X Kinds

\* Positions inside bkl_acquire and bkl_release where the spinlock, the owner
\* and the depth do not agree yet or any more.
Window == {"own", "depth", "disown", "unlock"}

\* Ticks everywhere in the kernel, and everywhere but in the windows.
AllPoints  == Steps \cup Places
SafePoints == AllPoints \ Window

ASSUME BklAssumption ==
    /\ BSP \in CPUs
    /\ NoCpu \notin CPUs
    /\ TickPoints \subseteq (Steps \cup Places)
    /\ MaxParked \in Nat
    /\ MaxDebt \in Nat

VARIABLES locked,   \* g_bkl_lock.locked
          owner,    \* g_bkl_owner
          depth,    \* g_bkl_depth
          at,       \* place of each thread
          step,     \* its position in bkl_acquire or bkl_release, or "out"
          parked,   \* system calls parked by process_block_current
          intr      \* RFLAGS.IF of each CPU's base thread while in the kernel

vars == <<locked, owner, depth, at, step, parked, intr>>
lock == <<locked, owner, depth>>

cpu(t)  == t[1]
Base(c) == <<c, "base">>
Isr(c)  == <<c, "isr">>

\* A thread runs only when no interrupt handler is nested in it.
IsrOff(c) == at[Isr(c)] = "off" /\ step[Isr(c)] = "out"
Runs(t)   == t[2] = "isr" \/ IsrOff(cpu(t))

At(t, p)    == Runs(t) /\ at[t] = p /\ step[t] = "out"
Doing(t, s) == Runs(t) /\ step[t] = s

Goto(t, p) == at' = [at EXCEPT ![t] = p]

\* Call bkl_acquire or bkl_release, continuing at place p.
Acquire(t, p) == Goto(t, p) /\ step' = [step EXCEPT ![t] = "test"]
Release(t, p) == Goto(t, p) /\ step' = [step EXCEPT ![t] = "dec"]
Jump(t, p)    == Goto(t, p) /\ UNCHANGED step
Advance(t, s) == step' = [step EXCEPT ![t] = s] /\ UNCHANGED <<at, parked, intr>>

-----------------------------------------------------------------------------
(* bkl_acquire *)

\* Fault variant: an acquire that does not look for its own CPU's hold.
AcquireNoRecursion(t) ==
    /\ Doing(t, "test")
    /\ Advance(t, "spin")
    /\ UNCHANGED lock

\* if (g_bkl_owner == me)
AcquireTest(t) ==
    /\ Doing(t, "test")
    /\ Advance(t, IF owner = cpu(t) THEN "deepen" ELSE "spin")
    /\ UNCHANGED lock

\* Fault variant: the recursive acquire forgets to count.
DeepenUncounted(t) ==
    /\ Doing(t, "deepen")
    /\ Advance(t, "out")
    /\ UNCHANGED lock

\* g_bkl_depth++; return
Deepen(t) ==
    /\ Doing(t, "deepen")
    /\ depth' = depth + 1
    /\ Advance(t, "out")
    /\ UNCHANGED <<locked, owner>>

\* spin_lock: the test-and-set that finds the lock free
SpinLock(t) ==
    /\ Doing(t, "spin")
    /\ ~locked
    /\ locked' = TRUE
    /\ Advance(t, "own")
    /\ UNCHANGED <<owner, depth>>

\* g_bkl_owner = me
SetOwner(t) ==
    /\ Doing(t, "own")
    /\ owner' = cpu(t)
    /\ Advance(t, "depth")
    /\ UNCHANGED <<locked, depth>>

\* g_bkl_depth = 1
SetDepth(t) ==
    /\ Doing(t, "depth")
    /\ depth' = 1
    /\ Advance(t, "out")
    /\ UNCHANGED <<locked, owner>>

(* bkl_release *)

\* Fault variant: the test for the outermost release is off by one.
DecDepthOffByOne(t) ==
    /\ Doing(t, "dec")
    /\ depth' = depth - 1
    /\ Advance(t, IF depth = 2 THEN "disown" ELSE "out")
    /\ UNCHANGED <<locked, owner>>

\* Fault variant: any release unlocks, not only the outermost one.
DecDepthEager(t) ==
    /\ Doing(t, "dec")
    /\ depth' = depth - 1
    /\ Advance(t, "disown")
    /\ UNCHANGED <<locked, owner>>

\* if (--g_bkl_depth == 0)
DecDepth(t) ==
    /\ Doing(t, "dec")
    /\ depth' = depth - 1
    /\ Advance(t, IF depth = 1 THEN "disown" ELSE "out")
    /\ UNCHANGED <<locked, owner>>

\* Fault variant: the owner is reset to a CPU index instead of "no CPU".
ClearOwnerToZero(t) ==
    /\ Doing(t, "disown")
    /\ owner' = 0
    /\ Advance(t, "unlock")
    /\ UNCHANGED <<locked, depth>>

\* g_bkl_owner = -1
ClearOwner(t) ==
    /\ Doing(t, "disown")
    /\ owner' = NoCpu
    /\ Advance(t, "unlock")
    /\ UNCHANGED <<locked, depth>>

\* spin_unlock
SpinUnlock(t) ==
    /\ Doing(t, "unlock")
    /\ locked' = FALSE
    /\ Advance(t, "out")
    /\ UNCHANGED <<owner, depth>>

LockStep(t) ==
    \/ AcquireTest(t) \/ Deepen(t) \/ SpinLock(t) \/ SetOwner(t) \/ SetDepth(t)
    \/ DecDepth(t) \/ ClearOwner(t) \/ SpinUnlock(t)

-----------------------------------------------------------------------------
(* The scheduler loops. *)

\* ap_main: the top of the loop takes the lock.
LoopTop(c) ==
    /\ At(Base(c), "top")
    /\ Acquire(Base(c), "sched")
    /\ UNCHANGED <<lock, parked, intr>>

\* process_run_ready_slice finds nothing: both loops drop the lock and halt.
Idle(c) ==
    /\ At(Base(c), "sched")
    /\ Release(Base(c), "halt")
    /\ UNCHANGED <<lock, parked, intr>>

\* process_run_slice: the lock is dropped on the way out to user mode.
Dispatch(c) ==
    /\ At(Base(c), "sched")
    /\ Release(Base(c), "user")
    /\ UNCHANGED <<lock, parked, intr>>

\* process_resume_blocked: back into a parked system call, lock kept.
Resume(c) ==
    /\ At(Base(c), "sched")
    /\ parked > 0
    /\ parked' = parked - 1
    /\ Jump(Base(c), "handler")
    /\ UNCHANGED <<lock, intr>>

\* process_run_ready_slice returned after running a process.  An AP drops the
\* lock; the boot CPU keeps it across its loop and enables interrupts.
SliceOver(c) ==
    /\ At(Base(c), "back")
    /\ IF c = BSP
       THEN Jump(Base(c), "sched") /\ intr' = [intr EXCEPT ![c] = TRUE]
       ELSE Release(Base(c), "top") /\ UNCHANGED intr
    /\ UNCHANGED <<lock, parked>>

\* After the halt: an AP loops with interrupts enabled ("sti; hlt"), the boot
\* CPU disables them and takes the lock again ("sti; hlt; cli").
Woken(c) ==
    /\ At(Base(c), "woken")
    /\ IF c = BSP
       THEN Acquire(Base(c), "sched") /\ intr' = [intr EXCEPT ![c] = FALSE]
       ELSE Jump(Base(c), "top") /\ UNCHANGED intr
    /\ UNCHANGED <<lock, parked>>

(* Traps. *)

\* A system call, or a timer tick in user mode: the stub takes the lock first.
Trap(c) ==
    /\ At(Base(c), "user")
    /\ Acquire(Base(c), "handler")
    /\ intr' = [intr EXCEPT ![c] = FALSE]
    /\ UNCHANGED <<lock, parked>>

\* A page or general protection fault in user mode: the stub does not.
UserFault(c) ==
    /\ depth > 0 - MaxDebt
    /\ At(Base(c), "user")
    /\ Jump(Base(c), "fault")
    /\ intr' = [intr EXCEPT ![c] = FALSE]
    /\ UNCHANGED <<lock, parked>>

\* Fault variant: the way back to user mode does not drop the lock.
HandlerReturnsHolding(c) ==
    /\ At(Base(c), "handler")
    /\ Jump(Base(c), "user")
    /\ UNCHANGED <<lock, parked, intr>>

\* The handler returned 0: interrupt_restore_user_context.
HandlerReturns(c) ==
    /\ At(Base(c), "handler")
    /\ Release(Base(c), "user")
    /\ UNCHANGED <<lock, parked, intr>>

\* The handler returned 1: process_run_slice_return, with the lock held.
HandlerLeaves(c) ==
    /\ At(Base(c), "handler")
    /\ Jump(Base(c), "back")
    /\ UNCHANGED <<lock, parked, intr>>

\* process_block_current: the system call parks on its own kernel stack and the
\* CPU goes back to process_run_ready_slice, with the lock held.
HandlerParks(c) ==
    /\ At(Base(c), "handler")
    /\ parked < MaxParked
    /\ parked' = parked + 1
    /\ Jump(Base(c), "back")
    /\ UNCHANGED <<lock, intr>>

\* process_handle_user_fault returned 1: process_run_slice_return.
FaultLeaves(c) ==
    /\ At(Base(c), "fault")
    /\ Jump(Base(c), "back")
    /\ UNCHANGED <<lock, parked, intr>>

\* A timer tick in kernel mode.
Tick(c) ==
    /\ IsrOff(c)
    /\ IF step[Base(c)] = "out"
       THEN at[Base(c)] \in TickPoints \ {"user"} /\ (at[Base(c)] = "halt" \/ intr[c])
       ELSE step[Base(c)] \in TickPoints /\ intr[c]
    /\ at' = [at EXCEPT ![Isr(c)] = "isr",
                        ![Base(c)] = IF @ = "halt" /\ step[Base(c)] = "out"
                                     THEN "woken" ELSE @]
    /\ step' = [step EXCEPT ![Isr(c)] = "test"]
    /\ intr' = [intr EXCEPT ![c] = @ \/ at[Base(c)] = "halt"]
    /\ UNCHANGED <<lock, parked>>

\* timer_handle_interrupt returns 0 for a tick in kernel mode.
IsrReturns(c) ==
    /\ At(Isr(c), "isr")
    /\ Release(Isr(c), "off")
    /\ UNCHANGED <<lock, parked, intr>>

-----------------------------------------------------------------------------
Init ==
    /\ locked = FALSE /\ owner = NoCpu /\ depth = 0
    /\ at = [t \in Threads |-> IF t[2] = "isr" THEN "off"
                              ELSE IF cpu(t) = BSP THEN "woken" ELSE "top"]
    /\ step = [t \in Threads |-> "out"]
    /\ parked = 0
    /\ intr = [c \in CPUs |-> FALSE]

BaseStep(c) ==
    \/ LockStep(Base(c))
    \/ LoopTop(c) \/ Idle(c) \/ Dispatch(c) \/ Resume(c) \/ SliceOver(c)
    \/ Woken(c) \/ HandlerReturns(c) \/ HandlerLeaves(c) \/ HandlerParks(c)

IsrStep(c) == LockStep(Isr(c)) \/ IsrReturns(c)

\* No user program faults.
Next == \E c \in CPUs : BaseStep(c) \/ IsrStep(c) \/ Trap(c) \/ Tick(c)

Spec == Init /\ [][Next]_vars

\* User programs fault as they like.
FaultNext == Next \/ \E c \in CPUs : UserFault(c) \/ FaultLeaves(c)

FaultSpec == Init /\ [][FaultNext]_vars

(***************************************************************************)
(* Fairness.  A CPU keeps executing instructions.  The timer is periodic,  *)
(* so ticks leave room for the code they interrupt: fairness is strong for *)
(* the steps of the base thread that tick handlers disable for a while.    *)
(* A system call that is resumed again and again is over some day, because *)
(* every wait of net.c for an answer has a deadline, and its locks are     *)
(* held no longer than such waits last.  Nothing more than weak fairness   *)
(* is assumed of the test-and-set, which serves its waiters in any order,  *)
(* and nothing of traps and ticks.                                         *)
(***************************************************************************)
Fairness ==
    \A c \in CPUs :
        /\ WF_vars(IsrStep(c)) /\ WF_vars(SpinLock(Base(c)))
        /\ SF_vars(BaseStep(c) /\ step[Base(c)] # "spin")
        /\ SF_vars(HandlerReturns(c))

FairSpec == Spec /\ Fairness

-----------------------------------------------------------------------------
(* Properties. *)

\* The three words of bkl.c and the positions of all threads in their code.
TypeOK ==
    /\ locked \in BOOLEAN
    /\ owner \in CPUs \cup {NoCpu}
    /\ depth \in Int
    /\ at \in [Threads -> Places]
    /\ step \in [Threads -> Steps]
    /\ parked \in 0 .. MaxParked
    /\ intr \in [CPUs -> BOOLEAN]

\* A thread is running kernel code that the lock is there to serialise.
InKernelCode(t) == step[t] = "out" /\ at[t] \in {"sched", "handler", "back", "fault", "isr"}

\* "serialises all in-kernel execution" (bkl.h): two CPUs are never in kernel
\* code together.
KernelExclusive ==
    \A t, u \in Threads : InKernelCode(t) /\ InKernelCode(u) => cpu(t) = cpu(u)

\* A thread has the spinlock, or runs under a hold of it: from the test-and-set
\* or the deepening of its own CPU's hold to the end of the matching release.
HasLock(t) ==
    \/ step[t] \in {"own", "depth", "dec", "disown", "unlock"}
    \/ InKernelCode(t)

\* "re-acquires the lock the CPU already owns ... instead of self-deadlocking"
\* (bkl.h): a timer handler never spins on the lock that the code it has
\* interrupted has taken or has not finished dropping.
NoSelfDeadlock ==
    \A c \in CPUs : locked /\ step[Isr(c)] = "spin" => ~HasLock(Base(c))

\* "only truly released when the depth returns to zero" (bkl.h): while a CPU
\* runs kernel code it is the recorded owner and the depth is the number of
\* its threads that still have to release the lock.
Pending(t) == step[t] = "dec" \/ InKernelCode(t)

DepthCounts ==
    \A t \in Threads : InKernelCode(t) =>
        /\ locked /\ owner = cpu(t)
        /\ depth = (IF Pending(Base(cpu(t))) THEN 1 ELSE 0)
                  + (IF Pending(Isr(cpu(t))) THEN 1 ELSE 0)

\* What bkl.h promises of the lock while it is held: one CPU is in the kernel,
\* it is the recorded owner, and its releases are counted.
LockExact == TypeOK /\ KernelExclusive /\ DepthCounts

\* The depth of a free lock is never positive, even after the unmatched releases
\* that follow a fault: the next owner starts from a count of its own.
FreeMeansUncounted == ~locked => depth <= 0

\* A spinning CPU does not wait for ever while nobody takes the lock.
SomeoneGetsIn ==
    (\E t \in Threads : step[t] = "spin") ~> (\E t \in Threads : step[t] = "own")

\* The lock implements the abstract one: the CPU that has it is the holder.
Holder == IF \E t \in Threads : HasLock(t)
          THEN cpu(CHOOSE t \in Threads : HasLock(t))
          ELSE NoCpu

Abstract == INSTANCE KernelLock WITH holder <- Holder

\* Every step of bkl.c and of the trap paths takes the lock when it is free,
\* drops it when it is held, or leaves it alone.
ImplementsLock == Abstract!Spec

=============================================================================
