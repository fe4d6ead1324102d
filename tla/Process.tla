------------------------------ MODULE Process ------------------------------
(***************************************************************************)
(* The process table and the scheduler of kernel/src/process.c.            *)
(*                                                                         *)
(* A kernel entry holds the big kernel lock from the trap to the return to *)
(* user mode or to the next slice (module Bkl), so an action is a whole    *)
(* entry: the handler and, when it gives up the CPU, what is left of       *)
(* process_run_ready_slice.  An action of CPU c that starts in user mode   *)
(* works on current[c], as the handlers do, while the rest of              *)
(* process_run_ready_slice works on running[c], the local variable of the  *)
(* call that dispatched the slice.  The two differ only if something went  *)
(* wrong in between.                                                       *)
(*                                                                         *)
(* An image is named by the pid of the process it was loaded for.  Clock   *)
(* values are kept as the number of ticks left to sleep.  Priorities, exit *)
(* codes, names, file descriptors and statistics are left out; terminal    *)
(* reads are in module Tty.  The heaps of user programs are left out.      *)
(***************************************************************************)
EXTENDS Integers

CONSTANTS CPUs,      \* CPUs that run the scheduler loop
          BSP,       \* the boot CPU, which drives the clock
          NoCpu,     \* running_on_cpu = -1
          NSlots,    \* PROCESS_MAX_COUNT
          MaxPid,    \* bound on g_next_pid
          MaxSleep,  \* bound on the ticks slept
          Calls      \* what programs and the desktop do in this instance

Slots   == 0 .. NSlots - 1
NoSlot  == NSlots
Pids    == 1 .. MaxPid

AllCalls == {"spawn", "launch", "exit", "wait", "sleep", "block", "thread",
             "kill", "interrupt", "fault", "overflow"}

States == {"EMPTY", "READY", "RUNNING", "SLEEPING", "WAITING", "WAITING_IO",
           "EXITED"}

ASSUME ProcessAssumption ==
    /\ BSP \in CPUs
    /\ NoCpu \notin CPUs
    /\ NSlots \in Nat \ {0}
    /\ MaxPid \in Nat \ {0}
    /\ MaxSleep \in Nat \ {0}
    /\ Calls \subseteq AllCalls

VARIABLES proc,      \* g_processes
          next_pid,  \* g_next_pid
          current,   \* this_cpu()->current, g_current_process on that CPU
          running,   \* slot whose slice the CPU is executing in user mode
          img,       \* image mapped by the CPU's CR3 during that slice
          cursor,    \* g_scheduler_cursor
          hung       \* CPUs stopped in .pf_hang or .gp_hang

vars == <<proc, next_pid, current, running, img, cursor, hung>>

Slot == [state : States, loaded : BOOLEAN, pid : 0 .. MaxPid,
         parent : 0 .. MaxPid, wait : 0 .. MaxPid, cpu : CPUs \cup {NoCpu},
         parked : BOOLEAN, thread : BOOLEAN, space : Slots \cup {NoSlot},
         image : 0 .. MaxPid, left : 0 .. MaxSleep]

EmptySlot == [state |-> "EMPTY", loaded |-> FALSE, pid |-> 0, parent |-> 0,
              wait |-> 0, cpu |-> NoCpu, parked |-> FALSE, thread |-> FALSE,
              space |-> NoSlot, image |-> 0, left |-> 0]

\* Image allocations that have not been freed.
Images(P) == {P[s].image : s \in {t \in Slots : P[t].loaded /\ ~P[t].thread}}

Lowest(S) == CHOOSE s \in S : \A t \in S : s <= t

\* process_find_by_pid
find_by_pid(P, pid) ==
    LET S == {s \in Slots : P[s].loaded /\ P[s].pid = pid}
    IN  IF pid = 0 \/ S = {} THEN NoSlot ELSE Lowest(S)

\* process_reap: everything but running_on_cpu and kresume_rsp.
reap(P, s) ==
    [P EXCEPT ![s] = [EmptySlot EXCEPT !.cpu = P[s].cpu,
                                       !.parked = P[s].parked]]

\* process_wake_waiter without the wake-up
wake_waiterForgets(P, s) == P

\* process_wake_waiter: the parent takes the child's status and the child is
\* reaped, whether or not a CPU is still running it.
wake_waiter(P, s) ==
    LET p == find_by_pid(P, P[s].parent)
    IN  IF /\ P[s].parent # 0
           /\ p # NoSlot
           /\ P[p].state = "WAITING"
           /\ P[p].wait \in {0, P[s].pid}
        THEN reap([P EXCEPT ![p].wait = 0, ![p].state = "READY"], s)
        ELSE P

\* No thread is found when the page tables are compared wrongly.
siblingsNone(P, s) == {}

\* Threads that process_kill_sibling_threads takes down with owner s.
siblings(P, s) ==
    {t \in Slots \ {s} : /\ ~P[s].thread /\ P[s].space # NoSlot
                         /\ P[t].loaded /\ P[t].thread
                         /\ P[t].state \notin {"EXITED", "EMPTY"}
                         /\ P[t].space = P[s].space}

\* process_kill_sibling_threads, slot by slot; Q is the table at slot t's turn.
\* Ending one sibling changes nothing that is tested of another, so the tests
\* are made on the first table.
end_sibling(P, s, Q, t) ==
    IF t \in siblings(P, s)
    THEN wake_waiter([Q EXCEPT ![t].state = "EXITED"], t)
    ELSE Q

kill_sibling_threads(P, s) ==
    LET upto[n \in 0 .. NSlots] ==
            IF n = 0 THEN P ELSE end_sibling(P, s, upto[n - 1], n - 1)
    IN  IF siblings(P, s) = {} THEN P ELSE upto[NSlots]

\* The common end of SYS_EXIT, process_kill and process_handle_user_fault.
die(P, s) ==
    wake_waiter(kill_sibling_threads([P EXCEPT ![s].state = "EXITED"], s), s)

\* process_kill
kill(P, pid) ==
    LET t == find_by_pid(P, pid)
    IN  IF t = NoSlot \/ P[t].state \in {"EMPTY", "EXITED"}
        THEN P ELSE die(P, t)

\* Nobody is told that the caller ended itself.
killedNone(P, pid) == {}

\* The slots whose process process_kill(pid) ends.
killed(P, pid) ==
    LET t == find_by_pid(P, pid)
    IN  IF t = NoSlot \/ P[t].state \in {"EMPTY", "EXITED"}
        THEN {} ELSE {t} \cup siblings(P, t)

\* process_find_free_slot: the lowest slot that is empty or EXITED; an EXITED
\* one is reaped.
free_slot(P) ==
    LET S == {s \in Slots : \/ ~P[s].loaded
                            \/ P[s].state \in {"EMPTY", "EXITED"}}
    IN  IF S = {} THEN NoSlot ELSE Lowest(S)

find_free_slot(P) ==
    LET s == free_slot(P)
    IN  IF s # NoSlot /\ P[s].loaded /\ P[s].state # "EMPTY"
        THEN reap(P, s) ELSE P

\* process_load_image_slot and process_setup_context for slot s.
load_image(P, s, pid, parent) ==
    [P EXCEPT ![s] = [EmptySlot EXCEPT !.state = "READY", !.loaded = TRUE,
                                       !.pid = pid, !.parent = parent,
                                       !.space = s, !.image = pid]]

\* process_create_thread: slot s shares the address space of slot p.
create_thread(P, s, pid, p) ==
    [P EXCEPT ![s] = [EmptySlot EXCEPT !.state = "READY", !.loaded = TRUE,
                                       !.pid = pid, !.parent = P[p].pid,
                                       !.thread = TRUE, !.space = P[p].space,
                                       !.image = P[p].image]]

\* process_pick_next_ready, from the scheduler cursor of the CPU.
Eligible(P, s) ==
    /\ P[s].cpu = NoCpu
    /\ \/ P[s].state = "READY"
       \/ P[s].state = "WAITING_IO" /\ P[s].parked

After(c, s) == (s - cursor[c]) % NSlots

\* The scan starts at slot 0 every time.
pick_next_readyFromZero(P, c) ==
    LET S == {s \in Slots : Eligible(P, s)}
    IN  IF S = {} THEN NoSlot ELSE Lowest(S)

pick_next_ready(P, c) ==
    LET S == {s \in Slots : Eligible(P, s)}
    IN  IF S = {} THEN NoSlot
        ELSE CHOOSE s \in S : \A t \in S : After(c, s) <= After(c, t)

\* The slot is never released.
end_sliceKeepsCpu(P, s) ==
    IF P[s].state = "EXITED" THEN wake_waiter(P, s) ELSE P

\* process_run_ready_slice after the slice: the slot is released and an exit
\* is reported to a waiting parent.
end_slice(P, s) ==
    LET Q == [P EXCEPT ![s].cpu = NoCpu]
    IN  IF Q[s].state = "EXITED" THEN wake_waiter(Q, s) ELSE Q

\* A sleeper wakes only when the clock equals its wake_tick and it is looked
\* at one tick late.
wake_readyLate(P) ==
    [s \in Slots |->
        IF P[s].state # "SLEEPING" THEN P[s]
        ELSE [P[s] EXCEPT !.left = IF @ = 0 THEN MaxSleep ELSE @ - 1]]

\* Whoever has no sleep left is made ready, asleep or not.
wake_readyAny(P) ==
    [s \in Slots |->
        IF ~P[s].loaded \/ P[s].left > 1 THEN P[s]
        ELSE [P[s] EXCEPT !.left = 0, !.state = "READY"]]

\* process_wake_ready, called by the boot CPU's tick.
wake_ready(P) ==
    [s \in Slots |->
        IF P[s].state # "SLEEPING" THEN P[s]
        ELSE [P[s] EXCEPT !.left = @ - 1,
                          !.state = IF P[s].left <= 1 THEN "READY" ELSE @]]

\* kstack_canary_check, finding the canary of slot s overwritten.
canary_kill(P, s) ==
    IF P[s].state \in {"EXITED", "EMPTY"} THEN P
    ELSE wake_waiter([P EXCEPT ![s].state = "EXITED"], s)

-----------------------------------------------------------------------------
\* The first shell, loaded before the scheduler starts.
Init ==
    /\ proc = [s \in Slots |-> IF s = 0
                               THEN load_image([t \in Slots |-> EmptySlot], 0, 1, 0)[0]
                               ELSE EmptySlot]
    /\ next_pid = 1
    /\ current = [c \in CPUs |-> NoSlot]
    /\ running = [c \in CPUs |-> NoSlot]
    /\ img = [c \in CPUs |-> 0]
    /\ cursor = [c \in CPUs |-> 0]
    /\ hung = {}

InScheduler(c) == c \notin hung /\ running[c] = NoSlot
InUser(c)      == c \notin hung /\ running[c] # NoSlot

\* The handler returns 1: back to process_run_ready_slice with table P.
GiveUp(c, P) ==
    /\ proc' = end_slice(P, running[c])
    /\ current' = [current EXCEPT ![c] = NoSlot]
    /\ running' = [running EXCEPT ![c] = NoSlot]
    /\ img' = [img EXCEPT ![c] = 0]
    /\ UNCHANGED <<cursor, hung>>

\* The handler returns 0: back to user mode with table P.
Return(c, P) ==
    /\ proc' = P
    /\ UNCHANGED <<current, running, img, cursor, hung>>

\* The cursor runs past the table.
next_slotUnwrapped(s) == s + 1

next_slot(s) == (s + 1) % NSlots

\* The claim is left to the end of the slice.
claimLate(P, s, c) == [P EXCEPT ![s].parked = FALSE]

\* process_run_ready_slice marks the process and claims it for CPU c.
claim(P, s, c) ==
    [P EXCEPT ![s].state = "RUNNING", ![s].cpu = c, ![s].parked = FALSE]

\* process_run_ready_slice up to user mode.  A parked process resumes in its
\* system call, which either completes or parks again (again = TRUE).
Dispatch(c, P, again) ==
    LET s == pick_next_ready(P, c)
    IN  /\ s # NoSlot
        /\ again => P[s].parked
        /\ proc' = IF again THEN P ELSE claim(P, s, c)
        /\ current' = [current EXCEPT ![c] = s]
        /\ running' = [running EXCEPT ![c] = IF again THEN NoSlot ELSE s]
        /\ img' = [img EXCEPT ![c] = IF again THEN 0 ELSE P[s].image]
        /\ cursor' = [cursor EXCEPT ![c] = next_slot(s)]
        /\ UNCHANGED <<next_pid, hung>>

run_ready_slice(c) ==
    /\ InScheduler(c)
    /\ \E again \in BOOLEAN : Dispatch(c, proc, again)

\* A slice that starts by finding the kernel stack of slot s overflowed.
run_ready_slice_overflow(c) ==
    /\ "overflow" \in Calls
    /\ InScheduler(c)
    /\ \E s \in {t \in Slots : proc[t].loaded} :
         LET P == canary_kill(proc, s)
         IN  \/ Dispatch(c, P, FALSE)
             \/ /\ pick_next_ready(P, c) = NoSlot
                /\ proc' = P
                /\ current' = [current EXCEPT ![c] = IF @ = s THEN NoSlot ELSE @]
                /\ UNCHANGED <<next_pid, running, img, cursor, hung>>

-----------------------------------------------------------------------------
\* syscall_handle_interrupt.  A program that was ended while it was in user
\* mode gets no further than the first test.
Alive(c) == current[c] # NoSlot /\ proc[current[c]].state # "EXITED"

syscall_of_the_dead(c) ==
    /\ InUser(c)
    /\ ~Alive(c)
    /\ GiveUp(c, proc)
    /\ UNCHANGED next_pid

Serving(c, call) == call \in Calls /\ InUser(c) /\ Alive(c)

SYS_YIELD(c) ==
    /\ InUser(c) /\ Alive(c)
    /\ GiveUp(c, [proc EXCEPT ![current[c]].state = "READY"])
    /\ UNCHANGED next_pid

SYS_EXIT(c) ==
    /\ Serving(c, "exit")
    /\ GiveUp(c, die(proc, current[c]))
    /\ UNCHANGED next_pid

\* SYS_PROCESS_SPAWN and SYS_SPAWN_PTY: the slot is taken first, so a zombie
\* may be reaped even when the program is then not found or not loadable.
SYS_PROCESS_SPAWN(c) ==
    /\ Serving(c, "spawn")
    /\ LET s == free_slot(proc)
           P == find_free_slot(proc)
           parent == P[current[c]].pid
       IN  \/ /\ s # NoSlot
              /\ next_pid < MaxPid
              /\ next_pid' = next_pid + 1
              /\ Return(c, load_image(P, s, next_pid', parent))
           \/ Return(c, P) /\ UNCHANGED next_pid

SYS_THREAD_CREATE(c) ==
    /\ Serving(c, "thread")
    /\ next_pid < MaxPid
    /\ LET s == free_slot(proc)
       IN  /\ s # NoSlot
           /\ next_pid' = next_pid + 1
           /\ Return(c, create_thread(find_free_slot(proc), s, next_pid',
                                      current[c]))

\* The children process_find_exited_child looks for.
exited_children(P, parent, target) ==
    {s \in Slots : /\ P[s].loaded /\ P[s].state = "EXITED"
                   /\ P[s].cpu = NoCpu
                   /\ P[s].parent = parent
                   /\ target \in {0, P[s].pid}}

SYS_WAITPID(c) ==
    /\ Serving(c, "wait")
    /\ UNCHANGED next_pid
    /\ LET p == current[c]
       IN  \E target \in 0 .. next_pid :
             LET S == exited_children(proc, proc[p].pid, target)
             IN  \/ S # {} /\ Return(c, reap(proc, Lowest(S)))
                 \/ /\ S = {}
                    /\ GiveUp(c, [proc EXCEPT ![p].wait = target,
                                              ![p].state = "WAITING"])

\* SYS_TIMER_SLEEP and SYS_SLEEP_MS
SYS_TIMER_SLEEP(c) ==
    /\ Serving(c, "sleep")
    /\ \E n \in 1 .. MaxSleep :
          GiveUp(c, [proc EXCEPT ![current[c]].state = "SLEEPING",
                                 ![current[c]].left = n])
    /\ UNCHANGED next_pid

\* process_yield_blocking, from a system call that waits for the network.
\* this_cpu()->current keeps pointing at the parked process.
yield_blocking(c) ==
    /\ Serving(c, "block")
    /\ proc' = end_slice([proc EXCEPT ![current[c]].state = "WAITING_IO",
                                      ![current[c]].parked = TRUE], running[c])
    /\ running' = [running EXCEPT ![c] = NoSlot]
    /\ img' = [img EXCEPT ![c] = 0]
    /\ UNCHANGED <<next_pid, current, cursor, hung>>

SYS_PROCESS_KILL(c) ==
    /\ Serving(c, "kill")
    /\ UNCHANGED next_pid
    /\ \E pid \in 1 .. next_pid :
          IF current[c] \in killed(proc, pid)
          THEN GiveUp(c, kill(proc, pid))
          ELSE Return(c, kill(proc, pid))

\* process_handle_user_fault; see Bkl for what it does to the lock.  With no
\* live process to blame, the stub stops the CPU.
user_fault(c) ==
    /\ "fault" \in Calls
    /\ InUser(c)
    /\ UNCHANGED next_pid
    /\ IF Alive(c) /\ proc[current[c]].state # "EMPTY"
       THEN GiveUp(c, die(proc, current[c]))
       ELSE /\ hung' = hung \cup {c}
            /\ UNCHANGED <<proc, current, running, img, cursor>>

-----------------------------------------------------------------------------
\* The tick of CPU c: timer_handle_interrupt on the boot CPU, which also
\* advances the clock, process_ap_timer elsewhere.
Ticked(c) == IF c = BSP THEN wake_ready(proc) ELSE proc

\* An EXITED process is put back in the ready queue.
PreemptedAlways(P, s) == [P EXCEPT ![s].state = "READY"]

Preempted(P, s) ==
    IF P[s].state = "EXITED" THEN P ELSE [P EXCEPT ![s].state = "READY"]

timer_interrupt(c) ==
    /\ c \notin hung
    /\ UNCHANGED next_pid
    /\ IF running[c] # NoSlot /\ current[c] # NoSlot
       THEN GiveUp(c, Preempted(Ticked(c), current[c]))
       ELSE Return(c, Ticked(c))

\* The boot CPU between two slices: the window manager starts a program (the
\* dock, the launcher) and ends one (the close button, a terminal's shell).
spawn_path ==
    /\ "launch" \in Calls
    /\ InScheduler(BSP)
    /\ next_pid < MaxPid
    /\ LET s == free_slot(proc)
       IN  /\ s # NoSlot
           /\ next_pid' = next_pid + 1
           /\ Return(BSP, load_image(find_free_slot(proc), s, next_pid', 0))

\* process_kill from kernel_main's loop; it also clears a stale current.
desktop_kill ==
    /\ "kill" \in Calls
    /\ InScheduler(BSP)
    /\ \E pid \in 1 .. next_pid :
          /\ proc' = kill(proc, pid)
          /\ current' = [current EXCEPT ![BSP] = IF @ \in killed(proc, pid)
                                                 THEN NoSlot ELSE @]
    /\ UNCHANGED <<next_pid, running, img, cursor, hung>>

\* process_interrupt_terminal: Ctrl+C ends what each shell of the terminal
\* waits for, in slot order.  All programs share one terminal here.
Waiter(P, s) ==
    P[s].loaded /\ ~P[s].thread /\ P[s].state = "WAITING" /\ P[s].wait # 0

interrupt_one(Q, s) == IF Waiter(Q, s) THEN kill(Q, Q[s].wait) ELSE Q

interrupt(P) ==
    LET upto[n \in 0 .. NSlots] ==
            IF n = 0 THEN P ELSE interrupt_one(upto[n - 1], n - 1)
    IN  upto[NSlots]

interrupt_terminal ==
    /\ "interrupt" \in Calls
    /\ InScheduler(BSP)
    /\ Return(BSP, interrupt(proc))
    /\ UNCHANGED next_pid

\* Programs that are not ended by others and have no threads.
Next ==
    \/ \E c \in CPUs : \/ run_ready_slice(c)
                       \/ SYS_YIELD(c)
                       \/ SYS_EXIT(c)
                       \/ SYS_PROCESS_SPAWN(c)
                       \/ SYS_WAITPID(c)
                       \/ SYS_TIMER_SLEEP(c)
                       \/ yield_blocking(c)
                       \/ user_fault(c)
                       \/ timer_interrupt(c)
    \/ spawn_path

Spec == Init /\ [][Next]_vars

\* Programs are ended by other programs, by the desktop and by a check of their
\* kernel stack, while they may be running, and share their memory with threads.
EndNext ==
    \/ Next
    \/ \E c \in CPUs : \/ run_ready_slice_overflow(c)
                       \/ syscall_of_the_dead(c)
                       \/ SYS_THREAD_CREATE(c)
                       \/ SYS_PROCESS_KILL(c)
    \/ desktop_kill
    \/ interrupt_terminal

EndSpec == Init /\ [][EndNext]_vars

\* The boot CPU's loop keeps asking for a slice and its clock keeps ticking.
\* Nothing is assumed of the other CPUs, which queue for the kernel lock.
LiveSpec ==
    Spec /\ WF_vars(run_ready_slice(BSP)) /\ WF_vars(timer_interrupt(BSP))

-----------------------------------------------------------------------------
\* The table and the per-CPU variables keep their types.
TypeOK ==
    /\ proc \in [Slots -> Slot]
    /\ next_pid \in 0 .. MaxPid
    /\ current \in [CPUs -> Slots \cup {NoSlot}]
    /\ running \in [CPUs -> Slots \cup {NoSlot}]
    /\ img \in [CPUs -> 0 .. MaxPid]
    /\ cursor \in [CPUs -> Slots]
    /\ hung \subseteq CPUs

\* No slot is executed by two CPUs: process_pick_next_ready never hands out a
\* process that another CPU is running.
NoDoubleDispatch ==
    \A c, d \in CPUs : running[c] # NoSlot /\ running[c] = running[d] => c = d

\* A CPU in user mode runs the process it dispatched: a loaded one, RUNNING
\* and claimed for this CPU, and the one its system calls act on.
RunsItsProcess ==
    \A c \in CPUs : running[c] # NoSlot =>
        /\ current[c] = running[c]
        /\ proc[running[c]].loaded
        /\ proc[running[c]].state = "RUNNING"
        /\ proc[running[c]].cpu = c

\* A claimed slot is one a CPU is running: an unused claim would keep the
\* process from ever being picked again.
ClaimsAreUsed ==
    \A s \in Slots : proc[s].cpu # NoCpu => running[proc[s].cpu] = s

\* No CPU executes an image that process_reap has freed.
ImageAlive ==
    \A c \in CPUs : running[c] # NoSlot => img[c] \in Images(proc)

\* A process asleep in waitpid has no child it could collect: the exit of a
\* child never slips past process_wake_waiter.
NoMissedExit ==
    \A p \in Slots : proc[p].loaded /\ proc[p].state = "WAITING" =>
        exited_children(proc, proc[p].pid, proc[p].wait) = {}

\* A live thread has a live owner, whose page tables and image it borrows.
ThreadsDieWithOwner ==
    \A t \in Slots : proc[t].loaded /\ proc[t].thread
                       /\ proc[t].state # "EXITED" =>
        \E o \in Slots : /\ proc[o].loaded /\ ~proc[o].thread
                         /\ proc[o].state # "EXITED"
                         /\ proc[o].space = proc[t].space
                         /\ proc[o].image = proc[t].image

\* Every fault of a program ends the program, not the CPU.
FaultsOnlyExit == hung = {}

\* With one CPU: the process in user mode is the one the table says, its image
\* has not been freed, and no fault takes the CPU with it.
RunsSafely == TypeOK /\ RunsItsProcess /\ ImageAlive /\ FaultsOnlyExit

\* With several CPUs and nobody ended by another: process_run_ready_slice hands
\* a process to one CPU only, which runs it until it releases the claim.
DispatchedOnce == TypeOK /\ RunsItsProcess /\ NoDoubleDispatch /\ ClaimsAreUsed

\* Once dead, a process does not come back: it leaves EXITED only by being
\* reaped, never by being made ready again.
DeadStaysDead ==
    [][\A s \in Slots : proc[s].state = "EXITED" /\ proc'[s].pid = proc[s].pid
                           => proc'[s].state = "EXITED"]_vars

\* Round robin: a process that is ready to run gets a CPU.
ReadyRuns ==
    \A s \in Slots : proc[s].state = "READY" ~> proc[s].state # "READY"

\* A sleeper is woken by the clock of the boot CPU.
SleepersWake ==
    \A s \in Slots : proc[s].state = "SLEEPING" ~> proc[s].state # "SLEEPING"
=============================================================================
