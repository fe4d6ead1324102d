---------------------------- MODULE Arm64Process ----------------------------
(***************************************************************************)
(* Processes and threads of the arm64 kernel (kernel/arch/arm64/process.c, *)
(* the process system calls of arch.c, smp.c).  Scheduling is cooperative: *)
(* a CPU takes the big kernel lock, runs one process until it gives up the *)
(* CPU, and drops the lock.  Only a process that waits for the network     *)
(* drops it in between, and it stays on its CPU meanwhile.                 *)
(*                                                                         *)
(* An address space is named by the pid of the process it was made for.    *)
(* The round-robin cursor is left out: any ready process may be next.      *)
(***************************************************************************)
EXTENDS Integers, FiniteSets, FiniteSetsExt

CONSTANTS Slots,    \* g_procs
          Cpus,
          MaxPid    \* bound on g_next_pid

VARIABLES state,    \* loaded and state of a slot; "none" is not loaded
          pid,      \* of the last process in the slot
          thread,   \* is_thread
          target,   \* wait_target_pid
          space,    \* the address space that g_aspaces[slot] names; 0 is none
          cr3,      \* the same as the process table has it
          pin,      \* running_on_cpu; 0 is none
          mem,      \* address spaces that are allocated
          nextPid,  \* g_next_pid
          current,  \* cpu.current; 0 is none
          slice,    \* slice[c]: where process_run_ready_slice is on CPU c
          bkl       \* CPU that holds the big kernel lock; 0 is none

proc == <<state, pid, thread, target, space, cr3>>
vars == <<state, pid, thread, target, space, cr3, pin, mem, nextPid, current, slice, bkl>>

Alive(s) == state[s] \notin {"none", "exited"}
Loaded(s) == state[s] # "none"

find_free_slot == {s \in Slots : ~Alive(s)}

has_living_threads(s) ==
    \E t \in Slots \ {s} : Alive(t) /\ thread[t] /\ cr3[t] = cr3[s]

\* Fault variant: the threads of the process are not looked for.
freesAlways(s) == ~thread[s]

\* Does the end of the process in s free its address space?
frees(s) == ~thread[s] /\ ~has_living_threads(s)

\* aspace_free, for the process in s that ends.
release(s) ==
    IF frees(s) THEN /\ mem' = mem \ {space[s]}
                     /\ space' = [space EXCEPT ![s] = 0]
    ELSE UNCHANGED <<mem, space>>

\* Fault variant: nobody is told.
wake_waitersNone(s) == [state EXCEPT ![s] = "exited"]

\* s has ended, and everyone who waits for its pid goes on.
wake_waiters(s) ==
    [t \in Slots |->
        IF t = s THEN "exited"
        ELSE IF state[t] = "waiting" /\ target[t] = pid[s] THEN "ready" ELSE state[t]]

\* Who may run kernel code: a CPU in a slice, or the boot CPU in its loop.
InSlice(c) == slice[c] = "user" /\ bkl = c

-----------------------------------------------------------------------------
(* process_run_ready_slice                                                 *)

\* Sleepers whose time has come are woken, then a ready process is entered.
Dispatch(c) ==
    /\ slice[c] = "loop" /\ bkl = 0
    /\ \E due \in SUBSET {s \in Slots : state[s] = "sleeping"} :
         \E s \in {t \in Slots : state[t] = "ready"} \cup due :
            /\ state' = [t \in Slots |-> IF t = s THEN "running"
                                         ELSE IF t \in due THEN "ready" ELSE state[t]]
            /\ pin' = [pin EXCEPT ![s] = c]
            /\ current' = [current EXCEPT ![c] = s]
    /\ slice' = [slice EXCEPT ![c] = "user"]
    /\ bkl' = c
    /\ UNCHANGED <<pid, thread, target, space, cr3, mem, nextPid>>

\* The process of CPU c has given up the CPU in state next.
leave(c, next) ==
    /\ state' = [state EXCEPT ![current[c]] = next]
    /\ pin' = [pin EXCEPT ![current[c]] = 0]
    /\ slice' = [slice EXCEPT ![c] = "loop"]
    /\ bkl' = 0

\* arm64_yield_current, and arm64_sleep_current of SYS_TIMER_SLEEP.
Yield(c) ==
    /\ InSlice(c)
    /\ \E next \in {"ready", "sleeping"} : leave(c, next)
    /\ current' = [current EXCEPT ![c] = 0]
    /\ UNCHANGED <<pid, thread, target, space, cr3, mem, nextPid>>

\* A fault of the program: it is entered again, from its start, later.
Fault(c) ==
    /\ InSlice(c)
    /\ leave(c, "ready")
    /\ UNCHANGED <<pid, thread, target, space, cr3, mem, nextPid, current>>

process_handle_exit(c) ==
    LET s == current[c] IN
    /\ InSlice(c)
    /\ release(s)
    /\ state' = wake_waiters(s)
    /\ pin' = [pin EXCEPT ![s] = 0]
    /\ current' = [current EXCEPT ![c] = 0]
    /\ slice' = [slice EXCEPT ![c] = "loop"]
    /\ bkl' = 0
    /\ UNCHANGED <<pid, thread, target, cr3, nextPid>>

\* SYS_WAITPID of a pid that is in the table and has not exited.
Waitpid(c) ==
    /\ InSlice(c)
    /\ \E t \in Slots :
         /\ Alive(t)
         /\ target' = [target EXCEPT ![current[c]] = pid[t]]
    /\ leave(c, "waiting")
    /\ current' = [current EXCEPT ![c] = 0]
    /\ UNCHANGED <<pid, thread, space, cr3, mem, nextPid>>

\* arm64_net_wait_pump: the lock is dropped and taken again.
NetWait(c) ==
    /\ InSlice(c)
    /\ state' = [state EXCEPT ![current[c]] = "waiting_io"]
    /\ slice' = [slice EXCEPT ![c] = "wait"]
    /\ bkl' = 0
    /\ UNCHANGED <<pid, thread, target, space, cr3, pin, mem, nextPid, current>>

NetBack(c) ==
    /\ slice[c] = "wait" /\ bkl = 0
    /\ state' = [state EXCEPT ![current[c]] = "running"]
    /\ slice' = [slice EXCEPT ![c] = "user"]
    /\ bkl' = c
    /\ UNCHANGED <<pid, thread, target, space, cr3, pin, mem, nextPid, current>>

-----------------------------------------------------------------------------
(* Handlers that run inside a slice, and in the loop of the boot CPU.      *)

\* Fault variant: a process in a system call is killed like any other.
killableAny(s) == Loaded(s)

\* Is the process in s killed?  Not while it is on a CPU.
killable(s) == Loaded(s) /\ pin[s] = 0

\* On CPU c.  Also of a process that has already exited.
process_kill(c, s) ==
    /\ killable(s)
    /\ release(s)
    /\ state' = wake_waiters(s)
    /\ current' = [current EXCEPT ![c] = IF @ = s THEN 0 ELSE @]
    /\ UNCHANGED <<pid, thread, target, cr3, pin, nextPid, slice, bkl>>

\* The slot of an exited process is taken; on an error it is left empty.
process_spawn_path ==
    /\ find_free_slot # {}
    /\ \E s \in {Min(find_free_slot)} :
         \/ /\ nextPid <= MaxPid
            /\ state' = [state EXCEPT ![s] = "ready"]
            /\ pid' = [pid EXCEPT ![s] = nextPid]
            /\ thread' = [thread EXCEPT ![s] = FALSE]
            /\ space' = [space EXCEPT ![s] = nextPid]
            /\ cr3' = [cr3 EXCEPT ![s] = nextPid]
            /\ mem' = mem \cup {nextPid}
            /\ pin' = [pin EXCEPT ![s] = 0]
            /\ nextPid' = nextPid + 1
         \/ /\ state' = [state EXCEPT ![s] = "none"]
            /\ space' = [space EXCEPT ![s] = 0]
            /\ UNCHANGED <<pid, thread, cr3, mem, pin, nextPid>>
    /\ UNCHANGED <<target, current, slice, bkl>>

process_create_thread(parent) ==
    /\ find_free_slot # {} /\ nextPid <= MaxPid
    /\ \E s \in {Min(find_free_slot)} :
         /\ state' = [state EXCEPT ![s] = "ready"]
         /\ pid' = [pid EXCEPT ![s] = nextPid]
         /\ thread' = [thread EXCEPT ![s] = TRUE]
         /\ target' = [target EXCEPT ![s] = 0]
         /\ space' = [space EXCEPT ![s] = space[parent]]
         /\ cr3' = [cr3 EXCEPT ![s] = cr3[parent]]
         /\ pin' = [pin EXCEPT ![s] = 0]
    /\ nextPid' = nextPid + 1
    /\ UNCHANGED <<mem, current, slice, bkl>>

\* System calls of the process on CPU c; the boot CPU kills and starts
\* processes from its loop too (a closed window, Ctrl+C, the launcher).
Syscall(c) ==
    /\ InSlice(c)
    /\ \/ \E s \in Slots : process_kill(c, s)
       \/ process_spawn_path
       \/ process_create_thread(current[c])

Compositor ==
    /\ slice[Min(Cpus)] = "loop" /\ bkl = 0
    /\ (\E s \in Slots : process_kill(Min(Cpus), s)) \/ process_spawn_path

Init ==
    /\ state = [s \in Slots |-> "none"]
    /\ pid = [s \in Slots |-> 0] /\ target = pid /\ space = pid /\ cr3 = pid /\ pin = pid
    /\ thread = [s \in Slots |-> FALSE]
    /\ mem = {} /\ nextPid = 1
    /\ current = [c \in Cpus |-> 0]
    /\ slice = [c \in Cpus |-> "loop"]
    /\ bkl = 0

Next ==
    \/ Compositor
    \/ \E c \in Cpus :
         \/ Dispatch(c) \/ Yield(c) \/ Fault(c) \/ process_handle_exit(c)
         \/ Waitpid(c) \/ NetWait(c) \/ NetBack(c) \/ Syscall(c)

Spec == Init /\ [][Next]_vars

-----------------------------------------------------------------------------
\* State is well typed (struct process, struct arm64_aspace, struct cpu).
TypeOK ==
    /\ state \in [Slots -> {"none", "ready", "running", "sleeping", "waiting",
                            "waiting_io", "exited"}]
    /\ pid \in [Slots -> 0..MaxPid] /\ target \in [Slots -> 0..MaxPid]
    /\ space \in [Slots -> 0..MaxPid] /\ cr3 \in [Slots -> 0..MaxPid]
    /\ thread \in [Slots -> BOOLEAN] /\ pin \in [Slots -> Cpus \cup {0}]
    /\ mem \subseteq 1..MaxPid /\ nextPid \in 1..MaxPid + 1
    /\ current \in [Cpus -> Slots \cup {0}]
    /\ slice \in [Cpus -> {"loop", "user", "wait"}]
    /\ bkl \in Cpus \cup {0}

\* "Do not free that process's address space underneath the active syscall": a
\* process or thread that can run again has its address space, also while it
\* waits for the network without the lock, and whichever of the processes and
\* threads that share it are killed or exit.
SpaceAlive == \A s \in Slots : Alive(s) => space[s] \in mem

\* A process runs on one CPU at a time, also one that waits for the network
\* while the others are scheduled.
OnOneCpu ==
    /\ \A c \in Cpus : slice[c] # "loop" =>
          current[c] # 0 /\ pin[current[c]] = c
          /\ state[current[c]] = IF slice[c] = "user" THEN "running" ELSE "waiting_io"
    /\ \A s \in Slots : pin[s] # 0 => slice[pin[s]] # "loop" /\ current[pin[s]] = s

\* Whoever waits in SYS_WAITPID waits for a process that has still to end: no
\* kill, exit or reuse of a slot goes by without the wake-up.
WaitersHaveTargets ==
    \A s \in Slots : state[s] = "waiting" =>
       \E t \in Slots : Alive(t) /\ pid[t] = target[s]
=============================================================================
