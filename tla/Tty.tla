-------------------------------- MODULE Tty --------------------------------
(***************************************************************************)
(* One terminal: the input side of kernel/src/tty.c, the blocking read and *)
(* the wake-up in process.c, and the session that app_terminal.c runs on   *)
(* it.  Every action is a system call or a pass of the boot CPU's main     *)
(* loop, and runs to its end under the big kernel lock (module Bkl).       *)
(*                                                                         *)
(* A byte is named by where it comes from: <<L, k>> is the k-th byte of    *)
(* the L-th line that Enter finished (its last byte is the '\n' that a     *)
(* read appends) and <<0, n>> is the n-th key, delivered raw.  What is     *)
(* drawn (scrollback, partial output, the screen) is left out.             *)
(***************************************************************************)
EXTENDS Integers, Sequences, TLC

CONSTANTS Pids,      \* processes that may use the terminal
          NoPid,     \* waiter_pid = 0, shell_pid = 0
          Capacity,  \* TTY_INPUT_CAPACITY
          Counts,    \* sizes of reads
          MaxKeys    \* bound on the keys typed

ASSUME TtyAssumption ==
    /\ NoPid \notin Pids
    /\ Capacity \in Nat \ {0, 1}
    /\ Counts \subseteq Nat
    /\ MaxKeys \in Nat

VARIABLES tty,        \* struct tty, its input side
          state,      \* state of each process
          parent,     \* parent_pid
          wait,       \* wait_target_pid
          want,       \* pending_read_count
          shell_pid,  \* the terminal application's shell
          keys,       \* keys typed so far
          lines,      \* lines finished so far
          got         \* bytes delivered by reads, in order

vars == <<tty, state, parent, wait, want, shell_pid, keys, lines, got>>
procs == <<state, parent, wait, want>>

\* Processes are interchangeable.
Interchangeable == Permutations(Pids)

States == {"UNBORN", "READY", "WAITING", "WAITING_IO", "EXITED"}
Bytes  == (0 .. MaxKeys) \X Nat

\* The first n elements of a sequence, or all of it.
First(s, n) == SubSeq(s, 1, IF n < Len(s) THEN n ELSE Len(s))

Alive(p) == state[p] \notin {"UNBORN", "EXITED"}

-----------------------------------------------------------------------------
(* tty.c *)

\* tty_init; tty_reset leaves raw_input_mode alone.
Fresh(raw) == [input_length |-> 0, cooked_length |-> 0, line_ready |-> 0,
               raw_input |-> <<>>, waiter_pid |-> NoPid,
               ansi_mode |-> FALSE, raw_input_mode |-> raw]

tty_reset(T) == Fresh(T.raw_input_mode)

\* Fault variant: the ring is filled to the last byte, terminator not counted.
tty_queue_raw_inputFull(T, data) ==
    [T EXCEPT !.raw_input = @ \o First(data, Capacity - Len(@))]

\* Bytes that do not fit are dropped.
tty_queue_raw_input(T, data) ==
    [T EXCEPT !.raw_input = @ \o First(data, Capacity - 1 - Len(@))]

\* Fault variant: the code the comment in tty_fd_read tells of, which put the
\* '\n' at the end of every read and dropped the rest of the line.
drainEachRead(T, n) ==
    LET size == IF T.cooked_length < n THEN T.cooked_length ELSE n - 1
    IN  [k \in 1 .. size |-> <<T.line_ready, k>>]
            \o <<<<T.line_ready, T.cooked_length + 1>>>>

\* A finished line goes into the ring with its '\n', cut to the ring's size.
drain(T, n) ==
    LET size == IF T.cooked_length < Capacity THEN T.cooked_length ELSE Capacity - 1
    IN  [k \in 1 .. size |-> <<T.line_ready, k>>]
            \o <<<<T.line_ready, T.cooked_length + 1>>>>

\* Queued bytes go first; only an empty ring takes in the finished line.
drains(T) == T.raw_input = <<>> /\ T.line_ready > 0

\* Fault variant: the line stays ready after it went into the ring.
drainedStillReady(T) == [T EXCEPT !.waiter_pid = NoPid]

drained(T) == [T EXCEPT !.line_ready = 0, !.cooked_length = 0, !.waiter_pid = NoPid]

\* The terminal after a read of n bytes, and the bytes it returns.
tty_fd_read(T, n) ==
    LET ring == IF drains(T) THEN drain(T, n) ELSE T.raw_input
        left == IF drains(T) THEN drained(T) ELSE T
    IN  IF n = 0 THEN [tty |-> T, bytes |-> <<>>]
        ELSE [tty |-> [left EXCEPT !.raw_input = SubSeq(ring, n + 1, Len(ring))],
              bytes |-> First(ring, n)]

-----------------------------------------------------------------------------
(* process.c *)

HasInput(T) == T.line_ready > 0 \/ T.raw_input # <<>>

\* process_wake_tty_reader: the registered reader's read is completed for it.
wake_tty_reader(T) ==
    LET p == T.waiter_pid
        r == tty_fd_read([T EXCEPT !.waiter_pid = NoPid], want[p])
    IN  IF p = NoPid \/ state[p] # "WAITING_IO"
        THEN tty' = [T EXCEPT !.waiter_pid = NoPid] /\ UNCHANGED <<state, want, got>>
        ELSE /\ tty' = r.tty
             /\ got' = got \o r.bytes
             /\ state' = [state EXCEPT ![p] = "READY"]
             /\ want' = [want EXCEPT ![p] = 0]

\* Fault variant: a dying reader leaves its registration behind.
clear_pending_tty_waitNot(T, dead) == T

\* process_clear_pending_tty_wait for the processes that die in this step.
clear_pending_tty_wait(T, dead) ==
    IF T.waiter_pid \in dead THEN [T EXCEPT !.waiter_pid = NoPid] ELSE T

\* Processes end (SYS_EXIT, process_kill, a fault): whoever waits for one of
\* them in waitpid is woken.  T is the terminal before they let go of it.
Die(T, dead) ==
    /\ tty' = clear_pending_tty_wait(T, dead)
    /\ state' = [p \in Pids |-> IF p \in dead THEN "EXITED"
                                ELSE IF state[p] = "WAITING" /\ wait[p] \in dead THEN "READY"
                                ELSE state[p]]
    /\ wait' = [p \in Pids |-> IF p \in dead \/ wait[p] \in dead THEN NoPid ELSE wait[p]]
    /\ want' = [p \in Pids |-> IF p \in dead THEN 0 ELSE want[p]]
    /\ UNCHANGED parent

\* process_interrupt_terminal: what the processes blocked in waitpid wait for.
Foreground == {wait[p] : p \in {q \in Pids : state[q] = "WAITING"}}

-----------------------------------------------------------------------------
(* System calls of a process that uses the terminal. *)

Running(p) == state[p] = "READY"

\* SYS_READ: process_try_blocking_tty_read parks the process when there is
\* nothing to read, and the read proper runs otherwise.
SYS_READ(p, n) ==
    /\ Running(p)
    /\ IF HasInput(tty)
       THEN LET r == tty_fd_read(tty, n)
            IN  /\ tty' = r.tty /\ got' = got \o r.bytes
                /\ UNCHANGED procs
       ELSE /\ state' = [state EXCEPT ![p] = "WAITING_IO"]
            /\ want' = [want EXCEPT ![p] = n]
            /\ tty' = [tty EXCEPT !.waiter_pid = p]
            /\ UNCHANGED <<parent, wait, got>>
    /\ UNCHANGED <<shell_pid, keys, lines>>

\* SYS_WRITE of text with an escape in it switches to screen mode.
tty_fd_write(p) ==
    /\ Running(p)
    /\ tty' = [tty EXCEPT !.ansi_mode = TRUE]
    /\ UNCHANGED <<procs, shell_pid, keys, lines, got>>

\* SYS_IOCTL with TTY_IOCTL_CLEAR.
IoctlClear(p) ==
    /\ Running(p)
    /\ tty' = tty_reset(tty)
    /\ UNCHANGED <<procs, shell_pid, keys, lines, got>>

\* SYS_IOCTL with TTY_IOCTL_SET_RAW: a half-typed line is dropped.
IoctlSetRaw(p, on) ==
    /\ Running(p)
    /\ tty' = [tty EXCEPT !.raw_input_mode = on, !.input_length = 0]
    /\ UNCHANGED <<procs, shell_pid, keys, lines, got>>

\* A child inherits the terminal as its standard input.
Spawn(p, child) ==
    /\ Running(p)
    /\ state[child] = "UNBORN"
    /\ state' = [state EXCEPT ![child] = "READY"]
    /\ parent' = [parent EXCEPT ![child] = p]
    /\ UNCHANGED <<tty, wait, want, shell_pid, keys, lines, got>>

\* Waiting for a child that is still there.
SYS_WAITPID(p, child) ==
    /\ Running(p)
    /\ parent[child] = p /\ Alive(child)
    /\ state' = [state EXCEPT ![p] = "WAITING"]
    /\ wait' = [wait EXCEPT ![p] = child]
    /\ UNCHANGED <<tty, parent, want, shell_pid, keys, lines, got>>

\* SYS_EXIT, process_kill from another process, or a fault.
End(p) ==
    /\ Alive(p)
    /\ Die(tty, {p})
    /\ UNCHANGED <<shell_pid, keys, lines, got>>

-----------------------------------------------------------------------------
(* The keyboard and the serial line, polled by the main loop. *)

\* Ctrl+C kills the foreground jobs.  A job that is itself in waitpid may die
\* before or after its own turn in the scan of the process table.
interrupt_terminal ==
    /\ keys < MaxKeys
    /\ keys' = keys + 1
    /\ \E dead \in SUBSET Foreground :
        /\ \A p \in Pids : state[p] = "WAITING" => p \in dead \/ wait[p] \in dead
        /\ Die(tty, dead)
    /\ UNCHANGED <<shell_pid, lines, got>>

Raw == tty.ansi_mode \/ tty.raw_input_mode

\* n keys pressed since the last poll, in raw or screen mode.
DeliverRaw(n) ==
    /\ Raw
    /\ n > 0 /\ keys + n <= MaxKeys
    /\ keys' = keys + n
    /\ wake_tty_reader(tty_queue_raw_input(tty, [i \in 1 .. n |-> <<0, keys + i>>]))
    /\ UNCHANGED <<parent, wait, shell_pid, lines>>

\* Fault variant: backspace on an empty line.
EditedUnderflow(backspace, n) ==
    LET left == IF backspace THEN tty.input_length - 1 ELSE tty.input_length
    IN  IF left + n < Capacity THEN left + n ELSE Capacity - 1

\* The line being edited after backspace and n more characters.
Edited(backspace, n) ==
    LET left == IF backspace /\ tty.input_length > 0 THEN tty.input_length - 1
                ELSE tty.input_length
    IN  IF left + n < Capacity THEN left + n ELSE Capacity - 1

\* Characters and backspace in cooked mode.
EditLine(backspace, n) ==
    /\ ~Raw
    /\ (backspace \/ n > 0)
    /\ keys + n + (IF backspace THEN 1 ELSE 0) <= MaxKeys
    /\ keys' = keys + n + (IF backspace THEN 1 ELSE 0)
    /\ tty' = [tty EXCEPT !.input_length = Edited(backspace, n)]
    /\ UNCHANGED <<procs, shell_pid, lines, got>>

\* Fault variant: a finished line wakes nobody.
EnterSilent(backspace, n) ==
    /\ ~Raw
    /\ keys + n + 1 + (IF backspace THEN 1 ELSE 0) <= MaxKeys
    /\ keys' = keys + n + 1 + (IF backspace THEN 1 ELSE 0)
    /\ lines' = lines + 1
    /\ tty' = [tty EXCEPT !.cooked_length = Edited(backspace, n),
                          !.line_ready = lines + 1, !.input_length = 0]
    /\ UNCHANGED <<procs, shell_pid, got>>

\* Enter finishes the line, over one that nobody has read yet, and wakes the
\* registered reader.
Enter(backspace, n) ==
    /\ ~Raw
    /\ keys + n + 1 + (IF backspace THEN 1 ELSE 0) <= MaxKeys
    /\ keys' = keys + n + 1 + (IF backspace THEN 1 ELSE 0)
    /\ lines' = lines + 1
    /\ wake_tty_reader([tty EXCEPT !.cooked_length = Edited(backspace, n),
                                   !.line_ready = lines + 1, !.input_length = 0])
    /\ UNCHANGED <<parent, wait, shell_pid>>

\* One poll of the keyboard: Ctrl+C drops whatever else was pressed.
tty_handle_keyboard ==
    \/ interrupt_terminal
    \/ \E n \in 1 .. MaxKeys : DeliverRaw(n)
    \/ \E n \in 0 .. MaxKeys, backspace \in BOOLEAN :
        EditLine(backspace, n) \/ Enter(backspace, n)

\* One byte from the serial line; a poll with several bytes is as many steps.
tty_handle_serial_input ==
    \/ interrupt_terminal
    \/ DeliverRaw(1)
    \/ EditLine(TRUE, 0) \/ EditLine(FALSE, 1) \/ Enter(FALSE, 0)

-----------------------------------------------------------------------------
(* The terminal application, app_terminal.c. *)

\* A new shell on the fresh terminal, if there is a process slot for it.
spawn_shell(st) ==
    \/ \E p \in Pids :
        /\ state[p] = "UNBORN"
        /\ state' = [st EXCEPT ![p] = "READY"]
        /\ shell_pid' = p
    \/ state' = st /\ shell_pid' = NoPid

\* "New terminal": the shell is killed and the terminal wiped.  Other processes
\* of the session keep the terminal as their standard input.
restart_shell ==
    /\ shell_pid # NoPid
    /\ spawn_shell([state EXCEPT ![shell_pid] = "EXITED"])
    /\ wait' = [wait EXCEPT ![shell_pid] = NoPid]
    /\ want' = [want EXCEPT ![shell_pid] = 0]
    /\ tty' = Fresh(FALSE)
    /\ UNCHANGED <<parent, keys, lines, got>>

\* The shell died and its window was closed.
window_closed ==
    /\ shell_pid # NoPid /\ ~Alive(shell_pid)
    /\ shell_pid' = NoPid
    /\ tty' = Fresh(FALSE)
    /\ UNCHANGED <<procs, keys, lines, got>>

\* The dock reopens a terminal that has no shell.
activate ==
    /\ shell_pid = NoPid
    /\ spawn_shell(state)
    /\ tty' = Fresh(FALSE)
    /\ UNCHANGED <<parent, wait, want, keys, lines, got>>

-----------------------------------------------------------------------------
Init ==
    \E shell \in Pids :
        /\ tty = Fresh(FALSE)
        /\ state = [p \in Pids |-> IF p = shell THEN "READY" ELSE "UNBORN"]
        /\ parent = [p \in Pids |-> NoPid]
        /\ wait = [p \in Pids |-> NoPid]
        /\ want = [p \in Pids |-> 0]
        /\ shell_pid = shell
        /\ keys = 0 /\ lines = 0 /\ got = <<>>

SystemCall(p) ==
    \/ \E n \in Counts : SYS_READ(p, n)
    \/ tty_fd_write(p) \/ IoctlClear(p) \/ \E on \in BOOLEAN : IoctlSetRaw(p, on)
    \/ \E q \in Pids : Spawn(p, q) \/ SYS_WAITPID(p, q)
    \/ End(p)

Next ==
    \/ \E p \in Pids : SystemCall(p)
    \/ tty_handle_keyboard \/ tty_handle_serial_input
    \/ restart_shell \/ window_closed \/ activate

Spec == Init /\ [][Next]_vars

-----------------------------------------------------------------------------
(* Properties. *)

\* The fields of struct tty and what the process table has on its readers.
TypeOK ==
    /\ tty \in [input_length : Nat, cooked_length : Nat, line_ready : 0 .. MaxKeys,
                raw_input : Seq(Bytes), waiter_pid : Pids \cup {NoPid},
                ansi_mode : BOOLEAN, raw_input_mode : BOOLEAN]
    /\ state \in [Pids -> States]
    /\ parent \in [Pids -> Pids \cup {NoPid}]
    /\ wait \in [Pids -> Pids \cup {NoPid}]
    /\ want \in [Pids -> Counts \cup {0}]
    /\ shell_pid \in Pids \cup {NoPid}
    /\ keys \in 0 .. MaxKeys /\ lines \in 0 .. keys
    /\ got \in Seq(Bytes)

\* The fixed buffers of struct tty always have room for the terminator that
\* every store is followed by, also when a line as long as the edit buffer goes
\* into the ring together with its '\n' and only part of it is read.
BuffersFit ==
    /\ tty.input_length < Capacity
    /\ tty.cooked_length < Capacity
    /\ Len(tty.raw_input) < Capacity

\* The registered reader is blocked in a read of this terminal: no kill, exit,
\* Ctrl+C or wake-up leaves waiter_pid pointing at a process that moved on.
WaiterIsBlocked == tty.waiter_pid # NoPid => state[tty.waiter_pid] = "WAITING_IO"

\* No lost wake-up: while a reader is registered there is nothing to read, so
\* input that arrives between its test and its blocking, or after, reaches it.
NoStrandedInput == tty.waiter_pid # NoPid => ~HasInput(tty)

\* "drain it into the raw ring so partial reads can pick it up byte-by-byte"
\* (tty_fd_read): whatever the sizes of the reads and whoever reads, the bytes
\* of a line come out in order, without a gap and with nothing in between.
LinesWhole ==
    \A i \in 1 .. Len(got) : got[i][1] > 0 /\ got[i][2] > 1 =>
        i > 1 /\ got[i - 1] = <<got[i][1], got[i][2] - 1>>

\* Nothing is delivered twice, and neither lines nor raw keys overtake their
\* own kind.
DeliveredInOrder ==
    \A i, j \in 1 .. Len(got) : i < j =>
        IF got[i][1] = 0 /\ got[j][1] = 0 THEN got[i][2] < got[j][2]
        ELSE got[i][1] > 0 /\ got[j][1] > 0 =>
             \/ got[i][1] < got[j][1]
             \/ got[i][1] = got[j][1] /\ got[i][2] < got[j][2]

\* tty_read, tty_handle_char: every line reaches its reader whole, and the bytes
\* come in the order in which they were typed, whoever waits, is woken or is
\* killed; no buffer overflows.
LinesExact == TypeOK /\ BuffersFit /\ LinesWhole /\ DeliveredInOrder
=============================================================================
