----------------------------- MODULE Arm64Shell -----------------------------
(***************************************************************************)
(* The arm64 kernel's own shell and its system calls for files, terminals  *)
(* and arguments.                                                          *)
(***************************************************************************)
EXTENDS Integers, Sequences, FiniteSets, FiniteSetsExt, SequencesExt

(***************************************************************************)
(* File, terminal and argument system calls of the arm64 kernel            *)
(* (kernel/arch/arm64/arch.c): one table of open files, one pseudo         *)
(* terminal and one argument string, shared by all processes.              *)
(*                                                                         *)
(* A process belongs to the terminal if its shell is among its ancestors;  *)
(* its stdin and stdout are then the rings of the terminal.  A byte is the *)
(* pid that wrote it (0 for the terminal emulator).                        *)
(***************************************************************************)
CONSTANTS Fds,       \* 3..ARM64_MAX_FD-1
          Inos,      \* files of the disk
          Pids,      \* processes that may be started, in this order
          Args,      \* argument strings; "" is none
          Size,      \* PTY_BUF_SIZE
          Depth      \* bound of is_pty_session

VARIABLES file,      \* g_files
          in, out,   \* rings of g_pty
          child,     \* g_pty.child_pid; 0 is none
          arg,       \* g_spawn_arg
          proc,      \* proc[p]: parent, argument it was given, argument it read
          typed,     \* bytes that the terminal has written and nobody has read
          printed    \* bytes that processes have written, unread

sysvars == <<file, in, out, child, arg, proc, typed, printed>>

Empty == [buf |-> [i \in 0..Size-1 |-> 0], head |-> 0, tail |-> 0, count |-> 0]
Closed == [used |-> FALSE, type |-> "file", ino |-> 0, opened |-> "none"]
NotStarted == [state |-> "none", parent |-> 0, given |-> "", got |-> ""]

Running(p) == proc[p].state = "running"
Loaded(p) == proc[p].state \in {"running", "exited"}

-----------------------------------------------------------------------------
\* Fault variant: a full ring still takes the byte.
ring_putOver(r, b) ==
    [r EXCEPT !.buf[r.head] = b, !.head = (r.head + 1) % Size, !.count = Min({r.count + 1, Size})]

\* One byte into a ring; it is dropped when the ring is full.
ring_put(r, b) ==
    IF r.count = Size THEN r
    ELSE [r EXCEPT !.buf[r.head] = b, !.head = (r.head + 1) % Size, !.count = r.count + 1]

contents(r) == [i \in 1..r.count |-> r.buf[(r.tail + i - 1) % Size]]

ring_get(r) == [r EXCEPT !.tail = (r.tail + 1) % Size, !.count = r.count - 1]

\* Is leader p itself, or one of its first Depth ancestors?
RECURSIVE ancestor(_, _, _)
ancestor(p, leader, depth) ==
    \/ p = leader
    \/ depth > 0 /\ p # 0 /\ Loaded(p) /\ proc[p].parent # 0
       /\ ancestor(proc[p].parent, leader, depth - 1)

is_pty_session(p) == child # 0 /\ ancestor(p, child, Depth)

FreeFds == {f \in Fds : ~file[f].used}

\* The type of the slot is not set: it is what the slot held before.
openFile(f, ino, how) ==
    file' = [file EXCEPT ![f].used = TRUE, ![f].ino = ino, ![f].opened = how]

-----------------------------------------------------------------------------
(* SYS_OPEN and SYS_CREAT, SYS_CLOSE                                       *)

Open(ino, how) ==
    /\ FreeFds # {}
    /\ openFile(Min(FreeFds), ino, how)
    /\ UNCHANGED <<in, out, child, arg, proc, typed, printed>>

Close(f) ==
    /\ file[f].used
    /\ file' = [file EXCEPT ![f].used = FALSE]
    /\ UNCHANGED <<in, out, child, arg, proc, typed, printed>>

(* SYS_PTY_OPEN, SYS_SPAWN_PTY, SYS_PROCESS_SPAWN                          *)

PtyOpen ==
    /\ FreeFds # {}
    /\ file' = [file EXCEPT ![Min(FreeFds)].used = TRUE, ![Min(FreeFds)].type = "pty",
                            ![Min(FreeFds)].opened = "pty"]
    /\ in' = Empty /\ out' = Empty /\ typed' = <<>> /\ printed' = <<>>
    /\ child' = 0
    /\ UNCHANGED <<arg, proc>>

started(p, parent, a) ==
    proc' = [proc EXCEPT ![p] = [state |-> "running", parent |-> parent, given |-> a, got |-> ""]]

Unstarted == {p \in Pids : proc[p].state = "none"}

\* By the terminal emulator, which is not in the session itself.  The argument
\* is left as the last spawn set it.
SpawnPty(f) ==
    /\ file[f].used /\ file[f].type = "pty"
    /\ Unstarted # {}
    /\ started(Min(Unstarted), 0, arg)
    /\ child' = Min(Unstarted)
    /\ UNCHANGED <<file, in, out, arg, typed, printed>>

Spawn(p, a) ==
    /\ Running(p) /\ Unstarted # {}
    /\ started(Min(Unstarted), p, a)
    /\ arg' = a
    /\ UNCHANGED <<file, in, out, child, typed, printed>>

\* SYS_GETARG, by the start-up code of p.
Getarg(p) ==
    /\ Running(p) /\ proc[p].got = ""
    /\ proc' = [proc EXCEPT ![p].got = arg]
    /\ UNCHANGED <<file, in, out, child, arg, typed, printed>>

\* process_handle_exit, or a kill: the slot keeps the record of the process.
exited(p) == proc' = [proc EXCEPT ![p].state = "exited"]

\* process_kill refuses with -2 while the process is on a CPU.
killed(p) == exited(p) \/ UNCHANGED proc

Exit(p) ==
    /\ Running(p)
    /\ exited(p)
    /\ UNCHANGED <<file, in, out, child, arg, typed, printed>>

\* The slot of an exited process is taken for another one.
Reuse(p) ==
    /\ proc[p].state = "exited"
    /\ proc' = [proc EXCEPT ![p].state = "gone"]
    /\ UNCHANGED <<file, in, out, child, arg, typed, printed>>

\* SYS_PTY_INTERRUPT: "Ctrl+C to foreground job", which is the shell.
PtyInterrupt ==
    /\ child # 0 /\ Running(child)
    /\ killed(child)
    /\ UNCHANGED <<file, in, out, child, arg, typed, printed>>

-----------------------------------------------------------------------------
(* SYS_READ and SYS_WRITE, one byte                                        *)

Write(p) ==
    /\ Running(p) /\ is_pty_session(p)
    /\ out' = ring_put(out, p)
    /\ printed' = IF Len(printed) = Size THEN printed ELSE Append(printed, p)
    /\ UNCHANGED <<file, in, child, arg, proc, typed>>

\* A reader of an empty ring yields and tries again.
Read(p) ==
    /\ Running(p) /\ is_pty_session(p)
    /\ in.count > 0
    /\ in' = ring_get(in)
    /\ typed' = Tail(typed)
    /\ UNCHANGED <<file, out, child, arg, proc, printed>>

\* Ctrl+C kills the shell of the terminal, and is not queued.
MasterWrite(f, ctrlC) ==
    /\ file[f].used /\ file[f].type = "pty"
    /\ IF ctrlC /\ child # 0
       THEN /\ IF Running(child) THEN killed(child) ELSE UNCHANGED proc
            /\ UNCHANGED <<in, typed>>
       ELSE /\ in' = ring_put(in, 0)
            /\ typed' = IF Len(typed) = Size THEN typed ELSE Append(typed, 0)
            /\ UNCHANGED proc
    /\ UNCHANGED <<file, out, child, arg, printed>>

MasterRead(f) ==
    /\ file[f].used /\ file[f].type = "pty"
    /\ out.count > 0
    /\ out' = ring_get(out)
    /\ printed' = Tail(printed)
    /\ UNCHANGED <<file, in, child, arg, proc, typed>>

SysInit ==
    /\ file = [f \in Fds |-> Closed]
    /\ in = Empty /\ out = Empty /\ typed = <<>> /\ printed = <<>>
    /\ child = 0 /\ arg = ""
    /\ proc = [p \in Pids |-> NotStarted]

SysNext ==
    \/ \E ino \in Inos, how \in {"open", "creat"} : Open(ino, how)
    \/ PtyOpen \/ PtyInterrupt
    \/ \E f \in Fds : Close(f) \/ SpawnPty(f) \/ MasterRead(f)
    \/ \E f \in Fds, ctrlC \in BOOLEAN : MasterWrite(f, ctrlC)
    \/ \E p \in Pids : Getarg(p) \/ Exit(p) \/ Reuse(p) \/ Write(p) \/ Read(p)
    \/ \E p \in Pids, a \in Args : Spawn(p, a)

-----------------------------------------------------------------------------
\* State is well typed (struct arm64_file, struct arm64_pty).
SysTypeOK ==
    /\ \A f \in Fds : /\ file[f].used \in BOOLEAN /\ file[f].type \in {"file", "pty"}
                      /\ file[f].ino \in Inos \cup {0}
    /\ \A r \in {in, out} : r.head \in 0..Size-1 /\ r.tail \in 0..Size-1 /\ r.count \in 0..Size
    /\ child \in Pids \cup {0} /\ arg \in Args \cup {""}

\* The rings hold what was written and not yet read, in that order, whoever of
\* the session reads and writes, also when they run full and wrap around.
RingsExact ==
    /\ \A r \in {in, out} : r.head = (r.tail + r.count) % Size
    /\ contents(in) = typed
    /\ contents(out) = printed

-----------------------------------------------------------------------------
(***************************************************************************)
(* The arm64 boot CPU's own loops (arch/arm64/arch.c).                     *)
(*   Line   shell_loop: the serial console's line editor and its history;  *)
(*   Gui    gui_run: a frame takes the pending resolution, the keys and    *)
(*          the mouse, and shows the back buffer.                          *)
(***************************************************************************)
CONSTANTS Chars, LineCap, HistCap, MaxRuns,
          Widths,             \* screen widths asked for
          WinWidths,          \* window -> its width
          Keys,               \* "x" are characters; "enter", "rub", "intr" the rest
          KeyCap,             \* keyboard.chars
          MaxKeys             \* bound on the keys typed

VARIABLES line, hist, browse, ran, overwritten
VARIABLES asked, fb, bb, live, wins, buttons, prev, desk, keysTyped, got, interrupts

lvars == <<line, hist, browse, ran, overwritten>>
gvars == <<asked, fb, bb, live, wins, buttons, prev, desk, keysTyped, got, interrupts>>

-----------------------------------------------------------------------------
(* Line: browse counts the entries gone back, 0 is the line being typed.   *)

ConsoleInit == line = <<>> /\ hist = <<>> /\ browse = 0 /\ ran = <<>> /\ overwritten = FALSE

Key(c) ==
    /\ Len(line) < LineCap /\ line' = Append(line, c)
    /\ UNCHANGED <<hist, browse, ran, overwritten>>

Rub == line # <<>> /\ line' = Front(line) /\ UNCHANGED <<hist, browse, ran, overwritten>>

recalled(b) == hist[Len(hist) - b + 1]

(* shell_consume_escape: going back from a typed line keeps it in the      *)
(* first history entry.                                                    *)
Up ==
    LET keeps == browse = 0 /\ line # <<>>
    IN  /\ hist # <<>>
        /\ hist' = IF keeps THEN [hist EXCEPT ![1] = line] ELSE hist
        /\ overwritten' = (overwritten \/ (keeps /\ hist[1] # line))
        /\ IF browse < Len(hist)
           THEN browse' = browse + 1 /\ line' = hist'[Len(hist) - browse]
           ELSE UNCHANGED <<browse, line>>
        /\ UNCHANGED ran

Down ==
    /\ browse > 0 /\ browse' = browse - 1
    /\ line' = IF browse' > 0 THEN recalled(browse') ELSE <<>>
    /\ UNCHANGED <<hist, ran, overwritten>>

(* A command is kept unless it is empty or the newest one again.           *)
keptEvery(h) ==
    IF line = <<>> THEN h ELSE IF Len(h) < HistCap THEN Append(h, line) ELSE Append(Tail(h), line)

kept(h) ==
    IF line = <<>> \/ (h # <<>> /\ Last(h) = line) THEN h
    ELSE IF Len(h) < HistCap THEN Append(h, line) ELSE Append(Tail(h), line)

Enter ==
    /\ Len(ran) < MaxRuns \/ line = <<>>
    /\ hist' = kept(hist) /\ ran' = IF line = <<>> THEN ran ELSE Append(ran, line)
    /\ line' = <<>> /\ browse' = 0 /\ UNCHANGED overwritten

ConsoleNext == (\E c \in Chars : Key(c)) \/ Rub \/ Up \/ Down \/ Enter

(* The commands run, repetitions in a row left out: the last HistCap.      *)
LastRan ==
    LET news == SelectSeq([i \in 1..Len(ran) |-> i], LAMBDA i : i = 1 \/ ran[IF i = 1 THEN 1 ELSE i - 1] # ran[i])
        n == Len(news)
    IN  [i \in 1..(IF n < HistCap THEN n ELSE HistCap) |->
            ran[news[(IF n < HistCap THEN 0 ELSE n - HistCap) + i]]]

ConsoleTypeOK ==
    /\ line \in Seq(Chars) /\ Len(line) <= LineCap /\ browse \in 0..HistCap

(***************************************************************************)
(* Unless a typed line was kept over it, the history is the commands last  *)
(* run, and the arrow keys show its entries newest first (shell_loop,      *)
(* shell_consume_escape).                                                  *)
(***************************************************************************)
ConsoleRecalls == ~overwritten => hist = LastRan

-----------------------------------------------------------------------------
(* Gui: bb is the buffer drawn into: its own memory, or the screen when    *)
(* there was none; live counts the buffers allocated and not freed.        *)

Windows == DOMAIN WinWidths

GuiInit ==
    /\ asked = 0 /\ fb \in Widths /\ wins = [w \in Windows |-> 0]
    /\ \E own \in BOOLEAN : /\ bb = [base |-> IF own THEN "own" ELSE "screen", width |-> fb]
                            /\ live = IF own THEN 1 ELSE 0
    /\ buttons = FALSE /\ prev = FALSE /\ desk = FALSE
    /\ keysTyped = <<>> /\ got = <<>> /\ interrupts = 0

SetMode(w) == asked' = w /\ UNCHANGED <<fb, bb, live, wins, buttons, prev, desk, keysTyped, got, interrupts>>

MoveWindow(w, x) ==
    /\ x + WinWidths[w] <= fb /\ wins' = [wins EXCEPT ![w] = x]
    /\ UNCHANGED <<asked, fb, bb, live, buttons, prev, desk, keysTyped, got, interrupts>>

Click == buttons' = ~buttons /\ UNCHANGED <<asked, fb, bb, live, wins, prev, desk, keysTyped, got, interrupts>>

Type(k) == Len(keysTyped) < MaxKeys /\ keysTyped' = Append(keysTyped, k)
           /\ UNCHANGED <<asked, fb, bb, live, wins, buttons, prev, desk, got, interrupts>>

(* Each window is pushed left until it ends on the screen, then right.     *)
clampedOnce(x, w, s) == IF x + w > s THEN s - w ELSE x

clamped(x, w, s) ==
    LET y == IF x + w > s THEN s - w ELSE x
    IN  IF y < 0 THEN 0 ELSE y

(* ramfb_set_mode may refuse; a new back buffer may not be had.            *)
freed == IF bb.base = "own" THEN live - 1 ELSE live

Resolution ==
    \/ asked = 0 /\ UNCHANGED <<fb, bb, live, wins>>
    \/ asked # 0 /\ UNCHANGED <<fb, bb, live, wins>>
    \/ /\ asked # 0 /\ fb' = asked
       /\ wins' = [w \in Windows |-> clamped(wins[w], WinWidths[w], asked)]
       /\ \E own \in BOOLEAN : /\ bb' = [base |-> IF own THEN "own" ELSE "screen", width |-> asked]
                               /\ live' = freed + (IF own THEN 1 ELSE 0)

(* The keys waiting are drained up to the room for characters; Ctrl+C      *)
(* interrupts a foreground job and is taken out wherever it stands.        *)
RECURSIVE drained(_, _)
drained(keys, room) ==
    IF keys = <<>> \/ room = 0 THEN <<>>
    ELSE <<keys[1]>> \o drained(Tail(keys), IF keys[1] \in {"enter", "rub"} THEN room ELSE room - 1)

charsOf(keys) == SelectSeq(keys, LAMBDA k : k \notin {"enter", "rub"})

(* The walk steps back after a removal so that it sees the next key.       *)
RECURSIVE withoutIntr(_)
withoutIntr(keys) ==
    IF keys = <<>> THEN <<>>
    ELSE IF keys[1] = "intr" THEN withoutIntr(Tail(keys))
    ELSE <<keys[1]>> \o withoutIntr(Tail(keys))

Frame ==
    LET keys == drained(keysTyped, KeyCap)
        chars == charsOf(keys)
    IN  /\ Resolution /\ asked' = 0
        /\ keysTyped' = SubSeq(keysTyped, Len(keys) + 1, Len(keysTyped))
        /\ got' = withoutIntr(chars)
        /\ interrupts' = Len(SelectSeq(chars, LAMBDA k : k = "intr"))
        /\ desk' = IF buttons /\ ~prev THEN TRUE ELSE IF ~buttons /\ prev THEN FALSE ELSE desk
        /\ prev' = buttons /\ UNCHANGED buttons

GuiNext ==
    \/ \E w \in Widths : SetMode(w)
    \/ \E w \in Windows, x \in 0..3 : MoveWindow(w, x)
    \/ \E k \in Keys : Type(k)
    \/ Click \/ Frame

(***************************************************************************)
(* After every frame: the back buffer has the screen's size and is the     *)
(* only one allocated, every window that fits the screen is on it, no      *)
(* Ctrl+C reaches a program, and the desktop's button is the mouse's as of *)
(* that frame (gui_run).                                                   *)
(***************************************************************************)
FrameExact ==
    /\ bb.width = fb /\ live = (IF bb.base = "own" THEN 1 ELSE 0)
    /\ \A w \in Windows : wins[w] >= 0 /\ (WinWidths[w] <= fb => wins[w] + WinWidths[w] <= fb)
    /\ "intr" \notin Range(got) /\ desk = prev
=============================================================================
