------------------------------ MODULE MCKernel ------------------------------
(***************************************************************************)
(* Parts of the kernel whose promises include progress, side by side: the  *)
(* heap under its spin lock, the kernel lock of one CPU with faulting      *)
(* programs, and the network lock; and parts of which only safety is asked: *)
(* open files and paths, the host's tools for the disk image, and the arm64 *)
(* kernel's processes and shell.  They share no variable in the code.  A    *)
(* behaviour moves the one that unit names, and the others rest; the        *)
(* variables of a resting part of the second kind are not used.             *)
(***************************************************************************)
EXTENDS KernelHeap

CONSTANTS c0, c1, p1, p2, h1, h2, MaxCalls

VARIABLES unit,
          locked, owner, depth, at, step, parked, intr,
          net_locked, net_owner, call, dns, echo, tls, onWire, calls, killed,
          state, pid, thread, target, space, cr3, pin, mem, nextPid, current, slice, g_bkl,
          file, in, out, child, arg, proc, typed, printed,
          line, hist, browse, ran, overwritten,
          frame, fb, bb, buffers, wins, buttons, prev, desk, keysTyped, got, interrupts,
          f_mounted, dir, f_ram, f_live, fd, handle,
          v_mounted, ext, v_ram, cwd, uid, inPlace,
          img, log, puts, files, hurt, doing

bkl   == <<locked, owner, depth, at, step, parked, intr>>
net   == <<net_locked, net_owner, call, dns, echo, tls, onWire, calls, killed>>
procs == <<state, pid, thread, target, space, cr3, pin, mem, nextPid, current, slice, g_bkl>>
sys   == <<file, in, out, child, arg, proc, typed, printed>>
cons  == <<line, hist, browse, ran, overwritten>>
gui   == <<frame, fb, bb, buffers, wins, buttons, prev, desk, keysTyped, got, interrupts>>
x86   == <<vars, bkl, net>>
open  == <<f_mounted, dir, f_ram, f_live, fd, handle>>
paths == <<v_mounted, ext, v_ram, cwd, uid, inPlace>>
image == <<img, log, puts, files, hurt, doing>>
disk  == <<open, paths, image>>
arm64 == <<procs, sys, cons, gui>>
safe  == <<disk, arm64>>
all   == <<unit, x86, safe>>

\* Ticks everywhere but where owner and lock disagree.
Points == {"test", "deepen", "spin", "dec", "out", "top", "sched", "handler", "back", "fault", "halt",
           "woken", "user", "isr", "off"}
U == INSTANCE Bkl WITH CPUs <- {c0}, BSP <- c0, MaxParked <- 1, MaxDebt <- 2,
        TickPoints <- Points

Targets == {<<"resolve", h1>>, <<"ping", h1>>, <<"https", h1>>, <<"https", h2>>}
L == INSTANCE NetLock WITH locked <- net_locked, owner <- net_owner, Callers <- {p1, p2},
        Pings <- 2, Cap <- 2

\* Three slots on two cores; a session of two processes over rings of two bytes;
\* screens of two and four columns.
A == INSTANCE Arm64Process WITH Slots <- {1, 2, 3}, Cpus <- {1, 2}, MaxPid <- 3, bkl <- g_bkl
S == INSTANCE Arm64Shell WITH Fds <- {3}, Inos <- {1}, Pids <- {1, 2}, Args <- {"x"}, Size <- 2,
        Depth <- 8, Chars <- {"a", "b"}, LineCap <- 1, HistCap <- 2, MaxRuns <- 5,
        Widths <- {2, 4}, WinWidths <- [a |-> 1, b |-> 3], Keys <- {"x", "enter", "intr"},
        KeyCap <- 2, MaxKeys <- 2, asked <- frame, live <- buffers

\* Two processes with one handle each; a disk of five paths; an image on which
\* files of one and of five blocks are installed, the latter with both tables.
F == INSTANCE Files WITH Procs <- {1, 2}, Names <- {"a", "b", "e", "long"}, Embedded <- {"e"},
        Cut <- [n \in {"a", "b", "e", "long"} |-> IF n = "long" THEN "b" ELSE n],
        Fds <- {3, 4}, Handles <- {1}, Inos <- {1, 2}, RamFiles <- 1,
        mounted <- f_mounted, ram <- f_ram, live <- f_live
V == INSTANCE Vfs WITH Rel <- {"b"}, Embedded <- {<<"bin", "a">>}, Overlay <- {"bin"},
        Universe <- {<<>>, <<"bin">>, <<"bin", "A">>, <<"bin", "b">>, <<"b">>},
        Guarded <- {<<"bin">>, <<"b">>}, Uids <- {0, 1}, PathMax <- 2, ExtCap <- 4, RamFiles <- 1,
        Modes <- {[own |-> {"r", "w"}, oth |-> {"r", "w"}], [own |-> {"r"}, oth |-> {}]},
        mounted <- v_mounted, ram <- v_ram
H == INSTANCE Ext2Host WITH Targets <- {<<"bin", "f">>, <<"new", "g">>}, Sizes <- {1, 5},
        InodesCount <- 16, FirstInode <- 12, BlocksCount <- 19, FirstData <- 5,
        NDirect <- 2, NTable <- 2, PerBlock <- 3, MaxPuts <- 3

zero_open == f_mounted = 0 /\ dir = 0 /\ f_ram = 0 /\ f_live = 0 /\ fd = 0 /\ handle = 0
zero_paths == v_mounted = 0 /\ ext = 0 /\ v_ram = 0 /\ cwd = 0 /\ uid = 0 /\ inPlace = 0
zero_image == img = 0 /\ log = 0 /\ puts = 0 /\ files = 0 /\ hurt = 0 /\ doing = 0
zero_procs ==
    /\ state = 0 /\ pid = 0 /\ thread = 0 /\ target = 0 /\ space = 0 /\ cr3 = 0
    /\ pin = 0 /\ mem = 0 /\ nextPid = 0 /\ current = 0 /\ slice = 0 /\ g_bkl = 0
zero_sys ==
    /\ file = 0 /\ in = 0 /\ out = 0 /\ child = 0 /\ arg = 0 /\ proc = 0
    /\ typed = 0 /\ printed = 0
zero_cons == line = 0 /\ hist = 0 /\ browse = 0 /\ ran = 0 /\ overwritten = 0
zero_gui ==
    /\ frame = 0 /\ fb = 0 /\ bb = 0 /\ buffers = 0 /\ wins = 0 /\ buttons = 0
    /\ prev = 0 /\ desk = 0 /\ keysTyped = 0 /\ got = 0 /\ interrupts = 0

MCInit ==
    /\ unit \in {"heap", "bkl", "net", "procs", "sys", "cons", "gui", "open", "paths", "image"}
    /\ Init /\ U!Init /\ L!Init
    /\ IF unit = "procs" THEN A!Init ELSE zero_procs
    /\ IF unit = "sys" THEN S!SysInit ELSE zero_sys
    /\ IF unit = "cons" THEN S!ConsoleInit ELSE zero_cons
    /\ IF unit = "gui" THEN S!GuiInit ELSE zero_gui
    /\ IF unit = "open" THEN F!Init ELSE zero_open
    /\ IF unit = "paths" THEN V!Init ELSE zero_paths
    /\ IF unit = "image" THEN H!Init ELSE zero_image

\* The callers of the network may be done.
NoMoreCalls == calls = MaxCalls /\ UNCHANGED net

heapMoves  == unit = "heap" /\ Next /\ UNCHANGED <<unit, bkl, net, safe>>
bklMoves   == unit = "bkl" /\ U!FaultNext /\ UNCHANGED <<unit, vars, net, safe>>
netMoves   == unit = "net" /\ (L!Next \/ NoMoreCalls) /\ UNCHANGED <<unit, vars, bkl, safe>>
procsMoves == unit = "procs" /\ A!Next /\ UNCHANGED <<unit, x86, disk, sys, cons, gui>>
sysMoves   == unit = "sys" /\ S!SysNext /\ UNCHANGED <<unit, x86, disk, procs, cons, gui>>
consMoves  == unit = "cons" /\ S!ConsoleNext /\ UNCHANGED <<unit, x86, disk, procs, sys, gui>>
guiMoves   == unit = "gui" /\ S!GuiNext /\ UNCHANGED <<unit, x86, disk, procs, sys, cons>>
openMoves  == unit = "open" /\ F!Next /\ UNCHANGED <<unit, x86, paths, image, arm64>>
pathsMoves == unit = "paths" /\ V!Next /\ UNCHANGED <<unit, x86, open, image, arm64>>

\* Nothing is promised of an image on which a second install was broken off.
imageMoves == unit = "image" /\ hurt # "more" /\ H!Next /\ UNCHANGED <<unit, x86, open, paths, arm64>>

\* Their bounds may stop the parts of which only safety is asked.
Stopped == unit \notin {"heap", "bkl", "net"} /\ UNCHANGED all

MCNext ==
    \/ heapMoves \/ bklMoves \/ netMoves \/ procsMoves \/ sysMoves \/ consMoves \/ guiMoves
    \/ openMoves \/ pathsMoves \/ imageMoves \/ Stopped

\* The fairness of LiveSpec in KernelHeap and of Spec in NetLock.
MCSpec ==
    /\ MCInit /\ [][MCNext]_all
    /\ \A c \in CPUs :
          WF_all(/\ unit = "heap"
                 /\ walk(c) \/ out_of_memory(c) \/ take(c) \/ merge(c) \/ merged(c)
                 /\ UNCHANGED <<unit, bkl, net, safe>>)
    /\ \A p \in {p1, p2} :
          /\ WF_all(unit = "net" /\ L!Lock(p) /\ UNCHANGED <<unit, vars, bkl, safe>>)
          /\ WF_all(unit = "net" /\ L!Proceed(p) /\ UNCHANGED <<unit, vars, bkl, safe>>)

-----------------------------------------------------------------------------
\* bkl_release after a fault, without an acquire: on one CPU a free lock has
\* no depth left, and no tick waits for the code it interrupted.
FreeMeansUncounted == unit = "bkl" => U!FreeMeansUncounted /\ U!NoSelfDeadlock

\* net_lock: one live caller at a time, also when the lock is taken over from
\* one that died, and without kills a response is the answer to its request.
OneInside == unit = "net" => L!OneInside /\ L!TlsOwnResponse

\* net_lock: whoever waits gets in, also after an owner that was killed.
WaiterGetsIn == unit = "net" => L!WaiterGetsIn

\* Open files read the file they write, also when others close, unlink and
\* inherit; a path leads where the caller's directory and the modes say.
FilesExact ==
    /\ unit = "open" => F!TypeOK /\ F!NoHandleLeak /\ F!ReadsWhatItWrites
    /\ unit = "paths" => V!TypeOK /\ V!VfsExact

\* ext2_put leaves a clean image, or one that ext2_fsck --repair makes clean.
HostImageExact == unit = "image" => H!TypeOK /\ H!HostImageExact

\* The arm64 kernel: no process runs on two cores or in freed memory and every
\* waiter's target exists; the bytes of a session's rings come out in order, the
\* console recalls what ran, and a frame is built for one screen size.
Arm64Exact ==
    /\ unit = "procs" => A!TypeOK /\ A!SpaceAlive /\ A!OnOneCpu /\ A!WaitersHaveTargets
    /\ unit = "sys" => S!SysTypeOK /\ S!RingsExact
    /\ unit = "cons" => S!ConsoleTypeOK /\ S!ConsoleRecalls
    /\ unit = "gui" => S!FrameExact
=============================================================================
