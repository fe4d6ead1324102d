---------------------------- MODULE MCProcessKill ----------------------------
(***************************************************************************)
(* Two small systems with module Process's table: one CPU on which          *)
(* programs and the desktop do everything but overflow a stack and launch   *)
(* programs from the dock, and two CPUs on which processes end while others *)
(* run them.  unit says which of the two a behaviour is about; the other    *)
(* stays where it started.                                                  *)
(***************************************************************************)
EXTENDS Process

CONSTANTS Two  \* the CPUs of the second system, the boot CPU among them

VARIABLES unit, proc2, next_pid2, current2, running2, img2, cursor2, hung2

vars2 == <<proc2, next_pid2, current2, running2, img2, cursor2, hung2>>

K == INSTANCE Process WITH CPUs <- Two, MaxPid <- 3,
        Calls <- {"spawn", "exit", "wait", "kill", "thread", "fault", "overflow"},
        proc <- proc2, next_pid <- next_pid2, current <- current2, running <- running2,
        img <- img2, cursor <- cursor2, hung <- hung2

MCInit == unit \in {"one", "two"} /\ Init /\ K!Init

oneMoves == unit = "one" /\ EndNext /\ UNCHANGED <<unit, vars2>>
twoMoves == unit = "two" /\ K!EndNext /\ UNCHANGED <<unit, vars>>

\* With two CPUs every CPU may stop in a fault.
Halted == unit = "two" /\ hung2 = Two /\ UNCHANGED <<unit, vars, vars2>>

MCNext == oneMoves \/ twoMoves \/ Halted

MCSpec == MCInit /\ [][MCNext]_<<unit, vars, vars2>>

\* Two CPUs, either of which may end what the other is running: a process asleep
\* in waitpid has no child it could collect, and one that was ended never becomes
\* ready again.
EndedWhileRunning ==
    [][/\ K!NoMissedExit'
       /\ \A s \in Slots : proc2[s].state = "EXITED" /\ proc2'[s].pid = proc2[s].pid
                              => proc2'[s].state = "EXITED"]_vars2
=============================================================================
