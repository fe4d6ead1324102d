----------------------------- MODULE KernelLock -----------------------------
(***************************************************************************)
(* What bkl.h promises: one lock, held by at most one CPU at a time, which *)
(* its holder gives back before another CPU gets it.                       *)
(***************************************************************************)
CONSTANTS CPUs, NoCpu
VARIABLE holder

Init == holder = NoCpu

Take(c) == holder = NoCpu /\ holder' = c
Drop(c) == holder = c /\ holder' = NoCpu

Next == \E c \in CPUs : Take(c) \/ Drop(c)

Spec == Init /\ [][Next]_holder
=============================================================================
