---------------------------- MODULE ProcessProof ----------------------------
(***************************************************************************)
(* Proofs about the process table and the scheduler, for any number of     *)
(* slots, pids and sleeps: that a CPU runs what the table says, with any   *)
(* number of CPUs when no process is ended by another and none has         *)
(* threads, and with one CPU also when programs and the desktop end each   *)
(* other's processes and threads; then, with any number of CPUs and        *)
(* whoever ends whom, that no exit is missed and the dead stay dead.       *)
(***************************************************************************)
EXTENDS ProcessTableProof

\* The inductive invariant: the table is good, and a CPU in user mode runs the
\* process that current names, with its image mapped and the claim on its slot.
IInv ==
    /\ TypeOK /\ Good(proc, next_pid)
    /\ RunsItsProcess /\ ClaimsAreUsed
    /\ \A c \in CPUs : running[c] # NoSlot => img[c] = proc[running[c]].image
    /\ hung = {}

-----------------------------------------------------------------------------
\* process_pick_next_ready returns a process that may be dispatched.
LEMMA PickIs ==
    ASSUME NEW P, NEW c \in CPUs, cursor \in [CPUs -> Slots]
    PROVE  \/ pick_next_ready(P, c) = NoSlot
           \/ pick_next_ready(P, c) \in Slots /\ Eligible(P, pick_next_ready(P, c))
<1> DEFINE S == {s \in Slots : Eligible(P, s)}
           V == {After(c, s) : s \in S}
           Best(s) == \A t \in S : After(c, s) <= After(c, t)
<1>1. pick_next_ready(P, c) = IF S = {} THEN NoSlot ELSE CHOOSE s \in S : Best(s)
  BY DEF pick_next_ready
<1>2. CASE S = {}
  BY <1>1, <1>2
<1>3. CASE S # {}
  <2>1. \A s \in Slots : After(c, s) \in Nat
    <3> TAKE s \in Slots
    <3>1. cursor[c] \in Int /\ s \in Int /\ NSlots \in Nat \ {0}
      BY SlotsNat, ProcessAssumption DEF Slots
    <3>2. (s - cursor[c]) % NSlots \in 0 .. NSlots - 1
      BY <3>1
    <3> QED
      BY <3>1, <3>2 DEF After
  <2>2. V \in SUBSET Nat /\ V # {}
    BY <1>3, <2>1
  <2>3. \E v \in V : \A w \in V : v <= w
    <3> HIDE DEF V
    <3> QED
      BY <2>2, Least
  <2>4. \E s \in S : Best(s)
    BY <2>3
  <2> HIDE DEF Best
  <2>5. (CHOOSE s \in S : Best(s)) \in S
    BY <2>4
  <2> QED
    BY <1>1, <1>3, <2>5
<1> QED
  BY <1>2, <1>3

\* The processes that the CPUs in D run are not touched, and nobody's claim is.
Keeps(P, D) ==
    /\ \A t \in Slots : P[t].cpu = proc[t].cpu
    /\ \A d \in D : running[d] # NoSlot => P[running[d]] = proc[running[d]]

\* What a CPU in user mode may rely on.
LEMMA UserIs ==
    ASSUME IInv, NEW c \in CPUs, running[c] # NoSlot
    PROVE  /\ running[c] \in Slots /\ current[c] = running[c]
           /\ proc[running[c]].loaded /\ proc[running[c]].state = "RUNNING"
           /\ proc[running[c]].cpu = c
           /\ \A d \in CPUs \ {c} : running[d] # NoSlot => running[d] # running[c]
<1>1. running \in [CPUs -> Slots \cup {NoSlot}]
  BY DEF IInv, TypeOK
<1> QED
  BY <1>1 DEF IInv, RunsItsProcess

\* The table becomes P and the CPUs go on with what they were doing; in the
\* kernel current may be cleared.
Settles(P) ==
    /\ proc' = P /\ running' = running /\ img' = img /\ cursor' = cursor /\ hung' = hung
    /\ current' \in [CPUs -> Slots \cup {NoSlot}]
    /\ \A d \in CPUs : running[d] # NoSlot => current'[d] = current[d]

LEMMA SettlesGood ==
    ASSUME IInv, NEW P, Settles(P), Good(P, next_pid'), next_pid' \in 0 .. MaxPid, Keeps(P, CPUs)
    PROVE  IInv'
<1>1. /\ proc' = P /\ running' = running /\ img' = img
      /\ cursor' = cursor /\ hung' = hung
      /\ current' \in [CPUs -> Slots \cup {NoSlot}]
      /\ \A d \in CPUs : running[d] # NoSlot => current'[d] = current[d]
  BY DEF Settles
<1>2. TypeOK'
  BY <1>1, Zenon DEF IInv, TypeOK, Good, Table
<1>3. RunsItsProcess'
  BY <1>1 DEF IInv, RunsItsProcess, Keeps
<1>4. ClaimsAreUsed'
  BY <1>1 DEF IInv, ClaimsAreUsed, Keeps
<1>5. \A d \in CPUs : running'[d] # NoSlot => img'[d] = proc'[running'[d]].image
  BY <1>1 DEF IInv, Keeps
<1> QED
  BY <1>1, <1>2, <1>3, <1>4, <1>5 DEF IInv

\* A handler that goes back to user mode with table P.
LEMMA ReturnGood ==
    ASSUME IInv, NEW c, NEW P, Return(c, P), Good(P, next_pid'), next_pid' \in 0 .. MaxPid,
           Keeps(P, CPUs)
    PROVE  IInv'
<1>1. Settles(P)
  BY DEF Return, Settles, IInv, TypeOK
<1> QED
  BY <1>1, SettlesGood

\* A handler that gives up the CPU: process_run_ready_slice ends with table P.
Leaves(c, P) ==
    /\ proc' = end_slice(P, running[c])
    /\ current' \in [CPUs -> Slots \cup {NoSlot}]
    /\ \A d \in CPUs \ {c} : current'[d] = current[d]
    /\ running' = [running EXCEPT ![c] = NoSlot]
    /\ img' = [img EXCEPT ![c] = 0]
    /\ cursor' = cursor /\ hung' = hung /\ next_pid' = next_pid

LEMMA LeavesGood ==
    ASSUME IInv, NEW c \in CPUs, running[c] # NoSlot, NEW P, Leaves(c, P), Good(P, next_pid),
           Keeps(P, CPUs \ {c}), Later(proc, P)
    PROVE  IInv' /\ Later(proc, proc')
<1> DEFINE s == running[c]
<1>0. TypeOK /\ next_pid \in Nat /\ 0 \in 0 .. MaxPid /\ NoSlot \in Slots \cup {NoSlot}
  BY ProcessAssumption DEF IInv, TypeOK
<1>1. /\ s \in Slots /\ proc[s].cpu = c
      /\ \A d \in CPUs \ {c} : running[d] # NoSlot => running[d] # s
  BY UserIs
<1>2. EndOutcome(P, proc', s, next_pid)
  BY <1>0, <1>1, EndSliceGood DEF Leaves
<1>3. /\ Good(proc', next_pid) /\ Later(P, proc') /\ proc'[s].cpu = NoCpu
      /\ \A t \in Slots \ {s} :
            /\ proc'[t].cpu = P[t].cpu
            /\ P[t].state \notin {"EXITED", "WAITING"} => proc'[t] = P[t]
  BY <1>2 DEF EndOutcome
<1>4. /\ running' \in [CPUs -> Slots \cup {NoSlot}] /\ img' \in [CPUs -> 0 .. MaxPid]
      /\ running'[c] = NoSlot
      /\ \A d \in CPUs \ {c} : running'[d] = running[d] /\ img'[d] = img[d]
  BY <1>0 DEF Leaves, TypeOK
<1>5. TypeOK'
  <2>1. proc' \in [Slots -> Slot]
    BY <1>3, Zenon DEF Good, Table
  <2> QED
    BY <1>0, <1>4, <2>1, Zenon DEF Leaves, TypeOK
<1>6. ASSUME NEW d \in CPUs, running'[d] # NoSlot
      PROVE  /\ d # c /\ running'[d] = running[d] /\ current'[d] = current[d]
             /\ img'[d] = img[d] /\ proc'[running'[d]] = proc[running[d]]
  <2>1. d # c /\ running'[d] = running[d] /\ current'[d] = current[d] /\ img'[d] = img[d]
    BY <1>4, <1>6 DEF Leaves
  <2>2. running[d] \in Slots \ {s} /\ proc[running[d]].state = "RUNNING"
    BY <1>1, <1>6, <2>1, UserIs
  <2>3. P[running[d]] = proc[running[d]]
    BY <1>6, <2>1 DEF Keeps
  <2> QED
    BY <1>3, <2>1, <2>2, <2>3
<1>7. RunsItsProcess'
  BY <1>6 DEF RunsItsProcess, IInv
<1>8. ClaimsAreUsed'
  <2> SUFFICES ASSUME NEW t \in Slots, proc'[t].cpu # NoCpu
               PROVE  running'[proc'[t].cpu] = t
    BY DEF ClaimsAreUsed
  <2>1. t # s /\ proc'[t].cpu = proc[t].cpu
    BY <1>3 DEF Keeps
  <2>2. proc[t].cpu \in CPUs
    <3>1. proc[t] \in Slot
      BY <1>0 DEF TypeOK
    <3> QED
      BY <2>1, <3>1 DEF Slot
  <2>3. running[proc[t].cpu] = t
    BY <2>1 DEF IInv, ClaimsAreUsed
  <2>4. proc[t].cpu # c
    BY <2>1, <2>3
  <2> QED
    BY <1>4, <2>1, <2>2, <2>3, <2>4
<1>9. \A d \in CPUs : running'[d] # NoSlot => img'[d] = proc'[running'[d]].image
  BY <1>6, Zenon DEF IInv
<1>10. Later(proc, proc')
  BY <1>3, LaterTrans
<1>11. hung' = {} /\ next_pid' = next_pid
  BY DEF Leaves, IInv
<1> QED
  BY <1>3, <1>5, <1>7, <1>8, <1>9, <1>10, <1>11 DEF IInv

LEMMA GiveUpLeaves ==
    ASSUME IInv, NEW c \in CPUs, NEW P, GiveUp(c, P), next_pid' = next_pid
    PROVE  Leaves(c, P)
<1>1. current \in [CPUs -> Slots \cup {NoSlot}]
  BY DEF IInv, TypeOK
<1> QED
  BY <1>1 DEF GiveUp, Leaves

-----------------------------------------------------------------------------
\* What every step keeps: the invariant, and that there are no threads.
Fine == IInv' /\ (NoThreads(proc) => NoThreads(proc'))

LEMMA LaterFine ==
    ASSUME IInv, IInv', Later(proc, proc')
    PROVE  Fine
<1>1. NoThreads(proc) => NoThreads(proc')
  BY DEF NoThreads, Later
<1> QED
  BY <1>1 DEF Fine

\* A handler that only changes the schedule of its own process.
LEMMA UpdateFine ==
    ASSUME IInv, NEW c \in CPUs, running[c] # NoSlot, NEW P, SameBut(proc, P, running[c]),
           P[running[c]].cpu = c, Leaves(c, P),
           P[running[c]].state \notin {"EMPTY", "EXITED"},
           P[running[c]].state = "SLEEPING" => P[running[c]].left > 0,
           P[running[c]].state = "WAITING" =>
              exited_children(proc, proc[running[c]].pid, P[running[c]].wait) = {}
    PROVE  Fine
<1> DEFINE s == running[c]
<1>0. next_pid \in Nat /\ Good(proc, next_pid)
  BY ProcessAssumption DEF IInv, TypeOK
<1>1. /\ s \in Slots /\ proc[s].loaded /\ proc[s].state = "RUNNING" /\ proc[s].cpu = c
      /\ \A d \in CPUs \ {c} : running[d] # NoSlot => running[d] # s
  BY UserIs, Zenon
<1>2. Good(P, next_pid) /\ Later(proc, P)
  BY <1>0, <1>1, UpdateGood, Zenon
<1>3. Keeps(P, CPUs \ {c})
  <2>1. \A t \in Slots \ {s} : P[t] = proc[t]
    BY DEF SameBut
  <2>2. \A d \in CPUs \ {c} : running[d] # NoSlot => running[d] \in Slots
    BY UserIs
  <2> QED
    BY <1>1, <2>1, <2>2, Zenon DEF Keeps
<1>4. IInv' /\ Later(proc, proc')
  BY <1>2, <1>3, LeavesGood
<1> QED
  BY <1>4, LaterFine, Zenon

LEMMA YieldFine ==
    ASSUME IInv, NEW c \in CPUs, SYS_YIELD(c)
    PROVE  Fine
<1> DEFINE s == running[c]
           P == [proc EXCEPT ![s].state = "READY"]
<1>1. running[c] # NoSlot
  BY DEF SYS_YIELD, InUser
<1>2. s \in Slots /\ current[c] = s /\ proc[s].cpu = c /\ proc \in [Slots -> Slot]
  BY <1>1, UserIs DEF IInv, TypeOK
<1>3. SameBut(proc, P, s) /\ P[s].state = "READY" /\ P[s].cpu = c
  BY <1>2 DEF SameBut, Slot, States
<1>4. GiveUp(c, P) /\ next_pid' = next_pid
  BY <1>2 DEF SYS_YIELD
<1> HIDE DEF P
<1>5. Leaves(c, P)
  BY <1>4, GiveUpLeaves
<1> QED
  BY <1>1, <1>3, <1>5, UpdateFine

LEMMA SleepFine ==
    ASSUME IInv, NEW c \in CPUs, SYS_TIMER_SLEEP(c)
    PROVE  Fine
<1>1. running[c] # NoSlot /\ next_pid' = next_pid
  BY DEF SYS_TIMER_SLEEP, Serving, InUser
<1> DEFINE s == running[c]
           P(n) == [proc EXCEPT ![s].state = "SLEEPING", ![s].left = n]
<1>2. s \in Slots /\ current[c] = s /\ proc[s].cpu = c /\ proc \in [Slots -> Slot]
  BY <1>1, UserIs DEF IInv, TypeOK
<1>3. PICK n \in 1 .. MaxSleep : GiveUp(c, P(n))
  BY <1>2, Zenon DEF SYS_TIMER_SLEEP
<1>4. n \in 0 .. MaxSleep /\ n > 0
  BY SMTT(60), ProcessAssumption
<1>5. SameBut(proc, P(n), s) /\ P(n)[s].state = "SLEEPING" /\ P(n)[s].left = n /\ P(n)[s].cpu = c
  BY <1>2, <1>4 DEF SameBut, Slot, States
<1> HIDE DEF P
<1>6. Leaves(c, P(n))
  BY SMTT(60), <1>1, <1>3, GiveUpLeaves
<1> QED
  BY <1>1, <1>4, <1>5, <1>6, UpdateFine

LEMMA BlockFine ==
    ASSUME IInv, NEW c \in CPUs, yield_blocking(c)
    PROVE  Fine
<1> DEFINE s == running[c]
           P == [proc EXCEPT ![s].state = "WAITING_IO", ![s].parked = TRUE]
<1>1. running[c] # NoSlot
  BY DEF yield_blocking, Serving, InUser
<1>2. s \in Slots /\ current[c] = s /\ proc[s].cpu = c /\ proc \in [Slots -> Slot]
  BY <1>1, UserIs DEF IInv, TypeOK
<1>3. SameBut(proc, P, s) /\ P[s].state = "WAITING_IO" /\ P[s].cpu = c
  <2> DEFINE x == proc[s]
             y == [x EXCEPT !.state = "WAITING_IO", !.parked = TRUE]
  <2>1. P = [proc EXCEPT ![s] = y]
    BY Zenon
  <2>2. x \in Slot /\ x.cpu = c /\ "WAITING_IO" \in States
    BY <1>2 DEF States
  <2>3. /\ y \in Slot /\ y.state = "WAITING_IO" /\ y.cpu = x.cpu
        /\ y.loaded = x.loaded /\ y.pid = x.pid /\ y.parent = x.parent
        /\ y.thread = x.thread /\ y.space = x.space /\ y.image = x.image
    BY <2>2, Zenon DEF Slot
  <2> HIDE DEF y
  <2> QED
    BY <1>2, <2>1, <2>2, <2>3, Zenon DEF SameBut
<1>4. Leaves(c, P)
  <2>1. proc' = end_slice(P, s)
    BY <1>2 DEF yield_blocking
  <2>2. current \in [CPUs -> Slots \cup {NoSlot}]
    BY DEF IInv, TypeOK
  <2> HIDE DEF P
  <2> QED
    BY <2>1, <2>2 DEF yield_blocking, Leaves
<1> HIDE DEF P
<1> QED
  BY <1>1, <1>3, <1>4, UpdateFine

LEMMA WaitFine ==
    ASSUME IInv, NEW c \in CPUs, SYS_WAITPID(c)
    PROVE  Fine
<1>0. /\ running[c] # NoSlot /\ next_pid' = next_pid /\ next_pid \in 0 .. MaxPid
      /\ next_pid \in Nat /\ Good(proc, next_pid)
  BY ProcessAssumption DEF SYS_WAITPID, Serving, InUser, IInv, TypeOK
<1> DEFINE s == running[c]
           S(n) == exited_children(proc, proc[s].pid, n)
           P(n) == [proc EXCEPT ![s].wait = n, ![s].state = "WAITING"]
<1>1. s \in Slots /\ current[c] = s /\ proc[s].cpu = c /\ proc \in [Slots -> Slot]
  BY <1>0, UserIs DEF IInv, TypeOK
<1>2. PICK n \in 0 .. next_pid : \/ S(n) # {} /\ Return(c, reap(proc, Lowest(S(n))))
                                 \/ S(n) = {} /\ GiveUp(c, P(n))
  BY <1>1, Zenon DEF SYS_WAITPID
<1>3. CASE S(n) = {} /\ GiveUp(c, P(n))
  <2>1. n \in 0 .. MaxPid
    BY SMTT(60), <1>0, ProcessAssumption
  <2>2. SameBut(proc, P(n), s) /\ P(n)[s].state = "WAITING" /\ P(n)[s].wait = n /\ P(n)[s].cpu = c
    BY <1>1, <2>1 DEF SameBut, Slot, States
  <2> HIDE DEF P
  <2>3. Leaves(c, P(n))
    BY <1>0, <1>3, GiveUpLeaves
  <2> QED
    BY <1>0, <1>3, <2>2, <2>3, UpdateFine
<1>4. CASE S(n) # {} /\ Return(c, reap(proc, Lowest(S(n))))
  <2> DEFINE z == Lowest(S(n))
             Q == reap(proc, z)
  <2>1. z \in Slots /\ proc[z].state = "EXITED"
    <3>1. S(n) \in SUBSET Slots
      BY DEF exited_children
    <3>2. z \in S(n)
      BY <1>4, <3>1, LowestIs
    <3> QED
      BY <3>2, Zenon DEF exited_children
  <2> HIDE DEF z
  <2>2. Good(Q, next_pid) /\ Later(proc, Q) /\ Replaced(proc, Q, z) /\ Q[z].cpu = proc[z].cpu
    BY <1>0, <2>1, ReapGood
  <2>3. Return(c, Q)
    BY <1>4 DEF z
  <2> HIDE DEF Q
  <2>4. Keeps(Q, CPUs)
    BY <2>1, <2>2, UserIs DEF Keeps, Replaced
  <2>5. IInv'
    BY <1>0, <2>2, <2>3, <2>4, ReturnGood
  <2>6. proc' = Q
    BY <2>3 DEF Return
  <2> QED
    BY <2>2, <2>5, <2>6, LaterFine
<1> QED
  BY <1>2, <1>3, <1>4

\* No CPU runs a thread of a process that another CPU ends.
Apart == CPUs = {BSP} \/ NoThreads(proc)

\* A process ends: SYS_EXIT and process_handle_user_fault.
LEMMA DieFine ==
    ASSUME IInv, Apart, NEW c \in CPUs, running[c] # NoSlot,
           GiveUp(c, die(proc, current[c])), next_pid' = next_pid
    PROVE  Fine
<1> DEFINE s == running[c]
           X == {s} \cup siblings(proc, s)
           P == die(proc, s)
<1>0. next_pid \in Nat /\ Good(proc, next_pid)
  BY ProcessAssumption DEF IInv, TypeOK
<1>1. /\ s \in Slots /\ current[c] = s /\ proc[s].loaded /\ proc[s].state = "RUNNING"
      /\ \A d \in CPUs \ {c} : running[d] # NoSlot => running[d] # s
  BY UserIs
<1>2. Good(P, next_pid) /\ Frame(proc, P, X)
  BY <1>0, <1>1, DieGood
<1>3. Leaves(c, P)
  BY <1>1, GiveUpLeaves
<1>4. \A d \in CPUs \ {c} : running[d] # NoSlot =>
          running[d] \in Slots \ X /\ proc[running[d]].state = "RUNNING"
  <2>1. CASE CPUs = {BSP}
    BY <2>1
  <2>2. CASE NoThreads(proc)
    <3>1. siblings(proc, s) = {}
      BY <2>2 DEF NoThreads, siblings
    <3> QED
      BY SMTT(60), <1>1, <3>1, UserIs
  <2> QED
    BY <2>1, <2>2 DEF Apart
<1> HIDE DEF P, X
<1>5. Keeps(P, CPUs \ {c})
  BY <1>2, <1>4 DEF Keeps, Frame
<1>6. Later(proc, P)
  BY <1>2, FrameLater, Zenon
<1>7. IInv' /\ Later(proc, proc')
  BY SMTT(60), <1>2, <1>3, <1>5, <1>6, LeavesGood
<1> QED
  BY <1>7, LaterFine

LEMMA ExitFine ==
    ASSUME IInv, Apart, NEW c \in CPUs, SYS_EXIT(c)
    PROVE  Fine
  BY DieFine DEF SYS_EXIT, Serving, InUser

LEMMA FaultFine ==
    ASSUME IInv, Apart, NEW c \in CPUs, user_fault(c)
    PROVE  Fine
<1>1. running[c] # NoSlot /\ next_pid' = next_pid
  BY DEF user_fault, InUser
<1>2. Alive(c) /\ proc[current[c]].state # "EMPTY"
  BY <1>1, UserIs, SlotsNat DEF Alive
<1> QED
  BY <1>1, <1>2, DieFine DEF user_fault

-----------------------------------------------------------------------------
\* A process is loaded into a slot without a live process.
LEMMA EnterFine ==
    ASSUME IInv, NEW c, NEW s, s = free_slot(proc), s # NoSlot, NEW F, F = find_free_slot(proc),
           next_pid < MaxPid, next_pid' = next_pid + 1, NEW x, Enters(F, s, x, next_pid),
           Return(c, [F EXCEPT ![s] = x])
    PROVE  IInv' /\ (~x.thread /\ NoThreads(proc) => NoThreads(proc'))
<1> DEFINE Q == [F EXCEPT ![s] = x]
<1>0. /\ next_pid \in Nat /\ Good(proc, next_pid) /\ Table(proc, next_pid)
      /\ next_pid' \in 0 .. MaxPid
  BY ProcessAssumption DEF IInv, TypeOK, Good
<1>1. /\ s \in Slots /\ Good(F, next_pid) /\ Later(proc, F) /\ Replaced(proc, F, s)
      /\ F[s].cpu = proc[s].cpu /\ ~F[s].loaded
  BY <1>0, FindFreeGood
<1>q. Q[s] = x /\ Replaced(F, Q, s)
  BY <1>1, Zenon DEF Good, Table, Replaced, Enters
<1> HIDE DEF Q
<1>2. Good(Q, next_pid + 1) /\ Q[s] = x /\ Replaced(F, Q, s)
  BY SMTT(60), <1>0, <1>1, <1>q, EnterGood
<1>3. \A t \in Slots \ {s} : Q[t] = proc[t]
  BY <1>1, <1>2 DEF Replaced
<1>4. proc[s].state # "RUNNING"
  BY <1>0, <1>1 DEF Replaced, Table
<1>5. proc[s].cpu = NoCpu
  <2> SUFFICES ASSUME proc[s].cpu # NoCpu PROVE FALSE
    OBVIOUS
  <2>1. proc[s] \in Slot
    BY <1>1 DEF IInv, TypeOK
  <2>2. proc[s].cpu \in CPUs /\ running[proc[s].cpu] = s
    BY <1>1, <2>1, Zenon DEF Slot, IInv, ClaimsAreUsed
  <2> QED
    BY <1>4, <2>2, UserIs
<1>6. Keeps(Q, CPUs)
  <2>1. x.cpu = NoCpu
    BY DEF Enters
  <2> QED
    BY SMTT(60), <1>2, <1>3, <1>4, <1>5, <2>1, UserIs DEF Keeps
<1>7. Return(c, Q) /\ proc' = Q
  BY DEF Q, Return
<1>8. IInv'
  BY SMTT(60), <1>0, <1>2, <1>6, <1>7, ReturnGood
<1>9. ~x.thread /\ NoThreads(proc) => NoThreads(proc')
  BY <1>2, <1>3, <1>7 DEF NoThreads
<1> QED
  BY <1>8, <1>9

LEMMA LoadFine ==
    ASSUME IInv, NEW c, NEW s, s = free_slot(proc), s # NoSlot, NEW F, F = find_free_slot(proc),
           next_pid < MaxPid, next_pid' = next_pid + 1, NEW parent \in 0 .. MaxPid,
           Return(c, load_image(F, s, next_pid', parent))
    PROVE  Fine
<1> DEFINE x == Loaded(s, next_pid + 1, parent)
<1>0. next_pid \in Nat /\ Good(proc, next_pid) /\ next_pid + 1 \in 0 .. MaxPid
  BY ProcessAssumption DEF IInv, TypeOK
<1>1. s \in Slots
  BY <1>0, FindFreeGood
<1>2. load_image(F, s, next_pid', parent) = [F EXCEPT ![s] = x]
  BY DEF load_image, Loaded
<1>x. Newly(x, next_pid + 1, s, next_pid + 1) /\ ~x.thread
  BY <1>0, <1>1, LoadedIs, Zenon
<1> HIDE DEF x
<1>3. Enters(F, s, x, next_pid) /\ ~x.thread
  BY <1>x DEF Enters, Newly
<1>4. IInv' /\ (~x.thread /\ NoThreads(proc) => NoThreads(proc'))
  BY <1>2, <1>3, EnterFine
<1> QED
  BY <1>3, <1>4 DEF Fine

LEMMA SpawnFine ==
    ASSUME IInv, NEW c \in CPUs, SYS_PROCESS_SPAWN(c)
    PROVE  Fine
<1> DEFINE s == free_slot(proc)
           F == find_free_slot(proc)
           parent == F[current[c]].pid
<1>0. /\ next_pid \in Nat /\ next_pid \in 0 .. MaxPid /\ Good(proc, next_pid)
      /\ running[c] # NoSlot
  BY SMTT(60), ProcessAssumption DEF IInv, TypeOK, SYS_PROCESS_SPAWN, Serving, InUser
<1>1. \/ /\ s # NoSlot /\ next_pid < MaxPid /\ next_pid' = next_pid + 1
         /\ Return(c, load_image(F, s, next_pid', parent))
      \/ Return(c, F) /\ next_pid' = next_pid
  BY DEF SYS_PROCESS_SPAWN
<1>2. Good(F, next_pid) /\ Later(proc, F) /\ Keeps(F, CPUs)
  <2>1. CASE s = NoSlot
    <3>1. F = proc
      BY SMTT(60), <2>1, NoFreeSlot
    <3> QED
      BY <1>0, <3>1 DEF Later, Keeps
  <2>2. CASE s # NoSlot
    <3>1. /\ s \in Slots /\ Good(F, next_pid) /\ Later(proc, F) /\ Replaced(proc, F, s)
          /\ F[s].cpu = proc[s].cpu
      BY SMTT(60), <1>0, <2>2, FindFreeGood
    <3> HIDE DEF F, s
    <3>2. proc[s].state # "RUNNING"
      BY <1>0, <3>1 DEF Replaced, Good, Table
    <3> QED
      BY SMTT(60), <3>1, <3>2, UserIs DEF Keeps, Replaced
  <2> QED
    BY <2>1, <2>2
<1>3. parent \in 0 .. MaxPid
  <2>1. current[c] \in Slots
    BY <1>0, UserIs, Zenon
  <2>2. F[current[c]] \in Slot
    BY <1>2, <2>1 DEF Good, Table
  <2> QED
    BY <2>2 DEF Slot
<1> HIDE DEF parent
<1>4. CASE /\ s # NoSlot /\ next_pid < MaxPid /\ next_pid' = next_pid + 1
           /\ Return(c, load_image(F, s, next_pid', parent))
  BY <1>3, <1>4, LoadFine
<1>5. CASE Return(c, F) /\ next_pid' = next_pid
  <2> HIDE DEF F, s
  <2>1. IInv'
    BY <1>0, <1>2, <1>5, ReturnGood
  <2>2. proc' = F
    BY <1>5 DEF Return
  <2> QED
    BY <1>2, <2>1, <2>2, LaterFine
<1> QED
  BY <1>1, <1>4, <1>5

LEMMA LaunchFine ==
    ASSUME IInv, spawn_path
    PROVE  Fine
<1>1. /\ free_slot(proc) # NoSlot /\ next_pid < MaxPid /\ next_pid' = next_pid + 1
      /\ Return(BSP, load_image(find_free_slot(proc), free_slot(proc), next_pid', 0))
  BY DEF spawn_path
<1>2. 0 \in 0 .. MaxPid
  BY ProcessAssumption
<1> QED
  BY <1>1, <1>2, LoadFine

-----------------------------------------------------------------------------
\* process_run_ready_slice, from table P.
LEMMA ClaimIs ==
    ASSUME NEW P \in [Slots -> Slot], NEW s \in Slots, NEW c \in CPUs
    PROVE  /\ SameBut(P, claim(P, s, c), s) /\ claim(P, s, c)[s].state = "RUNNING"
           /\ claim(P, s, c)[s].cpu = c
<1> DEFINE x == P[s]
           y == [x EXCEPT !.state = "RUNNING", !.cpu = c, !.parked = FALSE]
<1>1. claim(P, s, c) = [P EXCEPT ![s] = y]
  BY Zenon DEF claim
<1>2. x \in Slot /\ "RUNNING" \in States
  BY DEF States
<1>3. /\ y \in Slot /\ y.state = "RUNNING" /\ y.cpu = c
      /\ y.loaded = x.loaded /\ y.pid = x.pid /\ y.parent = x.parent
      /\ y.thread = x.thread /\ y.space = x.space /\ y.image = x.image
  BY <1>2, Zenon DEF Slot
<1> HIDE DEF y
<1> QED
  BY <1>1, <1>2, <1>3 DEF SameBut

LEMMA DispatchFine ==
    ASSUME IInv, NEW c \in CPUs, running[c] = NoSlot, NEW P, Good(P, next_pid), Later(proc, P),
           Keeps(P, CPUs), NEW again \in BOOLEAN, Dispatch(c, P, again)
    PROVE  Fine
<1> DEFINE s == pick_next_ready(P, c)
           Q == claim(P, s, c)
<1>0. /\ TypeOK /\ next_pid \in Nat /\ 0 \in 0 .. MaxPid /\ P \in [Slots -> Slot]
      /\ Table(P, next_pid) /\ NoSlot \notin Slots
  BY ProcessAssumption, SlotsNat DEF IInv, TypeOK, Good, Table
<1>1. s \in Slots /\ Eligible(P, s)
  BY <1>0, PickIs, Zenon DEF Dispatch, TypeOK
<1>2. /\ proc' = IF again THEN P ELSE Q
      /\ current' = [current EXCEPT ![c] = s]
      /\ running' = [running EXCEPT ![c] = IF again THEN NoSlot ELSE s]
      /\ img' = [img EXCEPT ![c] = IF again THEN 0 ELSE P[s].image]
      /\ cursor' = [cursor EXCEPT ![c] = next_slot(s)]
      /\ next_pid' = next_pid /\ hung' = hung
  BY Zenon DEF Dispatch
<1>3. SameBut(P, Q, s) /\ Q[s].state = "RUNNING" /\ Q[s].cpu = c
  BY <1>0, <1>1, ClaimIs, Zenon
<1> HIDE DEF s, Q
<1>4. /\ P[s].cpu = NoCpu /\ P[s].loaded /\ P[s].state \notin {"EXITED", "RUNNING"}
  BY <1>0, <1>1, Zenon DEF Eligible, Table
<1>5. Good(Q, next_pid) /\ Later(P, Q)
  BY <1>0, <1>1, <1>3, <1>4, UpdateGood, ZenonT(60)
<1>6. Good(proc', next_pid) /\ Later(P, proc')
  BY SMTT(60), <1>2, <1>5 DEF Later
<1>7. TypeOK'
  <2>1. proc' \in [Slots -> Slot]
    BY <1>6 DEF Good, Table
  <2>2. next_slot(s) \in Slots
    <3>1. s \in Nat /\ NSlots \in Nat \ {0}
      BY <1>1, SlotsNat, ProcessAssumption
    <3>2. (s + 1) % NSlots \in 0 .. NSlots - 1
      BY SMTT(60), <3>1
    <3> QED
      BY <3>2 DEF next_slot, Slots
  <2>3. P[s].image \in 0 .. MaxPid
    <3>1. P[s] \in Slot
      BY SMTT(60), <1>0, <1>1
    <3> QED
      BY <3>1 DEF Slot
  <2> QED
    BY SMTT(60), <1>0, <1>1, <1>2, <2>1, <2>2, <2>3 DEF TypeOK
<1>8. \A t \in Slots \ {s} : proc'[t] = P[t]
  BY <1>2, <1>3 DEF SameBut
<1>9. /\ \A d \in CPUs \ {c} : /\ running'[d] = running[d] /\ current'[d] = current[d]
                              /\ img'[d] = img[d]
      /\ running'[c] = IF again THEN NoSlot ELSE s
      /\ current'[c] = s
      /\ img'[c] = IF again THEN 0 ELSE P[s].image
  BY <1>0, <1>2, Zenon DEF TypeOK
<1>10. ASSUME NEW d \in CPUs \ {c}, running[d] # NoSlot
       PROVE  proc'[running[d]] = proc[running[d]]
  <2>1. running[d] \in Slots /\ proc[running[d]].state = "RUNNING"
    BY SMTT(60), <1>10, UserIs
  <2>2. P[running[d]] = proc[running[d]]
    BY SMTT(60), <1>10 DEF Keeps
  <2>3. running[d] # s
    BY <1>4, <2>1, <2>2
  <2> QED
    BY SMTT(60), <1>8, <2>1, <2>2, <2>3
<1>11. ASSUME ~again
       PROVE  /\ proc'[s].loaded /\ proc'[s].state = "RUNNING" /\ proc'[s].cpu = c
              /\ proc'[s].image = P[s].image
  BY <1>2, <1>3, <1>4, <1>11, Zenon DEF SameBut
<1>12. RunsItsProcess'
  <2> SUFFICES ASSUME NEW d \in CPUs, running'[d] # NoSlot
               PROVE  /\ current'[d] = running'[d] /\ proc'[running'[d]].loaded
                      /\ proc'[running'[d]].state = "RUNNING" /\ proc'[running'[d]].cpu = d
    BY DEF RunsItsProcess
  <2>1. CASE d = c
    BY <1>9, <1>11, <2>1, ZenonT(60)
  <2>2. CASE d # c
    BY SMTT(60), <1>9, <1>10, <2>2 DEF IInv, RunsItsProcess
  <2> QED
    BY SMTT(60), <2>1, <2>2
<1>13. ClaimsAreUsed'
  <2> SUFFICES ASSUME NEW t \in Slots, proc'[t].cpu # NoCpu
               PROVE  running'[proc'[t].cpu] = t
    BY SMTT(60) DEF ClaimsAreUsed
  <2>1. CASE t = s /\ ~again
    BY <1>9, <1>11, <2>1
  <2>2. CASE t = s /\ again
    BY <1>2, <1>4, <2>2, Zenon
  <2>3. CASE t # s
    <3>1. proc'[t].cpu = proc[t].cpu
      BY <1>8, <2>3, Zenon DEF Keeps
    <3>2. proc[t] \in Slot
      BY <1>0 DEF TypeOK
    <3>3. proc[t].cpu \in CPUs /\ running[proc[t].cpu] = t
      BY <3>1, <3>2, Zenon DEF Slot, IInv, ClaimsAreUsed
    <3> QED
      BY <1>0, <1>9, <3>1, <3>3, Zenon
  <2> QED
    BY SMTT(60), <2>1, <2>2, <2>3
<1>14. \A d \in CPUs : running'[d] # NoSlot => img'[d] = proc'[running'[d]].image
  <2> TAKE d \in CPUs
  <2>1. CASE d = c
    BY <1>9, <1>11, <2>1, Zenon
  <2>2. CASE d # c
    <3>1. running'[d] = running[d] /\ img'[d] = img[d]
      BY <1>9, <2>2
    <3>2. running[d] # NoSlot => img[d] = proc[running[d]].image
      BY Zenon DEF IInv
    <3> QED
      BY <1>10, <2>2, <3>1, <3>2, ZenonT(60)
  <2> QED
    BY <2>1, <2>2, Zenon
<1>15. IInv'
  BY SMTT(60), <1>2, <1>6, <1>7, <1>12, <1>13, <1>14 DEF IInv
<1>16. Later(proc, proc')
  BY <1>6, LaterTrans
<1> QED
  BY SMTT(60), <1>15, <1>16, LaterFine

LEMMA SliceFine ==
    ASSUME IInv, NEW c \in CPUs, run_ready_slice(c)
    PROVE  Fine
<1>1. running[c] = NoSlot
  BY DEF run_ready_slice, InScheduler
<1>2. PICK again \in BOOLEAN : Dispatch(c, proc, again)
  BY DEF run_ready_slice
<1>3. Good(proc, next_pid) /\ Later(proc, proc) /\ Keeps(proc, CPUs)
  BY DEF IInv, Later, Keeps
<1> QED
  BY <1>1, <1>2, <1>3, DispatchFine

\* timer_handle_interrupt and process_ap_timer
LEMMA TickFine ==
    ASSUME IInv, NEW c \in CPUs, timer_interrupt(c)
    PROVE  Fine
<1> DEFINE T == Ticked(c)
<1>0. /\ next_pid \in Nat /\ next_pid \in 0 .. MaxPid /\ Good(proc, next_pid)
      /\ next_pid' = next_pid
  BY SMTT(60), ProcessAssumption DEF IInv, TypeOK, timer_interrupt
<1>1. /\ Good(T, next_pid) /\ Later(proc, T)
      /\ \A t \in Slots : T[t].cpu = proc[t].cpu
      /\ \A t \in Slots : proc[t].state # "SLEEPING" => T[t] = proc[t]
  <2>1. CASE c = BSP
    <3>1. T = wake_ready(proc)
      BY SMTT(60), <2>1 DEF Ticked
    <3> QED
      BY <1>0, <3>1, TickGood
  <2>2. CASE c # BSP
    <3>1. T = proc
      BY <2>2, Zenon DEF Ticked
    <3> QED
      BY <1>0, <3>1 DEF Later
  <2> QED
    BY SMTT(60), <2>1, <2>2
<1>2. Keeps(T, CPUs)
  <2>1. \A d \in CPUs : running[d] # NoSlot =>
            running[d] \in Slots /\ proc[running[d]].state = "RUNNING"
    BY UserIs
  <2> QED
    BY SMTT(60), <1>1, <2>1 DEF Keeps
<1>3. CASE running[c] = NoSlot
  <2>1. Return(c, T)
    BY SMTT(60), <1>3 DEF timer_interrupt
  <2> HIDE DEF T
  <2>2. IInv'
    BY SMTT(60), <1>0, <1>1, <1>2, <2>1, ReturnGood
  <2>3. proc' = T
    BY <2>1 DEF Return
  <2> QED
    BY SMTT(60), <1>1, <2>2, <2>3, LaterFine
<1>4. CASE running[c] # NoSlot
  <2> DEFINE s == running[c]
             P == [T EXCEPT ![s].state = "READY"]
  <2>1. /\ s \in Slots /\ current[c] = s /\ proc[s].loaded /\ proc[s].state = "RUNNING"
        /\ proc[s].cpu = c /\ s # NoSlot
        /\ \A d \in CPUs \ {c} : running[d] # NoSlot => running[d] # s /\ running[d] \in Slots
    BY <1>4, UserIs
  <2>2. T[s] = proc[s] /\ T \in [Slots -> Slot]
    BY <1>1, <2>1, Zenon DEF Good, Table
  <2>3. GiveUp(c, P)
    BY SMTT(60), <1>4, <2>1, <2>2 DEF timer_interrupt, Preempted
  <2> HIDE DEF T
  <2>4. SameBut(T, P, s) /\ P[s].state = "READY" /\ P[s].cpu = T[s].cpu
    BY <2>1, <2>2 DEF SameBut, Slot, States
  <2> HIDE DEF P
  <2>5. Good(P, next_pid) /\ Later(T, P)
    BY <1>0, <1>1, <2>1, <2>2, <2>4, UpdateGood, Zenon
  <2>6. Keeps(P, CPUs \ {c})
    <3>1. \A t \in Slots \ {s} : P[t] = T[t]
      BY SMTT(60), <2>4 DEF SameBut
    <3> QED
      BY <1>2, <2>1, <2>4, <3>1, Zenon DEF Keeps
  <2>7. Leaves(c, P)
    BY <1>0, <2>3, GiveUpLeaves
  <2>8. Later(proc, P)
    BY <1>1, <2>5, LaterTrans
  <2>9. IInv' /\ Later(proc, proc')
    BY SMTT(60), <1>4, <2>5, <2>6, <2>7, <2>8, LeavesGood
  <2> QED
    BY <2>9, LaterFine, Zenon
<1> QED
  BY <1>3, <1>4

-----------------------------------------------------------------------------
\* SYS_THREAD_CREATE: the new thread's owner is the caller, or the caller's.
LEMMA ThreadFine ==
    ASSUME IInv, NEW c \in CPUs, SYS_THREAD_CREATE(c)
    PROVE  IInv'
<1> DEFINE s == free_slot(proc)
           F == find_free_slot(proc)
           p == current[c]
           x == Thread(next_pid + 1, F[p].pid, F[p].space, F[p].image)
<1>0. /\ next_pid \in Nat /\ Good(proc, next_pid) /\ running[c] # NoSlot
      /\ s # NoSlot /\ next_pid < MaxPid /\ next_pid' = next_pid + 1
      /\ next_pid + 1 \in 0 .. MaxPid
      /\ Return(c, create_thread(F, s, next_pid', p))
  BY ProcessAssumption DEF IInv, TypeOK, SYS_THREAD_CREATE, Serving, InUser
<1>1. create_thread(F, s, next_pid', p) = [F EXCEPT ![s] = x]
  BY <1>0 DEF create_thread, Thread
<1>2. s \in Slots /\ Good(F, next_pid) /\ Replaced(proc, F, s)
  BY <1>0, FindFreeGood, ZenonT(60)
<1>3. p \in Slots /\ proc[p].loaded /\ proc[p].state = "RUNNING"
  BY <1>0, UserIs
<1> HIDE DEF F, s, p
<1>4. F[p] = proc[p] /\ F[p] \in Slot
  BY <1>2, <1>3 DEF Replaced
<1>5. Table(F, next_pid) /\ Owners(F, {})
  BY SMTT(60), <1>2 DEF Good
<1>6. /\ F[p].space \in Slots
      /\ F[F[p].space].loaded /\ ~F[F[p].space].thread
      /\ F[F[p].space].state # "EXITED" /\ F[F[p].space].image = F[p].image
  <2>1. CASE F[p].thread
    BY <1>3, <1>4, <1>5, <2>1 DEF Owners, Owned
  <2>2. CASE ~F[p].thread
    <3>1. F[p].space = p
      BY SMTT(60), <1>3, <1>4, <1>5, <2>2 DEF Table
    <3> QED
      BY SMTT(60), <1>3, <1>4, <2>2, <3>1
  <2> QED
    BY SMTT(60), <2>1, <2>2
<1>7. F[p].pid \in 0 .. MaxPid /\ F[p].image \in 0 .. MaxPid
  BY <1>4 DEF Slot
<1>8. Newly(x, next_pid + 1, F[p].space, F[p].image) /\ x.thread
  BY <1>0, <1>6, <1>7, ThreadIs, Zenon
<1> HIDE DEF x
<1>9. Enters(F, s, x, next_pid)
  BY <1>6, <1>8 DEF Enters, Newly
<1> QED
  BY SMTT(60), <1>0, <1>1, <1>9, EnterFine DEF s, F

\* SYS_PROCESS_KILL with one CPU: the caller goes on unless it ended itself.
LEMMA KillFine ==
    ASSUME IInv, CPUs = {BSP}, NEW c \in CPUs, SYS_PROCESS_KILL(c)
    PROVE  Fine
<1>0. /\ next_pid \in Nat /\ next_pid \in 0 .. MaxPid /\ Good(proc, next_pid)
      /\ running[c] # NoSlot /\ next_pid' = next_pid
  BY ProcessAssumption DEF IInv, TypeOK, SYS_PROCESS_KILL, Serving, InUser
<1>1. running[c] \in Slots /\ current[c] = running[c] /\ proc[running[c]].state = "RUNNING"
  BY <1>0, UserIs
<1>2. PICK pid \in 1 .. next_pid : IF current[c] \in killed(proc, pid)
                                   THEN GiveUp(c, kill(proc, pid))
                                   ELSE Return(c, kill(proc, pid))
  BY DEF SYS_PROCESS_KILL
<1> DEFINE P == kill(proc, pid)
<1>3. Good(P, next_pid) /\ Frame(proc, P, killed(proc, pid)) /\ Later(proc, P)
  BY <1>0, KillGood, FrameLater
<1>4. CASE current[c] \in killed(proc, pid)
  <2>1. Leaves(c, P)
    BY <1>0, <1>2, <1>4, GiveUpLeaves, ZenonT(60)
  <2> HIDE DEF P
  <2>2. Keeps(P, CPUs \ {c})
    BY <1>3 DEF Keeps, Frame
  <2>3. IInv' /\ Later(proc, proc')
    BY <1>0, <1>3, <2>1, <2>2, LeavesGood
  <2> QED
    BY <2>3, LaterFine, Zenon
<1>5. CASE current[c] \notin killed(proc, pid)
  <2>1. Return(c, P) /\ proc' = P
    BY <1>2, <1>5, Zenon DEF Return
  <2> HIDE DEF P
  <2>2. P[running[c]] = proc[running[c]]
    BY <1>1, <1>3, <1>5, ZenonT(60) DEF Frame
  <2>3. Keeps(P, CPUs)
    BY <1>3, <2>2 DEF Keeps, Frame
  <2>4. IInv'
    BY <1>0, <1>3, <2>1, <2>3, ReturnGood
  <2> QED
    BY <1>3, <2>1, <2>4, LaterFine
<1> QED
  BY <1>4, <1>5

\* The boot CPU ends processes between two slices; nobody else runs any.
LEMMA KernelFine ==
    ASSUME IInv, CPUs = {BSP}, running[BSP] = NoSlot, NEW P, NEW X, Good(P, next_pid),
           Frame(proc, P, X), Settles(P), next_pid' = next_pid
    PROVE  Fine
<1>1. Keeps(P, CPUs)
  BY DEF Keeps, Frame
<1>2. next_pid \in 0 .. MaxPid
  BY DEF IInv, TypeOK
<1>3. IInv'
  BY <1>1, <1>2, SettlesGood
<1>4. Later(proc, proc')
  BY FrameLater DEF Settles
<1> QED
  BY SMTT(60), <1>3, <1>4, LaterFine

LEMMA DesktopFine ==
    ASSUME IInv, CPUs = {BSP}, desktop_kill
    PROVE  Fine
<1>0. /\ next_pid \in Nat /\ Good(proc, next_pid) /\ running[BSP] = NoSlot
      /\ next_pid' = next_pid /\ current \in [CPUs -> Slots \cup {NoSlot}]
  BY ProcessAssumption DEF IInv, TypeOK, desktop_kill, InScheduler
<1>1. PICK pid \in 1 .. next_pid :
         /\ proc' = kill(proc, pid)
         /\ current' = [current EXCEPT ![BSP] = IF @ \in killed(proc, pid) THEN NoSlot ELSE @]
  BY Zenon DEF desktop_kill
<1> DEFINE P == kill(proc, pid)
<1>2. Good(P, next_pid) /\ Frame(proc, P, killed(proc, pid))
  BY <1>0, KillGood
<1>3. Settles(P)
  <2>1. current' \in [CPUs -> Slots \cup {NoSlot}]
    BY <1>0, <1>1
  <2> QED
    BY <1>0, <1>1, <2>1 DEF desktop_kill, Settles
<1> HIDE DEF P
<1> QED
  BY <1>0, <1>2, <1>3, KernelFine

LEMMA InterruptFine ==
    ASSUME IInv, CPUs = {BSP}, interrupt_terminal
    PROVE  Fine
<1>0. /\ next_pid \in Nat /\ Good(proc, next_pid) /\ running[BSP] = NoSlot
      /\ next_pid' = next_pid
  BY ProcessAssumption DEF IInv, TypeOK, interrupt_terminal, InScheduler
<1>1. Settles(interrupt(proc))
  BY DEF interrupt_terminal, Return, Settles, IInv, TypeOK
<1>2. Good(interrupt(proc), next_pid) /\ Frame(proc, interrupt(proc), Slots)
  BY <1>0, InterruptGood
<1> QED
  BY <1>0, <1>1, <1>2, KernelFine

\* kstack_canary_check ends only the process it blames, so its promise is kept
\* where there are no threads.
LEMMA CanaryGood ==
    ASSUME NEW n \in Nat, NEW P, Good(P, n), NoThreads(P), NEW s \in Slots, P[s].loaded
    PROVE  Good(canary_kill(P, s), n) /\ Frame(P, canary_kill(P, s), {s})
<1>1. CASE P[s].state \in {"EXITED", "EMPTY"}
  <2>1. canary_kill(P, s) = P
    BY <1>1, ZenonT(60) DEF canary_kill
  <2> QED
    BY <2>1 DEF Frame
<1>2. CASE P[s].state \notin {"EXITED", "EMPTY"}
  <2> DEFINE E == Exited(P, s)
             W == wake_waiter(E, s)
  <2>1. canary_kill(P, s) = W
    BY <1>2 DEF canary_kill, Exited
  <2>2. Table(P, n) /\ NoneMissed(P, {}) /\ Owners(P, {}) /\ ~P[s].thread
    BY Zenon DEF Good, NoThreads
  <2>3. SameBut(P, E, s) /\ E[s].state = "EXITED"
    BY <2>2, ExitedIs
  <2>4. /\ Table(E, n) /\ NoneMissed(E, {} \cup {s}) /\ Frame(P, E, {s})
        /\ Owners(E, {} \cup siblings(E, s))
    BY <1>2, <2>2, ExitedGood, Zenon
  <2> HIDE DEF E
  <2>5. siblings(E, s) = {} /\ E[s].loaded
    BY <2>3, Zenon DEF siblings, SameBut, NoThreads
  <2>6. Owners(E, {})
    BY <2>4, <2>5
  <2>7. WakeOutcome(E, W, s, n, {}, {})
    BY <2>3, <2>4, <2>5, <2>6, WakeGood, ZenonT(60)
  <2> HIDE DEF W
  <2>8. Frame(P, W, {s} \cup {})
    BY <2>4, <2>7, FrameTrans DEF WakeOutcome
  <2> QED
    BY <2>1, <2>7, <2>8 DEF WakeOutcome, Good
<1> QED
  BY SMTT(60), <1>1, <1>2

LEMMA OverflowFine ==
    ASSUME IInv, CPUs = {BSP}, NoThreads(proc), NEW c \in CPUs, run_ready_slice_overflow(c)
    PROVE  Fine
<1>0. /\ next_pid \in Nat /\ Good(proc, next_pid) /\ running[c] = NoSlot /\ c = BSP
      /\ current \in [CPUs -> Slots \cup {NoSlot}]
  BY ProcessAssumption DEF IInv, TypeOK, run_ready_slice_overflow, InScheduler
<1> DEFINE P(s) == canary_kill(proc, s)
<1>1. PICK s \in Slots :
         /\ proc[s].loaded
         /\ \/ Dispatch(c, P(s), FALSE)
            \/ /\ proc' = P(s)
               /\ current' = [current EXCEPT ![c] = IF @ = s THEN NoSlot ELSE @]
               /\ UNCHANGED <<next_pid, running, img, cursor, hung>>
  BY Zenon DEF run_ready_slice_overflow
<1>2. Good(P(s), next_pid) /\ Frame(proc, P(s), {s})
  BY <1>0, <1>1, CanaryGood, Zenon
<1> HIDE DEF P
<1>3. CASE Dispatch(c, P(s), FALSE)
  <2>1. Keeps(P(s), CPUs)
    BY <1>0, <1>2 DEF Keeps, Frame
  <2>2. Later(proc, P(s))
    BY <1>2, FrameLater
  <2>3. FALSE \in BOOLEAN
    OBVIOUS
  <2> QED
    BY <1>0, <1>2, <1>3, <2>1, <2>2, <2>3, DispatchFine, ZenonT(60)
<1>4. CASE /\ proc' = P(s)
           /\ current' = [current EXCEPT ![c] = IF @ = s THEN NoSlot ELSE @]
           /\ UNCHANGED <<next_pid, running, img, cursor, hung>>
  <2>1. current' \in [CPUs -> Slots \cup {NoSlot}]
    BY <1>0, <1>4
  <2>2. Settles(P(s))
    BY <1>0, <1>4, <2>1 DEF Settles
  <2> QED
    BY SMTT(60), <1>0, <1>2, <1>4, <2>2, KernelFine
<1> QED
  BY <1>1, <1>3, <1>4, Zenon

\* With the invariant nobody comes back from user mode dead.
LEMMA NobodyReturnsDead ==
    ASSUME IInv, NEW c \in CPUs
    PROVE  ~syscall_of_the_dead(c)
  BY UserIs, SlotsNat, ZenonT(60) DEF syscall_of_the_dead, InUser, Alive

-----------------------------------------------------------------------------
LEMMA InitFine == Init => IInv /\ NoThreads(proc)
<1> SUFFICES ASSUME Init PROVE IInv /\ NoThreads(proc)
  OBVIOUS
<1> DEFINE x == Loaded(0, 1, 0)
<1>0. 0 \in Slots /\ 1 \in 0 .. MaxPid /\ 0 \in 0 .. MaxPid /\ 0 \in 0 .. MaxSleep
  BY ProcessAssumption DEF Slots
<1>1. /\ x \in Slot /\ x.state = "READY" /\ x.loaded /\ x.pid = 1 /\ x.cpu = NoCpu
      /\ ~x.thread /\ x.space = 0
  BY <1>0, LoadedIs DEF Newly
<1>2. proc = [s \in Slots |-> IF s = 0 THEN x ELSE EmptySlot]
  <2>1. load_image([t \in Slots |-> EmptySlot], 0, 1, 0)[0] = x
    BY <1>0 DEF load_image, Loaded
  <2> HIDE DEF x
  <2> QED
    BY <2>1 DEF Init
<1> HIDE DEF x
<1>3. /\ EmptySlot \in Slot /\ EmptySlot.state = "EMPTY" /\ ~EmptySlot.loaded
      /\ EmptySlot.pid = 0 /\ EmptySlot.cpu = NoCpu
  <2>1. "EMPTY" \in States
    BY DEF States
  <2>2. EmptySlot \in Slot
    BY <1>0, <2>1, Zenon DEF EmptySlot, Slot
  <2> QED
    BY <2>2 DEF EmptySlot
<1>4. /\ proc \in [Slots -> Slot] /\ proc[0] = x
      /\ \A s \in Slots \ {0} : proc[s] = EmptySlot
  BY <1>0, <1>1, <1>2, <1>3
<1>5. \A s \in Slots : /\ proc[s].cpu = NoCpu /\ proc[s].state \in {"READY", "EMPTY"}
                       /\ proc[s].loaded => s = 0 /\ ~proc[s].thread
  BY SMTT(60), <1>1, <1>3, <1>4
<1>6. Table(proc, 1)
  <2>1. \A s \in Slots : /\ proc[s].loaded <=> proc[s].state # "EMPTY"
                         /\ IF proc[s].loaded THEN proc[s].pid \in 1 .. 1 ELSE proc[s].pid = 0
                         /\ proc[s].state = "SLEEPING" => proc[s].left > 0
                         /\ proc[s].loaded /\ ~proc[s].thread => proc[s].space = s
    <3> TAKE s \in Slots
    <3>1. CASE s = 0
      BY <1>1, <1>4, <3>1
    <3>2. CASE s # 0
      BY SMTT(60), <1>3, <1>4, <3>2
    <3> QED
      BY SMTT(60), <3>1, <3>2
  <2> QED
    BY SMTT(60), <1>4, <1>5, <2>1 DEF Table
<1>7. Good(proc, next_pid)
  BY SMTT(60), <1>5, <1>6 DEF Good, NoneMissed, Owners, Init
<1>8. TypeOK
  <2>1. next_pid = 1 /\ NoSlot \in Slots \cup {NoSlot}
    BY DEF Init
  <2> QED
    BY <1>0, <1>4, <2>1 DEF Init, TypeOK
<1>9. \A c \in CPUs : running[c] = NoSlot
  BY Zenon DEF Init
<1> QED
  BY <1>5, <1>7, <1>8, <1>9 DEF IInv, RunsItsProcess, ClaimsAreUsed, NoThreads, Init

LEMMA NextFine ==
    ASSUME IInv, Apart, Next
    PROVE  Fine
<1>1. ASSUME NEW c \in CPUs,
             \/ run_ready_slice(c) \/ SYS_YIELD(c) \/ SYS_EXIT(c) \/ SYS_PROCESS_SPAWN(c)
             \/ SYS_WAITPID(c) \/ SYS_TIMER_SLEEP(c) \/ yield_blocking(c) \/ user_fault(c)
             \/ timer_interrupt(c)
      PROVE  Fine
  BY SMTT(60), <1>1, SliceFine, YieldFine, ExitFine, SpawnFine, WaitFine, SleepFine, BlockFine,
     FaultFine, TickFine
<1> QED
  BY <1>1, LaunchFine DEF Next

LEMMA StutterFine ==
    ASSUME IInv, UNCHANGED vars
    PROVE  Fine
<1>1. IInv'
  BY DEF vars, IInv, TypeOK, Good, RunsItsProcess, ClaimsAreUsed
<1>2. Later(proc, proc')
  BY DEF vars, Later
<1> QED
  BY SMTT(60), <1>1, <1>2, LaterFine

\* Any number of CPUs; nobody is ended by another and there are no threads.
SmpInv == IInv /\ NoThreads(proc)

\* The invariant of the scheduler on any number of CPUs.
THEOREM SmpInductive == Spec => []SmpInv
<1>1. SmpInv /\ [Next]_vars => SmpInv'
  BY NextFine, StutterFine DEF SmpInv, Fine, Apart
<1> QED
  BY <1>1, InitFine, PTL DEF Spec, SmpInv

\* One CPU, on which programs, the desktop and Ctrl+C end processes and threads;
\* kernel stacks overflow only where there are no threads.
One == CPUs = {BSP} /\ ("thread" \notin Calls \/ "overflow" \notin Calls)

UniInv == IInv /\ ("thread" \in Calls \/ NoThreads(proc))

LEMMA EndFine ==
    ASSUME One, UniInv, [EndNext]_vars
    PROVE  UniInv'
<1>0. IInv /\ Apart /\ CPUs = {BSP}
  BY DEF UniInv, One, Apart
<1>1. CASE Next \/ UNCHANGED vars
  BY <1>0, <1>1, NextFine, StutterFine DEF Fine, UniInv
<1>2. ASSUME NEW c \in CPUs, run_ready_slice_overflow(c) PROVE UniInv'
  <2>1. NoThreads(proc)
    BY <1>2, Zenon DEF run_ready_slice_overflow, One, UniInv
  <2> QED
    BY <1>0, <1>2, <2>1, OverflowFine DEF Fine, UniInv
<1>3. ASSUME NEW c \in CPUs, SYS_THREAD_CREATE(c) PROVE UniInv'
  <2>1. "thread" \in Calls
    BY <1>3 DEF SYS_THREAD_CREATE, Serving
  <2> QED
    BY <1>0, <1>3, <2>1, ThreadFine DEF UniInv
<1>4. ASSUME NEW c \in CPUs, SYS_PROCESS_KILL(c) PROVE UniInv'
  BY <1>0, <1>4, KillFine DEF Fine, UniInv
<1>5. ASSUME desktop_kill PROVE UniInv'
  BY <1>0, <1>5, DesktopFine DEF Fine, UniInv
<1>6. ASSUME interrupt_terminal PROVE UniInv'
  BY <1>0, <1>6, InterruptFine DEF Fine, UniInv
<1>7. \A c \in CPUs : ~syscall_of_the_dead(c)
  BY <1>0, NobodyReturnsDead
<1> QED
  BY <1>1, <1>2, <1>3, <1>4, <1>5, <1>6, <1>7 DEF EndNext

\* The invariant of the scheduler on one CPU.
THEOREM UniInductive == ASSUME One PROVE EndSpec => []UniInv
<1>1. Init => UniInv
  BY InitFine DEF UniInv
<1>2. UniInv /\ [EndNext]_vars => UniInv'
  BY EndFine
<1> QED
  BY <1>1, <1>2, PTL DEF EndSpec

-----------------------------------------------------------------------------
\* What the invariant says of a CPU in user mode.
LEMMA InvRuns == IInv => RunsSafely /\ NoMissedExit /\ NoDoubleDispatch /\ ThreadsDieWithOwner
<1> SUFFICES ASSUME IInv PROVE RunsSafely /\ NoMissedExit /\ NoDoubleDispatch /\ ThreadsDieWithOwner
  OBVIOUS
<1>1. Table(proc, next_pid) /\ NoneMissed(proc, {}) /\ Owners(proc, {})
  BY DEF IInv, Good
<1>2. ImageAlive
  <2> SUFFICES ASSUME NEW c \in CPUs, running[c] # NoSlot PROVE img[c] \in Images(proc)
    BY DEF ImageAlive
  <2> DEFINE s == running[c]
  <2>1. s \in Slots /\ proc[s].loaded /\ proc[s].state = "RUNNING"
    BY SMTT(60), UserIs
  <2>2. img[c] = proc[s].image
    BY DEF IInv
  <2>3. CASE ~proc[s].thread
    BY SMTT(60), <2>1, <2>2, <2>3 DEF Images
  <2>4. CASE proc[s].thread
    <3>1. Owned(proc, s)
      BY SMTT(60), <1>1, <2>1, <2>4 DEF Owners
    <3> QED
      BY SMTT(60), <2>2, <3>1 DEF Owned, Images
  <2> QED
    BY <2>3, <2>4
<1>3. NoMissedExit
  BY <1>1 DEF NoneMissed, NoMissedExit
<1>4. NoDoubleDispatch
  BY DEF IInv, RunsItsProcess, NoDoubleDispatch
<1>5. ThreadsDieWithOwner
  <2> SUFFICES ASSUME NEW t \in Slots, proc[t].loaded, proc[t].thread, proc[t].state # "EXITED"
               PROVE  \E o \in Slots : /\ proc[o].loaded /\ ~proc[o].thread
                                       /\ proc[o].state # "EXITED"
                                       /\ proc[o].space = proc[t].space
                                       /\ proc[o].image = proc[t].image
    BY DEF ThreadsDieWithOwner
  <2>1. Owned(proc, t)
    BY SMTT(60), <1>1 DEF Owners
  <2>2. proc[proc[t].space].space = proc[t].space
    BY <1>1, <2>1 DEF Owned, Table
  <2> QED
    BY <2>1, <2>2 DEF Owned
<1> QED
  BY <1>2, <1>3, <1>4, <1>5 DEF RunsSafely, FaultsOnlyExit, IInv

\* process_pick_next_ready and the claim in process_run_ready_slice: a process
\* is executed by one CPU at most, the one its slot names, and a claim is always
\* one that a CPU is using.
THEOREM RunsOnOneCpu == Spec => []DispatchedOnce
<1>1. SmpInv => DispatchedOnce
  BY InvRuns DEF SmpInv, DispatchedOnce, IInv
<1> QED
  BY <1>1, SmpInductive, PTL

\* On any number of CPUs no program executes an image that was freed, a fault
\* ends the program and not the CPU, and no exit of a child passes its waiting
\* parent by.
THEOREM SmpRunsSafely == Spec => [](RunsSafely /\ NoMissedExit)
<1>1. SmpInv => RunsSafely /\ NoMissedExit
  BY InvRuns DEF SmpInv
<1> QED
  BY <1>1, SmpInductive, PTL

\* process_reap, process_kill_sibling_threads and process_wake_waiter on one CPU:
\* whoever ends whom, the process in user mode is the one the table says, its
\* image is not freed, and a fault ends only the program.
THEOREM UniRunsSafely == ASSUME One PROVE EndSpec => []RunsSafely
<1>1. UniInv => RunsSafely
  BY InvRuns DEF UniInv
<1> QED
  BY <1>1, UniInductive, PTL

\* process_kill_sibling_threads: on one CPU no thread outlives the process whose
\* page tables and image it borrows.
THEOREM OwnersOutliveThreads == ASSUME One PROVE EndSpec => []ThreadsDieWithOwner
<1>1. UniInv => ThreadsDieWithOwner
  BY InvRuns DEF UniInv
<1> QED
  BY <1>1, UniInductive, PTL

-----------------------------------------------------------------------------
(* Any number of CPUs, and processes ended while another CPU runs them.  The *)
(* slot of such a process may be reaped under the CPU, whose next system     *)
(* call then works on a slot that is not loaded, or on that of somebody      *)
(* else.  What is left of Table is Loose.                                    *)

\* Pids are unique and were given out, and an unloaded slot has neither pid nor
\* parent.
Loose(P, n) ==
    /\ P \in [Slots -> Slot]
    /\ \A s \in Slots :
          /\ IF P[s].loaded THEN P[s].pid \in 1 .. n ELSE P[s].pid = 0 /\ P[s].parent = 0
          /\ P[s].state = "SLEEPING" => P[s].left > 0
    /\ \A s, t \in Slots : P[s].loaded /\ P[t].loaded /\ P[s].pid = P[t].pid => s = t

LooseInv == TypeOK /\ Loose(proc, next_pid) /\ NoneMissed(proc, {})

\* A slot keeps its process, dead if it was dead, or loses it.
Moved(x, y) ==
    /\ y.state = "SLEEPING" => y.left > 0
    /\ \/ /\ y.loaded = x.loaded /\ y.pid = x.pid /\ y.parent = x.parent
          /\ x.state = "EXITED" => y.state = "EXITED"
       \/ x.loaded /\ ~y.loaded /\ y.pid = 0 /\ y.parent = 0

Moves(P, Q) == Q \in [Slots -> Slot] /\ \A t \in Slots : Moved(P[t], Q[t])

\* Nobody begins to wait, and nobody but the processes in Y ends or is released.
Calm(P, Q, Y) ==
    \A t \in Slots : Q[t].loaded =>
        /\ Q[t].state = "WAITING" => P[t].state = "WAITING" /\ Q[t].wait = P[t].wait
        /\ t \notin Y /\ Q[t].state = "EXITED" => P[t].state = "EXITED" /\ Q[t].cpu = P[t].cpu

\* A table of moved slots is loose.
LEMMA MovesLoose ==
    ASSUME NEW n, NEW P, Loose(P, n), NEW Q, Moves(P, Q)
    PROVE  Loose(Q, n)
<1>1. \A t \in Slots : /\ IF Q[t].loaded THEN Q[t].pid \in 1 .. n ELSE Q[t].pid = 0 /\ Q[t].parent = 0
                       /\ Q[t].state = "SLEEPING" => Q[t].left > 0
  <2> TAKE t \in Slots
  <2>1. Moved(P[t], Q[t]) /\ IF P[t].loaded THEN P[t].pid \in 1 .. n ELSE P[t].pid = 0 /\ P[t].parent = 0
    BY Zenon DEF Moves, Loose
  <2> QED BY Zenon, <2>1 DEF Moved
<1>2. \A t \in Slots : Q[t].loaded => P[t].loaded /\ Q[t].pid = P[t].pid
  BY Zenon DEF Moves, Moved
<1>3. \A s, t \in Slots : Q[s].loaded /\ Q[t].loaded /\ Q[s].pid = Q[t].pid => s = t
  BY Zenon, <1>2 DEF Loose
<1> QED BY Zenon, <1>1, <1>3 DEF Loose, Moves

\* What two moves in a row do.
LEMMA MovesTrans ==
    ASSUME NEW P, NEW Q, NEW R, Moves(P, Q), Moves(Q, R)
    PROVE  Moves(P, R)
<1>1. ASSUME NEW t \in Slots PROVE Moved(P[t], R[t])
  <2>1. Moved(P[t], Q[t]) /\ Moved(Q[t], R[t])
    BY Zenon DEF Moves
  <2> QED BY Zenon, <2>1 DEF Moved
<1> QED BY Zenon, <1>1 DEF Moves

\* A table moves to itself.
LEMMA MovesSelf ==
    ASSUME NEW n, NEW P, Loose(P, n)
    PROVE  Moves(P, P)
  BY Zenon DEF Loose, Moves, Moved

\* The dead stay dead.
LEMMA MovesDead ==
    ASSUME NEW n, NEW P, Loose(P, n), NEW Q, Moves(P, Q), NEW s \in Slots,
           P[s].state = "EXITED", Q[s].pid = P[s].pid
    PROVE  Q[s].state = "EXITED"
<1>1. Moved(P[s], Q[s])
  BY Zenon DEF Moves
<1>2. P[s].loaded => P[s].pid # 0
  BY DEF Loose
<1> QED BY Zenon, <1>1, <1>2 DEF Moved

\* A calm move makes no parent miss a child but for those in Y.
LEMMA CalmMissed ==
    ASSUME NEW P, NEW Q, Moves(P, Q), NEW X, NEW Y, Calm(P, Q, Y), NoneMissed(P, X)
    PROVE  NoneMissed(Q, X \cup Y)
<1> SUFFICES ASSUME NEW p \in Slots, Q[p].loaded, Q[p].state = "WAITING",
                    NEW t \in exited_children(Q, Q[p].pid, Q[p].wait), t \notin Y
             PROVE  t \in X
  BY Zenon DEF NoneMissed
<1>1. /\ t \in Slots /\ Q[t].loaded /\ Q[t].state = "EXITED" /\ Q[t].cpu = NoCpu
      /\ Q[t].parent = Q[p].pid /\ Q[p].wait \in {0, Q[t].pid}
  BY Zenon DEF exited_children
<1>2. \A u \in Slots : Q[u].loaded => P[u].loaded /\ Q[u].pid = P[u].pid /\ Q[u].parent = P[u].parent
  BY Zenon DEF Moves, Moved
<1>3. /\ P[p].loaded /\ P[p].state = "WAITING" /\ Q[p].wait = P[p].wait /\ Q[p].pid = P[p].pid
  BY Zenon, <1>2 DEF Calm
<1>4. /\ P[t].loaded /\ P[t].state = "EXITED" /\ P[t].cpu = NoCpu
      /\ P[t].parent = P[p].pid /\ P[p].wait \in {0, P[t].pid}
  BY Zenon, <1>1, <1>2, <1>3 DEF Calm
<1>5. t \in exited_children(P, P[p].pid, P[p].wait)
  BY Zenon, <1>1, <1>4 DEF exited_children
<1> QED BY Zenon, <1>3, <1>5 DEF NoneMissed

-----------------------------------------------------------------------------
\* What is known of a slot of a loose table.
LEMMA LooseSlot ==
    ASSUME NEW n, NEW P, Loose(P, n), NEW s \in Slots
    PROVE  /\ P \in [Slots -> Slot] /\ P[s] \in Slot
           /\ P[s].parent # 0 => P[s].loaded
           /\ P[s].state = "SLEEPING" => P[s].left > 0
  BY Zenon DEF Loose

\* process_reap of a loaded slot.
LEMMA ReapMoves ==
    ASSUME NEW n, NEW P, Loose(P, n), NEW s \in Slots, P[s].loaded
    PROVE  /\ Moves(P, reap(P, s)) /\ Calm(P, reap(P, s), {})
           /\ \A t \in Slots \ {s} : reap(P, s)[t] = P[t]
<1> DEFINE Q == reap(P, s)
<1>0. P \in [Slots -> Slot] /\ P[s] \in Slot /\ \A t \in Slots : P[t].state = "SLEEPING" => P[t].left > 0
  BY Zenon, LooseSlot
<1>1. /\ Q \in [Slots -> Slot] /\ Q[s] = Reaped(P[s]) /\ \A t \in Slots \ {s} : Q[t] = P[t]
  BY <1>0, ReapIs, Zenon
<1>2. Q[s].state = "EMPTY" /\ ~Q[s].loaded /\ Q[s].pid = 0
  BY <1>0, <1>1, ReapedIs
<1>3. Q[s].parent = 0
  BY <1>1 DEF Reaped, EmptySlot
<1> HIDE DEF Q
<1>4. ASSUME NEW t \in Slots PROVE Moved(P[t], Q[t])
  <2>1. CASE t = s
    BY <1>2, <1>3, <2>1 DEF Moved
  <2>2. CASE t # s
    BY Zenon, <1>0, <1>1, <2>2 DEF Moved
  <2> QED BY Zenon, <2>1, <2>2
<1>5. Calm(P, Q, {})
  BY Zenon, <1>1, <1>2 DEF Calm
<1> QED BY Zenon, <1>1, <1>4, <1>5 DEF Moves, Q

\* A table in which only the schedule of slot s is other, and the process there
\* is not brought back to life.
LEMMA ButMoves ==
    ASSUME NEW n, NEW P, Loose(P, n), NEW s \in Slots, NEW Q, SameBut(P, Q, s),
           Q[s].state = "SLEEPING" => Q[s].left > 0,
           P[s].state = "EXITED" => Q[s].state = "EXITED"
    PROVE  Moves(P, Q)
<1>1. \A t \in Slots : P[t].state = "SLEEPING" => P[t].left > 0
  BY Zenon, LooseSlot
<1>2. ASSUME NEW t \in Slots PROVE Moved(P[t], Q[t])
  <2>1. CASE t = s
    BY Zenon, <2>1 DEF Moved, SameBut
  <2>2. CASE t # s
    BY Zenon, <1>1, <2>2 DEF Moved, SameBut
  <2> QED BY Zenon, <2>1, <2>2
<1> QED BY Zenon, <1>2 DEF Moves, SameBut

\* A process is marked EXITED; whether its parent waits for it is still to be
\* seen.
LEMMA ExitMoves ==
    ASSUME NEW n, NEW P, Loose(P, n), NEW s \in Slots, NEW X, NoneMissed(P, X)
    PROVE  /\ Moves(P, Exited(P, s)) /\ NoneMissed(Exited(P, s), X \cup {s})
           /\ Exited(P, s)[s].state = "EXITED"
           /\ \A t \in Slots \ {s} : Exited(P, s)[t] = P[t]
<1> DEFINE Q == Exited(P, s)
<1>1. P \in [Slots -> Slot] /\ "EXITED" \in States
  BY LooseSlot, Zenon DEF States
<1>2. SameBut(P, Q, s) /\ Q[s].state = "EXITED"
  BY <1>1 DEF Exited, Slot, SameBut
<1> HIDE DEF Q
<1>3. \A t \in Slots \ {s} : Q[t] = P[t]
  BY Zenon, <1>2 DEF SameBut
<1>4. "EXITED" # "SLEEPING" /\ "EXITED" # "WAITING"
  OBVIOUS
<1>5. Moves(P, Q)
  BY Zenon, <1>2, <1>4, ButMoves
<1>6. Calm(P, Q, {s})
  BY Zenon, <1>2, <1>3, <1>4 DEF Calm
<1>7. NoneMissed(Q, X \cup {s})
  BY Zenon, <1>5, <1>6, CalmMissed
<1> QED BY Zenon, <1>2, <1>3, <1>5, <1>7 DEF Q

\* process_wake_waiter for a process that is EXITED: afterwards nobody waits for
\* it, and no other dead process has been touched.
LEMMA WakeMoves ==
    ASSUME NEW n, NEW P, Loose(P, n), NEW s \in Slots, P[s].state = "EXITED",
           NEW X, NoneMissed(P, X \cup {s})
    PROVE  /\ Moves(P, wake_waiter(P, s)) /\ NoneMissed(wake_waiter(P, s), X)
           /\ \A t \in Slots \ {s} : P[t].state = "EXITED" => wake_waiter(P, s)[t] = P[t]
<1> DEFINE p == find_by_pid(P, P[s].parent)
           C == /\ P[s].parent # 0 /\ p # NoSlot /\ P[p].state = "WAITING"
                /\ P[p].wait \in {0, P[s].pid}
<1>0. "EXITED" # "WAITING" /\ "READY" # "WAITING" /\ "READY" # "EXITED" /\ "READY" # "SLEEPING"
  OBVIOUS
<1>1. ASSUME C
      PROVE  /\ Moves(P, wake_waiter(P, s)) /\ NoneMissed(wake_waiter(P, s), X)
             /\ \A t \in Slots \ {s} : P[t].state = "EXITED" => wake_waiter(P, s)[t] = P[t]
  <2>1. p \in Slots /\ P[p].loaded
    BY <1>1, FindIs
  <2>2. p # s
    BY <1>0, <1>1, Zenon
  <2>3. wake_waiter(P, s) = Collected(P, p, s)
    BY <1>1, Zenon DEF wake_waiter, Collected
  <2>4. P[p].state = "WAITING"
    BY <1>1
  <2> DEFINE Q == Collected(P, p, s)
  <2> HIDE DEF p, C
  <2>5. /\ P \in [Slots -> Slot] /\ P[p] \in Slot /\ P[s] \in Slot
        /\ \A t \in Slots : P[t].state = "SLEEPING" => P[t].left > 0
    BY Zenon, <2>1, LooseSlot
  <2>6. /\ Q \in [Slots -> Slot] /\ Q[s] = Reaped(P[s]) /\ Q[p] = Woken(P[p])
        /\ \A t \in Slots \ {s, p} : Q[t] = P[t]
    BY <2>1, <2>2, <2>5, WokenTable
  <2>7. Q[s].state = "EMPTY" /\ ~Q[s].loaded /\ Q[s].pid = 0
    BY <2>5, <2>6, ReapedIs
  <2>8. Q[s].parent = 0 /\ "EMPTY" # "SLEEPING"
    BY <2>6 DEF Reaped, EmptySlot
  <2>9. /\ Q[p].state = "READY" /\ Q[p].loaded = P[p].loaded /\ Q[p].pid = P[p].pid
        /\ Q[p].parent = P[p].parent
    BY <2>5, <2>6, WokenIs
  <2>10. P[s].loaded
    BY Zenon, <1>1, LooseSlot DEF C
  <2> HIDE DEF Q
  <2>11. ASSUME NEW t \in Slots PROVE Moved(P[t], Q[t])
    <3>1. CASE t = s
      BY Zenon, <2>7, <2>8, <2>10, <3>1 DEF Moved
    <3>2. CASE t = p
      BY Zenon, <1>0, <2>4, <2>9, <3>2 DEF Moved
    <3>3. CASE t \notin {s, p}
      BY Zenon, <2>5, <2>6, <3>3 DEF Moved
    <3> QED BY Zenon, <3>1, <3>2, <3>3
  <2>12. Moves(P, Q)
    BY Zenon, <2>6, <2>11 DEF Moves
  <2>13. Calm(P, Q, {})
    BY Zenon, <1>0, <2>6, <2>7, <2>9 DEF Calm
  <2>14. NoneMissed(Q, (X \cup {s}) \cup {})
    BY Zenon, <2>12, <2>13, CalmMissed
  <2>15. NoneMissed(Q, X)
    BY Zenon, <2>7, <2>14 DEF NoneMissed, exited_children
  <2>16. \A t \in Slots \ {s} : P[t].state = "EXITED" => Q[t] = P[t]
    BY Zenon, <1>0, <2>4, <2>6
  <2> QED BY Zenon, <2>3, <2>12, <2>15, <2>16 DEF Q
<1>2. ASSUME ~C
      PROVE  /\ Moves(P, wake_waiter(P, s)) /\ NoneMissed(wake_waiter(P, s), X)
             /\ \A t \in Slots \ {s} : P[t].state = "EXITED" => wake_waiter(P, s)[t] = P[t]
  <2>1. wake_waiter(P, s) = P
    BY <1>2, Zenon DEF wake_waiter
  <2>2. ASSUME NEW q \in Slots, P[q].loaded, P[q].state = "WAITING",
               s \in exited_children(P, P[q].pid, P[q].wait)
        PROVE  FALSE
    <3>1. P[s].loaded /\ P[s].parent = P[q].pid /\ P[q].wait \in {0, P[s].pid}
      BY Zenon, <2>2 DEF exited_children
    <3>2. P[q].pid # 0
      BY <2>2 DEF Loose
    <3>3. p \in Slots /\ P[p].loaded /\ P[p].pid = P[s].parent
      BY <2>2, <3>1, <3>2, FindIs
    <3>4. p = q
      BY Zenon, <2>2, <3>1, <3>3 DEF Loose
    <3> QED BY <1>2, <2>2, <3>1, <3>2, <3>3, <3>4, SlotsNat, Zenon
  <2>3. NoneMissed(P, X)
    BY Zenon, <2>2 DEF NoneMissed
  <2> QED BY Zenon, <2>1, <2>3, MovesSelf
<1> QED BY Zenon, <1>1, <1>2

-----------------------------------------------------------------------------
\* A table reached from P by moves after which nobody misses a child.
Sound(P, Q) == Moves(P, Q) /\ NoneMissed(Q, {})

LEMMA SoundTrans ==
    ASSUME NEW P, NEW Q, NEW R, Moves(P, Q), Sound(Q, R)
    PROVE  Sound(P, R)
  BY Zenon, MovesTrans DEF Sound

\* The end of a process, its threads first.
LEMMA DieSound ==
    ASSUME NEW n, NEW P, Loose(P, n), NoneMissed(P, {}), NEW s \in Slots
    PROVE  Sound(P, die(P, s))
<1> DEFINE E == Exited(P, s)
           K == kill_sibling_threads(E, s)
           Inv(Q) == Moves(E, Q) /\ NoneMissed(Q, {} \cup {s}) /\ Q[s].state = "EXITED"
<1>0. die(P, s) = wake_waiter(K, s)
  BY Zenon DEF die, Exited
<1>1. Moves(P, E) /\ NoneMissed(E, {} \cup {s}) /\ E[s].state = "EXITED"
  BY Zenon, ExitMoves
<1> HIDE DEF E
<1>2. Loose(E, n)
  BY Zenon, <1>1, MovesLoose
<1>3. Inv(E)
  BY Zenon, <1>1, <1>2, MovesSelf
<1>4. ASSUME NEW Q, Inv(Q), NEW k \in Slots PROVE Inv(end_sibling(E, s, Q, k))
  <2>1. CASE k \notin siblings(E, s)
    <3>1. end_sibling(E, s, Q, k) = Q
      BY Zenon, <2>1 DEF end_sibling
    <3> QED BY Zenon, <1>4, <3>1
  <2>2. CASE k \in siblings(E, s)
    <3> DEFINE R == Exited(Q, k)
               W == wake_waiter(R, k)
    <3>1. end_sibling(E, s, Q, k) = W
      BY Zenon, <2>2 DEF end_sibling, Exited
    <3>2. k # s
      BY Zenon, <2>2 DEF siblings
    <3>3. Loose(Q, n)
      BY Zenon, <1>2, <1>4, MovesLoose
    <3>4. /\ Moves(Q, R) /\ NoneMissed(R, ({} \cup {s}) \cup {k}) /\ R[k].state = "EXITED"
          /\ R[s] = Q[s]
      BY Zenon, <1>4, <3>2, <3>3, ExitMoves
    <3> HIDE DEF R
    <3>5. Loose(R, n)
      BY Zenon, <3>3, <3>4, MovesLoose
    <3>6. Moves(R, W) /\ NoneMissed(W, {} \cup {s}) /\ W[s] = R[s]
      BY ZenonT(60), <1>4, <3>2, <3>4, <3>5, WakeMoves
    <3> HIDE DEF W
    <3>7. Moves(E, W)
      BY Zenon, <1>4, <3>4, <3>6, MovesTrans
    <3> QED BY Zenon, <1>4, <3>1, <3>4, <3>6, <3>7
  <2> QED BY Zenon, <2>1, <2>2
<1>5. Inv(K)
  <2>1. PICK f : /\ EndsLoop(f, E, s, NSlots)
                 /\ K = IF siblings(E, s) = {} THEN E ELSE f[NSlots]
    BY Zenon, EndsLoopIs
  <2> HIDE DEF Inv, K
  <2>2. \A k \in 0 .. NSlots : Inv(f[k])
    <3> DEFINE Bad == {k \in 0 .. NSlots : ~Inv(f[k])}
    <3> SUFFICES ASSUME Bad # {} PROVE FALSE
      BY Zenon
    <3>1. PICK m \in Bad : \A y \in Bad : m <= y
      <4>1. Bad \in SUBSET Nat
        OBVIOUS
      <4> HIDE DEF Bad
      <4> QED BY Zenon, <4>1, Least
    <3>2. f[0] = E
      BY <2>1, SlotsNat DEF EndsLoop
    <3>3. m # 0
      BY Zenon, <1>3, <3>2
    <3>4. m \in 0 .. NSlots /\ m - 1 \in 0 .. NSlots /\ m - 1 \in Slots /\ m - 1 \notin Bad
      BY <3>1, <3>3, SlotsNat DEF Slots
    <3>5. f[m] = end_sibling(E, s, f[m - 1], m - 1)
      BY <2>1, <3>3, <3>4 DEF EndsLoop
    <3>6. Inv(f[m - 1])
      BY Zenon, <3>4
    <3> QED BY Zenon, <1>4, <3>1, <3>4, <3>5, <3>6
  <2>3. Inv(f[NSlots])
    BY <2>2, SlotsNat
  <2> QED BY Zenon, <1>3, <2>1, <2>3
<1> HIDE DEF K
<1>6. Loose(K, n)
  BY Zenon, <1>2, <1>5, MovesLoose
<1>7. Moves(K, wake_waiter(K, s)) /\ NoneMissed(wake_waiter(K, s), {})
  BY Zenon, <1>5, <1>6, WakeMoves
<1>8. Moves(P, wake_waiter(K, s))
  BY Zenon, <1>1, <1>5, <1>7, MovesTrans
<1> QED BY Zenon, <1>0, <1>7, <1>8 DEF Sound

\* process_kill
LEMMA KillSound ==
    ASSUME NEW n, NEW P, Loose(P, n), NoneMissed(P, {}), NEW pid
    PROVE  Sound(P, kill(P, pid))
<1> DEFINE t == find_by_pid(P, pid)
<1>1. CASE t = NoSlot \/ P[t].state \in {"EMPTY", "EXITED"}
  <2>1. kill(P, pid) = P
    BY Zenon, <1>1 DEF kill
  <2> QED BY Zenon, <2>1, MovesSelf DEF Sound
<1>2. CASE ~(t = NoSlot \/ P[t].state \in {"EMPTY", "EXITED"})
  <2>1. kill(P, pid) = die(P, t)
    BY Zenon, <1>2 DEF kill
  <2>2. t \in Slots
    BY <1>2, FindIs
  <2> HIDE DEF t
  <2> QED BY Zenon, <2>1, <2>2, DieSound
<1> QED BY Zenon, <1>1, <1>2

\* process_interrupt_terminal
LEMMA InterruptSound ==
    ASSUME NEW n, NEW P, Loose(P, n), NoneMissed(P, {})
    PROVE  Sound(P, interrupt(P))
<1>1. Sound(P, P)
  BY Zenon, MovesSelf DEF Sound
<1>2. ASSUME NEW Q, Sound(P, Q), NEW k \in Slots PROVE Sound(P, interrupt_one(Q, k))
  <2>1. Loose(Q, n) /\ NoneMissed(Q, {}) /\ Moves(P, Q)
    BY Zenon, <1>2, MovesLoose DEF Sound
  <2>2. Sound(Q, kill(Q, Q[k].wait))
    BY Zenon, <2>1, KillSound
  <2>3. Sound(P, kill(Q, Q[k].wait))
    BY Zenon, <2>1, <2>2, SoundTrans
  <2>4. interrupt_one(Q, k) = Q \/ interrupt_one(Q, k) = kill(Q, Q[k].wait)
    BY Zenon DEF interrupt_one
  <2> QED BY Zenon, <1>2, <2>3, <2>4
<1>3. PICK f : InterruptLoop(f, P, NSlots) /\ interrupt(P) = f[NSlots]
  BY Zenon, InterruptLoopIs
<1>4. \A k \in 0 .. NSlots : Sound(P, f[k])
  <2> DEFINE Bad == {k \in 0 .. NSlots : ~Sound(P, f[k])}
  <2> SUFFICES ASSUME Bad # {} PROVE FALSE
    BY Zenon
  <2>1. PICK m \in Bad : \A y \in Bad : m <= y
    <3>1. Bad \in SUBSET Nat
      OBVIOUS
    <3> HIDE DEF Bad
    <3> QED BY Zenon, <3>1, Least
  <2>2. f[0] = P
    BY <1>3, SlotsNat DEF InterruptLoop
  <2>3. m # 0
    BY Zenon, <1>1, <2>2
  <2>4. m \in 0 .. NSlots /\ m - 1 \in 0 .. NSlots /\ m - 1 \in Slots /\ m - 1 \notin Bad
    BY <2>1, <2>3, SlotsNat DEF Slots
  <2>5. f[m] = interrupt_one(f[m - 1], m - 1)
    BY <1>3, <2>3, <2>4 DEF InterruptLoop
  <2>6. Sound(P, f[m - 1])
    BY Zenon, <2>4
  <2> QED BY Zenon, <1>2, <2>1, <2>4, <2>5, <2>6
<1> QED BY <1>3, <1>4, SlotsNat

-----------------------------------------------------------------------------
\* A process that is not dead goes on to another state.
LEMMA UpdateSound ==
    ASSUME NEW n, NEW P, Loose(P, n), NoneMissed(P, {}), NEW s \in Slots, P[s].state # "EXITED",
           NEW Q, SameBut(P, Q, s), Q[s].state # "EXITED",
           Q[s].state = "SLEEPING" => Q[s].left > 0,
           Q[s].state = "WAITING" => exited_children(P, P[s].pid, Q[s].wait) = {}
    PROVE  Sound(P, Q)
<1>1. Moves(P, Q)
  BY Zenon, ButMoves
<1>2. ASSUME NEW p \in Slots, Q[p].loaded, Q[p].state = "WAITING",
             NEW t \in exited_children(Q, Q[p].pid, Q[p].wait)
      PROVE  FALSE
  <2>1. t # s /\ t \in Slots /\ Q[t] = P[t]
    BY Zenon DEF exited_children, SameBut
  <2>2. t \in exited_children(P, Q[p].pid, Q[p].wait)
    BY Zenon, <2>1 DEF exited_children
  <2>3. CASE p = s
    BY Zenon, <1>2, <2>2, <2>3 DEF SameBut
  <2>4. CASE p # s
    <3>1. Q[p] = P[p]
      BY Zenon, <2>4 DEF SameBut
    <3> QED BY Zenon, <1>2, <2>2, <3>1 DEF NoneMissed
  <2> QED BY Zenon, <2>3, <2>4
<1> QED BY Zenon, <1>1, <1>2 DEF Sound, NoneMissed

\* process_run_ready_slice after the slice.
LEMMA EndSliceSound ==
    ASSUME NEW n, NEW P, Loose(P, n), NoneMissed(P, {}), NEW s \in Slots
    PROVE  Sound(P, end_slice(P, s))
<1> DEFINE R == Released(P, s)
<1>0. P \in [Slots -> Slot] /\ (P[s].state = "SLEEPING" => P[s].left > 0)
  BY Zenon, LooseSlot
<1>1. /\ SameBut(P, R, s) /\ R[s].state = P[s].state /\ R[s].wait = P[s].wait
      /\ R[s].left = P[s].left
  BY Zenon, <1>0, ReleasedIs
<1>2. end_slice(P, s) = IF R[s].state = "EXITED" THEN wake_waiter(R, s) ELSE R
  BY Zenon DEF end_slice, Released
<1> HIDE DEF R
<1>3. Moves(P, R)
  BY Zenon, <1>0, <1>1, ButMoves
<1>4. Calm(P, R, {s})
  <2>1. \A t \in Slots \ {s} : R[t] = P[t]
    BY Zenon, <1>1 DEF SameBut
  <2> QED BY Zenon, <1>1, <2>1 DEF Calm
<1>5. NoneMissed(R, {} \cup {s})
  BY Zenon, <1>3, <1>4, CalmMissed
<1>6. CASE R[s].state # "EXITED"
  <2>1. NoneMissed(R, {})
    BY Zenon, <1>5, <1>6 DEF NoneMissed, exited_children
  <2>2. end_slice(P, s) = R
    BY Zenon, <1>2, <1>6
  <2> QED BY Zenon, <1>3, <2>1, <2>2 DEF Sound
<1>7. CASE R[s].state = "EXITED"
  <2>1. end_slice(P, s) = wake_waiter(R, s)
    BY Zenon, <1>2, <1>7
  <2>2. Loose(R, n)
    BY Zenon, <1>3, MovesLoose
  <2>3. Sound(R, wake_waiter(R, s))
    BY Zenon, <1>5, <1>7, <2>2, WakeMoves DEF Sound
  <2> QED BY Zenon, <1>3, <2>1, <2>3, SoundTrans
<1> QED BY Zenon, <1>6, <1>7

\* process_wake_ready
LEMMA TickSound ==
    ASSUME NEW n, NEW P, Loose(P, n), NoneMissed(P, {})
    PROVE  Sound(P, wake_ready(P))
<1>1. PICK Q : Q = wake_ready(P)
  OBVIOUS
<1>2. P \in [Slots -> Slot] /\ \A t \in Slots : P[t].state = "SLEEPING" => P[t].left > 0
  BY Zenon, LooseSlot DEF Loose
<1>3. /\ Q \in [Slots -> Slot]
      /\ \A t \in Slots : /\ Q[t].loaded = P[t].loaded /\ Q[t].pid = P[t].pid
                          /\ Q[t].parent = P[t].parent
                          /\ P[t].state # "SLEEPING" => Q[t] = P[t]
                          /\ P[t].state = "SLEEPING" =>
                                /\ Q[t].state \in {"READY", "SLEEPING"}
                                /\ Q[t].state = "SLEEPING" => Q[t].left > 0
  BY <1>1, <1>2, WakeReadyIs
<1>4. /\ "EXITED" \notin {"READY", "SLEEPING"} /\ "WAITING" \notin {"READY", "SLEEPING"}
  OBVIOUS
<1>5. ASSUME NEW t \in Slots PROVE Moved(P[t], Q[t])
  <2>1. CASE P[t].state = "SLEEPING"
    BY Zenon, <1>3, <1>4, <2>1 DEF Moved
  <2>2. CASE P[t].state # "SLEEPING"
    BY Zenon, <1>3, <2>2 DEF Moved
  <2> QED BY Zenon, <2>1, <2>2
<1>6. Moves(P, Q)
  BY Zenon, <1>3, <1>5 DEF Moves
<1>7. Calm(P, Q, {})
  BY Zenon, <1>3, <1>4 DEF Calm
<1>8. NoneMissed(Q, {} \cup {})
  BY Zenon, <1>6, <1>7, CalmMissed
<1>9. {} \cup {} = {}
  OBVIOUS
<1> QED BY Zenon, <1>1, <1>6, <1>8, <1>9 DEF Sound

\* process_reap of a loaded slot: nobody misses it.
LEMMA ReapSound ==
    ASSUME NEW n, NEW P, Loose(P, n), NoneMissed(P, {}), NEW s \in Slots, P[s].loaded
    PROVE  Sound(P, reap(P, s))
<1>1. Moves(P, reap(P, s)) /\ NoneMissed(reap(P, s), {} \cup {})
  BY Zenon, ReapMoves, CalmMissed
<1>2. {} \cup {} = {}
  OBVIOUS
<1> QED BY Zenon, <1>1, <1>2 DEF Sound

\* process_find_free_slot
LEMMA FindFreeSound ==
    ASSUME NEW n, NEW P, Loose(P, n), NoneMissed(P, {})
    PROVE  Sound(P, find_free_slot(P))
<1> DEFINE s == free_slot(P)
<1>1. CASE s # NoSlot /\ P[s].loaded /\ P[s].state # "EMPTY"
  <2>1. s \in Slots
    BY Zenon, <1>1, FreeIs
  <2>2. find_free_slot(P) = reap(P, s)
    BY Zenon, <1>1 DEF find_free_slot
  <2> HIDE DEF s
  <2> QED BY Zenon, <1>1, <2>1, <2>2, ReapSound
<1>2. CASE ~(s # NoSlot /\ P[s].loaded /\ P[s].state # "EMPTY")
  <2>1. find_free_slot(P) = P
    BY Zenon, <1>2 DEF find_free_slot
  <2> QED BY Zenon, <2>1, MovesSelf DEF Sound
<1> QED BY Zenon, <1>1, <1>2

\* kstack_canary_check
LEMMA CanarySound ==
    ASSUME NEW n, NEW P, Loose(P, n), NoneMissed(P, {}), NEW s \in Slots
    PROVE  Sound(P, canary_kill(P, s))
<1> DEFINE E == Exited(P, s)
<1>1. CASE P[s].state \in {"EXITED", "EMPTY"}
  <2>1. canary_kill(P, s) = P
    BY Zenon, <1>1 DEF canary_kill
  <2> QED BY Zenon, <2>1, MovesSelf DEF Sound
<1>2. CASE P[s].state \notin {"EXITED", "EMPTY"}
  <2>1. canary_kill(P, s) = wake_waiter(E, s)
    BY Zenon, <1>2 DEF canary_kill, Exited
  <2>2. Moves(P, E) /\ NoneMissed(E, {} \cup {s}) /\ E[s].state = "EXITED"
    BY Zenon, ExitMoves
  <2> HIDE DEF E
  <2>3. Loose(E, n)
    BY Zenon, <2>2, MovesLoose
  <2>4. Sound(E, wake_waiter(E, s))
    BY Zenon, <2>2, <2>3, WakeMoves DEF Sound
  <2> QED BY Zenon, <2>1, <2>2, <2>4, SoundTrans
<1> QED BY Zenon, <1>1, <1>2

-----------------------------------------------------------------------------
\* The variables of the CPUs keep their types.
CpusTyped ==
    /\ current' \in [CPUs -> Slots \cup {NoSlot}] /\ running' \in [CPUs -> Slots \cup {NoSlot}]
    /\ img' \in [CPUs -> 0 .. MaxPid] /\ cursor' \in [CPUs -> Slots] /\ hung' \subseteq CPUs

\* What every step keeps, and that it brings nobody back to life.
DeadStep ==
    \A s \in Slots : proc[s].state = "EXITED" /\ proc'[s].pid = proc[s].pid
                        => proc'[s].state = "EXITED"

Carried == LooseInv' /\ DeadStep

LEMMA LooseIs ==
    ASSUME LooseInv
    PROVE  /\ Loose(proc, next_pid) /\ NoneMissed(proc, {}) /\ TypeOK /\ next_pid \in 0 .. MaxPid
           /\ next_pid \in Nat
  BY ProcessAssumption DEF LooseInv, TypeOK

\* A step that moves the table soundly.
LEMMA SoundCarried ==
    ASSUME LooseInv, Sound(proc, proc'), CpusTyped, next_pid' = next_pid
    PROVE  Carried
<1>1. Loose(proc', next_pid') /\ NoneMissed(proc', {})
  BY Zenon, LooseIs, MovesLoose DEF Sound
<1>2. TypeOK'
  BY Zenon, <1>1, LooseIs DEF TypeOK, CpusTyped, Loose
<1>3. DeadStep
  BY Zenon, LooseIs, MovesDead DEF DeadStep, Sound
<1> QED BY Zenon, <1>1, <1>2, <1>3 DEF Carried, LooseInv

LEMMA ReturnCarried ==
    ASSUME LooseInv, NEW c, NEW P, Sound(proc, P), Return(c, P), next_pid' = next_pid
    PROVE  Carried
<1>1. Sound(proc, proc') /\ CpusTyped
  BY Zenon, LooseIs DEF Return, CpusTyped, TypeOK
<1> QED BY Zenon, <1>1, SoundCarried

LEMMA LeavesCarried ==
    ASSUME LooseInv, NEW c \in CPUs, running[c] # NoSlot, NEW P, Sound(proc, P), Leaves(c, P)
    PROVE  Carried
<1>1. running[c] \in Slots
  BY Zenon, LooseIs DEF TypeOK
<1>2. Loose(P, next_pid) /\ NoneMissed(P, {}) /\ Moves(proc, P)
  BY Zenon, LooseIs, MovesLoose DEF Sound
<1>3. Sound(P, end_slice(P, running[c]))
  BY Zenon, <1>1, <1>2, EndSliceSound
<1>4. Sound(proc, proc') /\ next_pid' = next_pid
  BY Zenon, <1>2, <1>3, SoundTrans DEF Leaves
<1>5. 0 \in 0 .. MaxPid /\ NoSlot \in Slots \cup {NoSlot}
  BY ProcessAssumption
<1>6. CpusTyped
  BY <1>5, LooseIs DEF Leaves, CpusTyped, TypeOK
<1> QED BY Zenon, <1>4, <1>6, SoundCarried

LEMMA GiveUpCarried ==
    ASSUME LooseInv, NEW c \in CPUs, running[c] # NoSlot, NEW P, Sound(proc, P), GiveUp(c, P),
           next_pid' = next_pid
    PROVE  Carried
<1>1. current \in [CPUs -> Slots \cup {NoSlot}]
  BY Zenon, LooseIs DEF TypeOK
<1>2. Leaves(c, P)
  BY <1>1 DEF GiveUp, Leaves
<1> QED BY Zenon, <1>2, LeavesCarried

\* The caller of a system call is not dead, but its slot may be anything else.
LEMMA CallerIs ==
    ASSUME LooseInv, NEW c \in CPUs, Alive(c)
    PROVE  current[c] \in Slots /\ proc[current[c]].state # "EXITED" /\ proc \in [Slots -> Slot]
  BY Zenon, LooseIs DEF TypeOK, Alive

LEMMA YieldCarried ==
    ASSUME LooseInv, NEW c \in CPUs, SYS_YIELD(c)
    PROVE  Carried
<1> DEFINE s == current[c]
           P == [proc EXCEPT ![s].state = "READY"]
<1>1. running[c] # NoSlot /\ Alive(c) /\ GiveUp(c, P) /\ next_pid' = next_pid
  BY Zenon DEF SYS_YIELD, InUser
<1>2. s \in Slots /\ proc[s].state # "EXITED" /\ proc \in [Slots -> Slot]
  BY Zenon, <1>1, CallerIs
<1>3. SameBut(proc, P, s) /\ P[s].state = "READY"
  BY <1>2 DEF SameBut, Slot, States
<1> HIDE DEF P, s
<1>4. "READY" \notin {"EXITED", "SLEEPING", "WAITING"}
  OBVIOUS
<1>5. P[s].state # "EXITED" /\ P[s].state # "SLEEPING" /\ P[s].state # "WAITING"
  BY Zenon, <1>3, <1>4
<1>6. Sound(proc, P)
  BY Zenon, <1>2, <1>3, <1>5, LooseIs, UpdateSound
<1> QED BY Zenon, <1>1, <1>6, GiveUpCarried

LEMMA SleepCarried ==
    ASSUME LooseInv, NEW c \in CPUs, SYS_TIMER_SLEEP(c)
    PROVE  Carried
<1> DEFINE s == current[c]
           P(n) == [proc EXCEPT ![s].state = "SLEEPING", ![s].left = n]
<1>1. running[c] # NoSlot /\ Alive(c) /\ next_pid' = next_pid
  BY Zenon DEF SYS_TIMER_SLEEP, Serving, InUser
<1>2. PICK n \in 1 .. MaxSleep : GiveUp(c, P(n))
  BY Zenon DEF SYS_TIMER_SLEEP
<1>3. s \in Slots /\ proc[s].state # "EXITED" /\ proc \in [Slots -> Slot]
  BY Zenon, <1>1, CallerIs
<1>4. n \in 0 .. MaxSleep /\ n > 0
  BY ProcessAssumption
<1>5. SameBut(proc, P(n), s) /\ P(n)[s].state = "SLEEPING" /\ P(n)[s].left = n
  BY <1>3, <1>4 DEF SameBut, Slot, States
<1> HIDE DEF P, s
<1>6. "SLEEPING" # "EXITED" /\ "SLEEPING" # "WAITING"
  OBVIOUS
<1>7. Sound(proc, P(n))
  BY Zenon, <1>3, <1>4, <1>5, <1>6, LooseIs, UpdateSound
<1> QED BY Zenon, <1>1, <1>2, <1>7, GiveUpCarried

LEMMA BlockCarried ==
    ASSUME LooseInv, NEW c \in CPUs, yield_blocking(c)
    PROVE  Carried
<1> DEFINE s == current[c]
           x == proc[s]
           y == [x EXCEPT !.state = "WAITING_IO", !.parked = TRUE]
           P == [proc EXCEPT ![s].state = "WAITING_IO", ![s].parked = TRUE]
<1>1. running[c] # NoSlot /\ Alive(c) /\ next_pid' = next_pid
  BY Zenon DEF yield_blocking, Serving, InUser
<1>2. s \in Slots /\ proc[s].state # "EXITED" /\ proc \in [Slots -> Slot]
  BY Zenon, <1>1, CallerIs
<1>3. P = [proc EXCEPT ![s] = y]
  BY Zenon
<1>4. x \in Slot /\ "WAITING_IO" \in States
  BY <1>2 DEF States
<1>5. /\ y \in Slot /\ y.state = "WAITING_IO"
      /\ y.loaded = x.loaded /\ y.pid = x.pid /\ y.parent = x.parent
      /\ y.thread = x.thread /\ y.space = x.space /\ y.image = x.image
  BY <1>4, Zenon DEF Slot
<1>6. Leaves(c, P)
  <2>1. proc' = end_slice(P, running[c])
    BY Zenon DEF yield_blocking
  <2>2. current \in [CPUs -> Slots \cup {NoSlot}]
    BY Zenon, LooseIs DEF TypeOK
  <2> HIDE DEF P
  <2> QED BY <2>1, <2>2 DEF yield_blocking, Leaves
<1> HIDE DEF y
<1>7. SameBut(proc, P, s) /\ P[s].state = "WAITING_IO"
  BY <1>2, <1>3, <1>4, <1>5, Zenon DEF SameBut
<1> HIDE DEF P, s
<1>8. "WAITING_IO" # "EXITED" /\ "WAITING_IO" # "WAITING" /\ "WAITING_IO" # "SLEEPING"
  OBVIOUS
<1>9. Sound(proc, P)
  BY Zenon, <1>2, <1>7, <1>8, LooseIs, UpdateSound
<1> QED BY Zenon, <1>1, <1>6, <1>9, LeavesCarried

LEMMA WaitCarried ==
    ASSUME LooseInv, NEW c \in CPUs, SYS_WAITPID(c)
    PROVE  Carried
<1> DEFINE s == current[c]
           S(n) == exited_children(proc, proc[s].pid, n)
           P(n) == [proc EXCEPT ![s].wait = n, ![s].state = "WAITING"]
<1>1. running[c] # NoSlot /\ Alive(c) /\ next_pid' = next_pid
  BY Zenon DEF SYS_WAITPID, Serving, InUser
<1>2. PICK n \in 0 .. next_pid : \/ S(n) # {} /\ Return(c, reap(proc, Lowest(S(n))))
                                 \/ S(n) = {} /\ GiveUp(c, P(n))
  BY Zenon DEF SYS_WAITPID
<1>3. s \in Slots /\ proc[s].state # "EXITED" /\ proc \in [Slots -> Slot]
  BY Zenon, <1>1, CallerIs
<1>4. CASE S(n) = {} /\ GiveUp(c, P(n))
  <2>1. n \in 0 .. MaxPid
    BY LooseIs, ProcessAssumption
  <2>2. SameBut(proc, P(n), s) /\ P(n)[s].state = "WAITING" /\ P(n)[s].wait = n
    BY <1>3, <2>1 DEF SameBut, Slot, States
  <2>3. "WAITING" # "EXITED" /\ "WAITING" # "SLEEPING"
    OBVIOUS
  <2>4. exited_children(proc, proc[s].pid, n) = {}
    BY <1>4
  <2> HIDE DEF P, s
  <2>5. Sound(proc, P(n))
    BY Zenon, <1>3, <2>2, <2>3, <2>4, LooseIs, UpdateSound
  <2> QED BY Zenon, <1>1, <1>4, <2>5, GiveUpCarried
<1>5. CASE S(n) # {} /\ Return(c, reap(proc, Lowest(S(n))))
  <2> DEFINE z == Lowest(S(n))
  <2>1. z \in Slots /\ proc[z].loaded
    <3>1. S(n) \in SUBSET Slots
      BY DEF exited_children
    <3>2. z \in S(n)
      BY <1>5, <3>1, LowestIs
    <3> QED BY <3>2, Zenon DEF exited_children
  <2> HIDE DEF z
  <2>2. Sound(proc, reap(proc, z))
    BY Zenon, <2>1, LooseIs, ReapSound
  <2> QED BY Zenon, <1>1, <1>5, <2>2, ReturnCarried DEF z
<1> QED BY Zenon, <1>2, <1>4, <1>5

\* SYS_EXIT and process_handle_user_fault; the CPU may also stop.
LEMMA ExitCarried ==
    ASSUME LooseInv, NEW c \in CPUs, SYS_EXIT(c) \/ user_fault(c)
    PROVE  Carried
<1>1. running[c] # NoSlot /\ next_pid' = next_pid
  BY Zenon DEF SYS_EXIT, user_fault, Serving, InUser
<1>2. ASSUME Alive(c), GiveUp(c, die(proc, current[c])) PROVE Carried
  <2>1. Sound(proc, die(proc, current[c]))
    BY Zenon, <1>2, CallerIs, LooseIs, DieSound
  <2> QED BY Zenon, <1>1, <1>2, <2>1, GiveUpCarried
<1>3. ASSUME hung' = hung \cup {c}, UNCHANGED <<proc, current, running, img, cursor>>
      PROVE  Carried
  <2>1. CpusTyped
    BY <1>3, LooseIs DEF CpusTyped, TypeOK
  <2>2. Sound(proc, proc')
    BY Zenon, <1>3, LooseIs, MovesSelf DEF Sound
  <2> QED BY Zenon, <1>1, <2>1, <2>2, SoundCarried
<1> QED BY Zenon, <1>2, <1>3 DEF SYS_EXIT, Serving, user_fault

-----------------------------------------------------------------------------
\* A process or thread x with the next pid takes the slot that
\* process_find_free_slot found.
LEMMA EnterCarried ==
    ASSUME LooseInv, NEW c, NEW s, s = free_slot(proc), s # NoSlot, NEW F, F = find_free_slot(proc),
           next_pid < MaxPid, next_pid' = next_pid + 1, NEW x, NEW space, NEW image,
           Newly(x, next_pid + 1, space, image), Return(c, [F EXCEPT ![s] = x])
    PROVE  Carried
<1>1. PICK n : n = next_pid
  OBVIOUS
<1>2. n \in Nat /\ n + 1 \in 0 .. MaxPid /\ n \in 0 .. MaxPid
  BY <1>1, LooseIs, ProcessAssumption
<1>3. s \in Slots
  BY Zenon, FreeIs
<1>4. Moves(proc, F) /\ NoneMissed(F, {}) /\ Loose(F, n) /\ Loose(proc, n)
  BY Zenon, <1>1, LooseIs, FindFreeSound, MovesLoose DEF Sound
<1>5. /\ x \in Slot /\ x.state = "READY" /\ x.loaded /\ x.pid = n + 1
  BY Zenon, <1>1 DEF Newly
<1>6. F \in [Slots -> Slot]
  BY Zenon, <1>4 DEF Loose
<1>7. proc' \in [Slots -> Slot] /\ proc'[s] = x /\ \A t \in Slots \ {s} : proc'[t] = F[t]
  BY Zenon, <1>3, <1>5, <1>6 DEF Return
<1>8. Loose(proc', n + 1)
  <2>1. ASSUME NEW t \in Slots
        PROVE  /\ IF proc'[t].loaded THEN proc'[t].pid \in 1 .. n + 1
                                     ELSE proc'[t].pid = 0 /\ proc'[t].parent = 0
               /\ proc'[t].state = "SLEEPING" => proc'[t].left > 0
    <3>1. CASE t = s
      BY SMTT(60), <1>2, <1>5, <1>7, <3>1
    <3>2. CASE t # s
      <4>1. /\ IF F[t].loaded THEN F[t].pid \in 1 .. n ELSE F[t].pid = 0 /\ F[t].parent = 0
            /\ F[t].state = "SLEEPING" => F[t].left > 0
        BY Zenon, <1>4 DEF Loose
      <4>2. proc'[t] = F[t]
        BY Zenon, <1>7, <3>2
      <4> QED BY <1>2, <4>1, <4>2
    <3> QED BY Zenon, <3>1, <3>2
  <2>2. ASSUME NEW t \in Slots \ {s}, proc'[t].loaded PROVE proc'[t].pid # n + 1
    <3>1. F[t].loaded /\ F[t].pid \in 1 .. n /\ proc'[t] = F[t]
      BY Zenon, <1>4, <1>7, <2>2 DEF Loose
    <3> QED BY <1>2, <3>1
  <2>3. ASSUME NEW t \in Slots, NEW u \in Slots, proc'[t].loaded, proc'[u].loaded,
               proc'[t].pid = proc'[u].pid
        PROVE  t = u
    <3>1. CASE t = s \/ u = s
      BY Zenon, <1>5, <1>7, <2>2, <2>3, <3>1
    <3>2. CASE t # s /\ u # s
      <4>1. proc'[t] = F[t] /\ proc'[u] = F[u]
        BY Zenon, <1>7, <3>2
      <4> QED BY Zenon, <1>4, <2>3, <4>1 DEF Loose
    <3> QED BY Zenon, <3>1, <3>2
  <2> QED BY Zenon, <1>7, <2>1, <2>3 DEF Loose
<1>9. NoneMissed(proc', {})
  <2>1. "READY" # "WAITING" /\ "READY" # "EXITED"
    OBVIOUS
  <2>2. \A t \in Slots : proc'[t].state \in {"WAITING", "EXITED"} => proc'[t] = F[t]
    BY Zenon, <1>5, <1>7, <2>1
  <2>3. ASSUME NEW p \in Slots, proc'[p].loaded, proc'[p].state = "WAITING",
               NEW t \in exited_children(proc', proc'[p].pid, proc'[p].wait)
        PROVE  FALSE
    <3>1. proc'[p] = F[p]
      BY Zenon, <2>2, <2>3
    <3>2. t \in Slots /\ proc'[t] = F[t]
      BY Zenon, <2>2 DEF exited_children
    <3>3. t \in exited_children(F, F[p].pid, F[p].wait)
      BY Zenon, <3>1, <3>2 DEF exited_children
    <3> QED BY Zenon, <1>4, <2>3, <3>1, <3>3 DEF NoneMissed
  <2> QED BY Zenon, <2>3 DEF NoneMissed
<1>10. TypeOK'
  <2>1. next_pid' \in 0 .. MaxPid
    BY Zenon, <1>1, <1>2
  <2> QED BY Zenon, <1>7, <2>1, LooseIs DEF TypeOK, Return
<1>11. DeadStep
  <2> SUFFICES ASSUME NEW t \in Slots, proc[t].state = "EXITED", proc'[t].pid = proc[t].pid
               PROVE  proc'[t].state = "EXITED"
    BY Zenon DEF DeadStep
  <2>1. CASE t = s
    <3>1. IF proc[s].loaded THEN proc[s].pid \in 1 .. n ELSE proc[s].pid = 0
      BY Zenon, <1>3, <1>4 DEF Loose
    <3>2. proc[s].pid # n + 1
      BY <1>2, <3>1
    <3> QED BY Zenon, <1>5, <1>7, <2>1, <3>2
  <2>2. CASE t # s
    <3>1. proc'[t] = F[t]
      BY Zenon, <1>7, <2>2
    <3>2. F[t].pid = proc[t].pid
      BY Zenon, <3>1
    <3>3. F[t].state = "EXITED"
      BY Zenon, <1>4, <3>2, MovesDead
    <3> QED BY Zenon, <3>1, <3>3
  <2> QED BY Zenon, <2>1, <2>2
<1> QED BY Zenon, <1>1, <1>8, <1>9, <1>10, <1>11 DEF Carried, LooseInv

LEMMA LoadCarried ==
    ASSUME LooseInv, NEW c, free_slot(proc) # NoSlot, next_pid < MaxPid, next_pid' = next_pid + 1,
           NEW parent \in 0 .. MaxPid,
           Return(c, load_image(find_free_slot(proc), free_slot(proc), next_pid', parent))
    PROVE  Carried
<1> DEFINE s == free_slot(proc)
           F == find_free_slot(proc)
           x == Loaded(s, next_pid + 1, parent)
<1>1. s \in Slots /\ next_pid + 1 \in 0 .. MaxPid
  BY LooseIs, FreeIs, ProcessAssumption
<1>2. load_image(F, s, next_pid', parent) = [F EXCEPT ![s] = x]
  BY Zenon DEF load_image, Loaded
<1>3. Newly(x, next_pid + 1, s, next_pid + 1)
  BY Zenon, <1>1, LoadedIs
<1>4. s = free_slot(proc) /\ F = find_free_slot(proc)
  OBVIOUS
<1>5. Return(c, [F EXCEPT ![s] = x]) /\ s # NoSlot
  BY Zenon, <1>2
<1> HIDE DEF x, s, F
<1> QED BY SMTT(60), <1>3, <1>4, <1>5, EnterCarried

\* A slot's pid, whatever the slot.
LEMMA SlotPid ==
    ASSUME NEW n, NEW P, Loose(P, n), NEW s \in Slots
    PROVE  P[s].pid \in 0 .. MaxPid /\ P[s].image \in 0 .. MaxPid /\ P[s].space \in Slots \cup {NoSlot}
<1>1. P[s] \in Slot
  BY Zenon, LooseSlot
<1> QED BY <1>1 DEF Slot

LEMMA SpawnCarried ==
    ASSUME LooseInv, NEW c \in CPUs, SYS_PROCESS_SPAWN(c)
    PROVE  Carried
<1> DEFINE s == free_slot(proc)
           F == find_free_slot(proc)
           parent == F[current[c]].pid
<1>1. Alive(c)
  BY Zenon DEF SYS_PROCESS_SPAWN, Serving
<1>2. \/ /\ s # NoSlot /\ next_pid < MaxPid /\ next_pid' = next_pid + 1
         /\ Return(c, load_image(F, s, next_pid', parent))
      \/ Return(c, F) /\ next_pid' = next_pid
  BY Zenon DEF SYS_PROCESS_SPAWN
<1>3. Sound(proc, F)
  BY Zenon, LooseIs, FindFreeSound
<1>4. Loose(F, next_pid)
  BY Zenon, <1>3, LooseIs, MovesLoose DEF Sound
<1>5. parent \in 0 .. MaxPid
  BY Zenon, <1>1, <1>4, CallerIs, SlotPid
<1> HIDE DEF parent
<1> QED BY Zenon, <1>2, <1>3, <1>5, ReturnCarried, LoadCarried

LEMMA LaunchCarried ==
    ASSUME LooseInv, spawn_path
    PROVE  Carried
<1>1. 0 \in 0 .. MaxPid
  BY ProcessAssumption
<1> QED BY Zenon, <1>1, LoadCarried DEF spawn_path

LEMMA ThreadCarried ==
    ASSUME LooseInv, NEW c \in CPUs, SYS_THREAD_CREATE(c)
    PROVE  Carried
<1> DEFINE s == free_slot(proc)
           F == find_free_slot(proc)
           p == current[c]
           x == Thread(next_pid + 1, F[p].pid, F[p].space, F[p].image)
<1>1. /\ Alive(c) /\ s # NoSlot /\ next_pid < MaxPid /\ next_pid' = next_pid + 1
      /\ Return(c, create_thread(F, s, next_pid', p))
  BY Zenon DEF SYS_THREAD_CREATE, Serving
<1>2. next_pid + 1 \in 0 .. MaxPid
  BY <1>1, LooseIs, ProcessAssumption
<1>3. create_thread(F, s, next_pid', p) = [F EXCEPT ![s] = x]
  BY Zenon, <1>1 DEF create_thread, Thread
<1>4. Loose(F, next_pid)
  BY Zenon, LooseIs, FindFreeSound, MovesLoose DEF Sound
<1>5. F[p].pid \in 0 .. MaxPid /\ F[p].image \in 0 .. MaxPid /\ F[p].space \in Slots \cup {NoSlot}
  BY Zenon, <1>1, <1>4, CallerIs, SlotPid
<1>6. Newly(x, next_pid + 1, F[p].space, F[p].image)
  BY Zenon, <1>2, <1>5, ThreadIs
<1>7. s = free_slot(proc) /\ F = find_free_slot(proc)
  OBVIOUS
<1>8. Return(c, [F EXCEPT ![s] = x])
  BY Zenon, <1>1, <1>3
<1> HIDE DEF x, s, F
<1> QED BY <1>1, <1>6, <1>7, <1>8, EnterCarried

-----------------------------------------------------------------------------
\* process_run_ready_slice, from table P.
LEMMA DispatchCarried ==
    ASSUME LooseInv, NEW c \in CPUs, NEW P, Sound(proc, P), NEW again \in BOOLEAN,
           Dispatch(c, P, again)
    PROVE  Carried
<1> DEFINE s == pick_next_ready(P, c)
           Q == claim(P, s, c)
<1>0. cursor \in [CPUs -> Slots] /\ 0 \in 0 .. MaxPid
  BY LooseIs, ProcessAssumption DEF TypeOK
<1>1. s \in Slots /\ Eligible(P, s)
  BY <1>0, PickIs, Zenon DEF Dispatch
<1>2. /\ proc' = IF again THEN P ELSE Q
      /\ current' = [current EXCEPT ![c] = s]
      /\ running' = [running EXCEPT ![c] = IF again THEN NoSlot ELSE s]
      /\ img' = [img EXCEPT ![c] = IF again THEN 0 ELSE P[s].image]
      /\ cursor' = [cursor EXCEPT ![c] = next_slot(s)]
      /\ next_pid' = next_pid /\ hung' = hung
  BY Zenon DEF Dispatch
<1>3. Loose(P, next_pid) /\ NoneMissed(P, {}) /\ Moves(proc, P)
  BY Zenon, LooseIs, MovesLoose DEF Sound
<1>4. P \in [Slots -> Slot]
  BY Zenon, <1>3 DEF Loose
<1>5. SameBut(P, Q, s) /\ Q[s].state = "RUNNING"
  BY Zenon, <1>1, <1>4, ClaimIs
<1> HIDE DEF s, Q
<1>6. /\ "RUNNING" # "EXITED" /\ "RUNNING" # "WAITING" /\ "RUNNING" # "SLEEPING"
      /\ "READY" # "EXITED" /\ "WAITING_IO" # "EXITED"
  OBVIOUS
<1>7. Sound(P, Q)
  BY Zenon, <1>1, <1>3, <1>5, <1>6, UpdateSound DEF Eligible
<1>8. Sound(proc, proc')
  BY ZenonT(60), <1>2, <1>3, <1>7, SoundTrans
<1>9. CpusTyped
  <2>1. next_slot(s) \in Slots
    <3>1. s \in Nat /\ NSlots \in Nat \ {0}
      BY <1>1, SlotsNat, ProcessAssumption
    <3>2. (s + 1) % NSlots \in 0 .. NSlots - 1
      BY <3>1
    <3> QED BY <3>2 DEF next_slot, Slots
  <2>2. P[s].image \in 0 .. MaxPid
    BY Zenon, <1>1, <1>3, SlotPid
  <2> QED BY SMTT(60), <1>0, <1>1, <1>2, <2>1, <2>2, LooseIs DEF TypeOK, CpusTyped
<1> QED BY Zenon, <1>2, <1>8, <1>9, SoundCarried

LEMMA SliceCarried ==
    ASSUME LooseInv, NEW c \in CPUs, run_ready_slice(c)
    PROVE  Carried
<1>1. Sound(proc, proc)
  BY Zenon, LooseIs, MovesSelf DEF Sound
<1> QED BY Zenon, <1>1, DispatchCarried DEF run_ready_slice

LEMMA OverflowCarried ==
    ASSUME LooseInv, NEW c \in CPUs, run_ready_slice_overflow(c)
    PROVE  Carried
<1> DEFINE P(s) == canary_kill(proc, s)
<1>1. PICK s \in Slots :
         \/ Dispatch(c, P(s), FALSE)
         \/ /\ proc' = P(s)
            /\ current' = [current EXCEPT ![c] = IF @ = s THEN NoSlot ELSE @]
            /\ UNCHANGED <<next_pid, running, img, cursor, hung>>
  BY Zenon DEF run_ready_slice_overflow
<1>2. Sound(proc, P(s))
  BY Zenon, LooseIs, CanarySound
<1> HIDE DEF P
<1>3. CASE Dispatch(c, P(s), FALSE)
  <2>1. FALSE \in BOOLEAN
    OBVIOUS
  <2> QED BY Zenon, <1>2, <1>3, <2>1, DispatchCarried
<1>4. CASE /\ proc' = P(s)
           /\ current' = [current EXCEPT ![c] = IF @ = s THEN NoSlot ELSE @]
           /\ UNCHANGED <<next_pid, running, img, cursor, hung>>
  <2>1. CpusTyped
    BY <1>4, LooseIs DEF CpusTyped, TypeOK
  <2> QED BY Zenon, <1>2, <1>4, <2>1, SoundCarried
<1> QED BY Zenon, <1>1, <1>3, <1>4

\* timer_handle_interrupt and process_ap_timer
LEMMA TickCarried ==
    ASSUME LooseInv, NEW c \in CPUs, timer_interrupt(c)
    PROVE  Carried
<1> DEFINE T == Ticked(c)
           s == current[c]
           P == [T EXCEPT ![s].state = "READY"]
<1>1. Sound(proc, T)
  <2>1. T = wake_ready(proc) \/ T = proc
    BY Zenon DEF Ticked
  <2> QED BY Zenon, <2>1, LooseIs, TickSound, MovesSelf DEF Sound
<1>2. CASE ~(running[c] # NoSlot /\ s # NoSlot)
  <2>1. Return(c, T) /\ next_pid' = next_pid
    BY Zenon, <1>2 DEF timer_interrupt
  <2> QED BY Zenon, <1>1, <2>1, ReturnCarried
<1>3. CASE running[c] # NoSlot /\ s # NoSlot
  <2>1. GiveUp(c, IF T[s].state = "EXITED" THEN T ELSE P) /\ next_pid' = next_pid
    BY Zenon, <1>3 DEF timer_interrupt, Preempted
  <2>2. s \in Slots /\ Loose(T, next_pid) /\ NoneMissed(T, {}) /\ Moves(proc, T)
    BY Zenon, <1>1, <1>3, LooseIs, MovesLoose DEF Sound, TypeOK
  <2>3. T \in [Slots -> Slot]
    BY Zenon, <2>2 DEF Loose
  <2> HIDE DEF T, s
  <2>4. CASE T[s].state = "EXITED"
    BY Zenon, <1>1, <1>3, <2>1, <2>4, GiveUpCarried
  <2>5. CASE T[s].state # "EXITED"
    <3>1. SameBut(T, P, s) /\ P[s].state = "READY"
      BY <2>2, <2>3 DEF SameBut, Slot, States
    <3>2. "READY" # "EXITED" /\ "READY" # "SLEEPING" /\ "READY" # "WAITING"
      OBVIOUS
    <3> HIDE DEF P
    <3>3. Sound(T, P)
      BY Zenon, <2>2, <2>5, <3>1, <3>2, UpdateSound
    <3>4. Sound(proc, P)
      BY Zenon, <2>2, <3>3, SoundTrans
    <3> QED BY Zenon, <1>3, <2>1, <2>5, <3>4, GiveUpCarried
  <2> QED BY Zenon, <2>4, <2>5
<1> QED BY Zenon, <1>2, <1>3

\* A program comes back from user mode dead.
LEMMA DeadCarried ==
    ASSUME LooseInv, NEW c \in CPUs, syscall_of_the_dead(c)
    PROVE  Carried
<1>1. Sound(proc, proc)
  BY Zenon, LooseIs, MovesSelf DEF Sound
<1> QED BY Zenon, <1>1, GiveUpCarried DEF syscall_of_the_dead, InUser

LEMMA KillCarried ==
    ASSUME LooseInv, NEW c \in CPUs, SYS_PROCESS_KILL(c)
    PROVE  Carried
<1>1. running[c] # NoSlot /\ next_pid' = next_pid
  BY Zenon DEF SYS_PROCESS_KILL, Serving, InUser
<1>2. PICK pid : GiveUp(c, kill(proc, pid)) \/ Return(c, kill(proc, pid))
  BY Zenon DEF SYS_PROCESS_KILL
<1>3. Sound(proc, kill(proc, pid))
  BY Zenon, LooseIs, KillSound
<1> QED BY Zenon, <1>1, <1>2, <1>3, GiveUpCarried, ReturnCarried

LEMMA DesktopCarried ==
    ASSUME LooseInv, desktop_kill \/ interrupt_terminal
    PROVE  Carried
<1>1. CASE desktop_kill
  <2>1. PICK pid :
         /\ proc' = kill(proc, pid)
         /\ current' = [current EXCEPT ![BSP] = IF @ \in killed(proc, pid) THEN NoSlot ELSE @]
    BY Zenon, <1>1 DEF desktop_kill
  <2>2. UNCHANGED <<next_pid, running, img, cursor, hung>>
    BY Zenon, <1>1 DEF desktop_kill
  <2>3. Sound(proc, proc')
    BY Zenon, <2>1, LooseIs, KillSound
  <2>4. current' \in [CPUs -> Slots \cup {NoSlot}]
    BY <2>1, LooseIs, ProcessAssumption DEF TypeOK
  <2>5. CpusTyped
    BY Zenon, <2>2, <2>4, LooseIs DEF CpusTyped, TypeOK
  <2> QED BY Zenon, <2>2, <2>3, <2>5, SoundCarried
<1>2. CASE interrupt_terminal
  <2>1. Sound(proc, interrupt(proc))
    BY Zenon, LooseIs, InterruptSound
  <2> QED BY Zenon, <1>2, <2>1, ReturnCarried DEF interrupt_terminal
<1> QED BY Zenon, <1>1, <1>2

LEMMA StepCarried ==
    ASSUME LooseInv, [EndNext]_vars
    PROVE  Carried
<1>1. ASSUME NEW c \in CPUs,
             \/ run_ready_slice(c) \/ SYS_YIELD(c) \/ SYS_EXIT(c) \/ SYS_PROCESS_SPAWN(c)
             \/ SYS_WAITPID(c) \/ SYS_TIMER_SLEEP(c) \/ yield_blocking(c) \/ user_fault(c)
             \/ timer_interrupt(c)
      PROVE  Carried
  BY Zenon, <1>1, SliceCarried, YieldCarried, ExitCarried, SpawnCarried, WaitCarried, SleepCarried,
     BlockCarried, TickCarried
<1>2. ASSUME NEW c \in CPUs,
             \/ run_ready_slice_overflow(c) \/ syscall_of_the_dead(c) \/ SYS_THREAD_CREATE(c)
             \/ SYS_PROCESS_KILL(c)
      PROVE  Carried
  BY Zenon, <1>2, OverflowCarried, DeadCarried, ThreadCarried, KillCarried
<1>3. CASE UNCHANGED vars
  <2>1. Sound(proc, proc') /\ CpusTyped /\ next_pid' = next_pid
    BY Zenon, <1>3, LooseIs, MovesSelf DEF Sound, vars, CpusTyped, TypeOK
  <2> QED BY Zenon, <2>1, SoundCarried
<1> QED BY Zenon, <1>1, <1>2, <1>3, LaunchCarried, DesktopCarried DEF EndNext, Next

\* The invariant of the scheduler on any number of CPUs, whatever programs, the
\* desktop and the check of the kernel stacks do to processes that are running.
THEOREM LooseInductive == EndSpec => []LooseInv
<1>1. Init => LooseInv
  <2> SUFFICES ASSUME Init PROVE LooseInv
    OBVIOUS
  <2>1. TypeOK /\ Table(proc, next_pid) /\ NoneMissed(proc, {})
    BY Zenon, InitFine DEF IInv, Good
  <2>2. ASSUME NEW s \in Slots, ~proc[s].loaded PROVE proc[s].parent = 0
    <3>1. CASE s = 0
      BY <2>2, <3>1 DEF Init, load_image, EmptySlot
    <3>2. CASE s # 0
      BY <3>2 DEF Init, EmptySlot
    <3> QED BY <3>1, <3>2
  <2>3. Loose(proc, next_pid)
    BY Zenon, <2>1, <2>2 DEF Loose, Table
  <2> QED BY Zenon, <2>1, <2>3 DEF LooseInv
<1>2. LooseInv /\ [EndNext]_vars => LooseInv'
  BY Zenon, StepCarried DEF Carried
<1> QED BY <1>1, <1>2, PTL DEF EndSpec

\* process_wake_waiter, on any number of CPUs: however a process ends, and
\* whoever runs it meanwhile, its exit does not pass its waiting parent by.
THEOREM ExitsAlwaysReported == EndSpec => []NoMissedExit
<1>1. LooseInv => NoMissedExit
  BY Zenon DEF LooseInv, NoneMissed, NoMissedExit
<1> QED BY <1>1, LooseInductive, PTL

\* On any number of CPUs no timer tick, system call or wake-up makes a process
\* ready again that was ended while a CPU was running it.
THEOREM DeadNeverReturn == EndSpec => DeadStaysDead
<1>1. LooseInv /\ [EndNext]_vars =>
         [\A s \in Slots : proc[s].state = "EXITED" /\ proc'[s].pid = proc[s].pid
                              => proc'[s].state = "EXITED"]_vars
  BY Zenon, StepCarried DEF Carried, DeadStep
<1> QED BY <1>1, LooseInductive, PTL DEF EndSpec, DeadStaysDead
=============================================================================
