------------------------- MODULE ProcessTableProof -------------------------
(***************************************************************************)
(* Lemmas about the process table: what process_reap, process_wake_waiter, *)
(* process_kill_sibling_threads, process_kill, process_find_free_slot and  *)
(* the others that build a new table return and preserve, for any number   *)
(* of slots, pids and sleeps.  ProcessProof builds on them.                *)
(***************************************************************************)
EXTENDS Process, WellFoundedInduction, TLAPS

\* What every table that process.c builds on the way has, n pids given out.
Table(P, n) ==
    /\ P \in [Slots -> Slot]
    /\ \A s \in Slots :
          /\ P[s].loaded <=> P[s].state # "EMPTY"
          /\ IF P[s].loaded THEN P[s].pid \in 1 .. n ELSE P[s].pid = 0
          /\ P[s].state = "SLEEPING" => P[s].left > 0
          /\ P[s].loaded /\ ~P[s].thread => P[s].space = s
    /\ \A s, t \in Slots : P[s].loaded /\ P[t].loaded /\ P[s].pid = P[t].pid => s = t

\* NoMissedExit, but for the children in X.
NoneMissed(P, X) ==
    \A p \in Slots : P[p].loaded /\ P[p].state = "WAITING" =>
        exited_children(P, P[p].pid, P[p].wait) \subseteq X

\* ThreadsDieWithOwner, but for the threads in X: the owner is the process in
\* the slot that the page tables belong to.
Owned(P, t) ==
    /\ P[t].space \in Slots
    /\ P[P[t].space].loaded /\ ~P[P[t].space].thread
    /\ P[P[t].space].state # "EXITED" /\ P[P[t].space].image = P[t].image

Owners(P, X) ==
    \A t \in Slots \ X : P[t].loaded /\ P[t].thread /\ P[t].state # "EXITED" => Owned(P, t)

Good(P, n) == Table(P, n) /\ NoneMissed(P, {}) /\ Owners(P, {})

\* What ending the processes in X may do to the table: they and zombies are
\* reaped or left EXITED, processes in waitpid are woken, and nobody else is
\* touched.
Frame(P, Q, X) ==
    \A t \in Slots :
        /\ Q[t].cpu = P[t].cpu
        /\ t \notin X /\ P[t].state \notin {"EXITED", "WAITING"} => Q[t] = P[t]
        /\ Q[t].loaded => /\ P[t].loaded /\ Q[t].pid = P[t].pid /\ Q[t].thread = P[t].thread
                          /\ Q[t].space = P[t].space /\ Q[t].image = P[t].image
        /\ P[t].state = "EXITED" /\ Q[t].loaded => Q[t].state = "EXITED"
        /\ t \notin X /\ P[t].loaded /\ P[t].state # "EXITED" =>
              Q[t].loaded /\ Q[t].state \in {P[t].state, "READY"}

\* Nothing is loaded, and the dead stay dead.
Later(P, Q) ==
    \A t \in Slots :
        /\ Q[t].loaded => P[t].loaded /\ Q[t].pid = P[t].pid /\ Q[t].thread = P[t].thread
        /\ P[t].state = "EXITED" /\ Q[t].loaded => Q[t].state = "EXITED"

NoThreads(P) == \A t \in Slots : P[t].loaded => ~P[t].thread

-----------------------------------------------------------------------------
\* Every set of numbers has a least one, which is what Lowest and the scan of
\* process_pick_next_ready return.
Less == {p \in Nat \X Nat : p[1] < p[2]}

LEMMA Least ==
    ASSUME NEW S \in SUBSET Nat, S # {}
    PROVE  \E x \in S : \A y \in S : x <= y
<1>1. OpToRel(<, Nat) = Less
  BY Zenon DEF OpToRel, Less
<1>2. IsWellFoundedOn(Less, Nat)
  BY <1>1, NatLessThanWellFounded, Zenon
<1>3. PICK x \in S : \A y \in S : ~(<<y, x>> \in Less)
  BY <1>2, WFMin, Zenon
<1>4. \A y \in S : ~(y < x)
  BY <1>3, Zenon DEF Less
<1> QED
  BY <1>4

LEMMA SlotsNat == Slots \subseteq Nat /\ NoSlot \notin Slots /\ NSlots \in Nat
  BY ProcessAssumption DEF Slots, NoSlot

LEMMA LowestIs ==
    ASSUME NEW S \in SUBSET Slots, S # {}
    PROVE  Lowest(S) \in S /\ \A t \in S : Lowest(S) <= t
<1>1. \E x \in S : \A y \in S : x <= y
  BY Least, SlotsNat
<1> QED
  BY <1>1 DEF Lowest

\* process_find_by_pid
LEMMA FindIs ==
    ASSUME NEW P, NEW pid
    PROVE  \/ /\ find_by_pid(P, pid) = NoSlot
              /\ pid = 0 \/ \A s \in Slots : ~(P[s].loaded /\ P[s].pid = pid)
           \/ /\ find_by_pid(P, pid) \in Slots /\ pid # 0
              /\ P[find_by_pid(P, pid)].loaded /\ P[find_by_pid(P, pid)].pid = pid
<1> DEFINE S == {s \in Slots : P[s].loaded /\ P[s].pid = pid}
<1>1. CASE pid = 0 \/ S = {}
  BY <1>1 DEF find_by_pid
<1>2. CASE ~(pid = 0 \/ S = {})
  <2>1. find_by_pid(P, pid) = Lowest(S)
    BY <1>2 DEF find_by_pid
  <2>2. Lowest(S) \in S
    BY <1>2, LowestIs
  <2> QED
    BY <1>2, <2>1, <2>2
<1> QED
  BY <1>1, <1>2

-----------------------------------------------------------------------------
\* Process p has been woken with the status of its child s, and s reaped.
Collected(P, p, s) == reap([P EXCEPT ![p].wait = 0, ![p].state = "READY"], s)

\* The two outcomes of process_wake_waiter.
LEMMA WakeIs ==
    ASSUME NEW n \in Nat, NEW P, Table(P, n), NEW s \in Slots, P[s].loaded, P[s].state = "EXITED"
    PROVE  \/ /\ wake_waiter(P, s) = P
              /\ \A p \in Slots : ~(/\ P[p].loaded /\ P[p].pid = P[s].parent
                                    /\ P[p].state = "WAITING" /\ P[p].wait \in {0, P[s].pid})
           \/ \E p \in Slots \ {s} :
                /\ P[p].loaded /\ P[p].state = "WAITING"
                /\ wake_waiter(P, s) = Collected(P, p, s)
<1> DEFINE p == find_by_pid(P, P[s].parent)
           C == /\ P[s].parent # 0 /\ p # NoSlot /\ P[p].state = "WAITING"
                /\ P[p].wait \in {0, P[s].pid}
<1>1. CASE C
  <2>1. p \in Slots /\ P[p].loaded
    BY <1>1, FindIs
  <2>2. p # s
    BY <1>1
  <2>3. wake_waiter(P, s) = reap([P EXCEPT ![p].wait = 0, ![p].state = "READY"], s)
    BY <1>1 DEF wake_waiter
  <2>4. wake_waiter(P, s) = Collected(P, p, s)
    BY <2>3, Zenon DEF Collected
  <2> HIDE DEF p
  <2> QED
    BY <1>1, <2>1, <2>2, <2>4
<1>2. CASE ~C
  <2>1. wake_waiter(P, s) = P
    BY <1>2 DEF wake_waiter
  <2> SUFFICES ASSUME NEW q \in Slots, P[q].loaded, P[q].pid = P[s].parent,
                      P[q].state = "WAITING", P[q].wait \in {0, P[s].pid}
               PROVE  FALSE
    BY <2>1
  <2>2. P[s].parent # 0
    BY DEF Table
  <2>3. p \in Slots /\ P[p].loaded /\ P[p].pid = P[s].parent
    BY <2>2, FindIs
  <2>4. p = q
    BY <2>3 DEF Table
  <2> QED
    BY <1>2, <2>2, <2>3, <2>4, SlotsNat
<1> QED
  BY <1>1, <1>2

\* A reaped slot keeps nothing but running_on_cpu and kresume_rsp.
Reaped(x) == [EmptySlot EXCEPT !.cpu = x.cpu, !.parked = x.parked]

LEMMA ReapedIs ==
    ASSUME NEW x \in Slot
    PROVE  /\ Reaped(x) \in Slot /\ Reaped(x).state = "EMPTY" /\ ~Reaped(x).loaded
           /\ Reaped(x).pid = 0 /\ Reaped(x).cpu = x.cpu /\ ~Reaped(x).thread
<1>1. 0 \in 0 .. MaxPid /\ 0 \in 0 .. MaxSleep /\ "EMPTY" \in States
  BY ProcessAssumption DEF States
<1>2. x.cpu \in CPUs \cup {NoCpu} /\ x.parked \in BOOLEAN
  BY DEF Slot
<1>3. Reaped(x) \in Slot
  BY <1>1, <1>2, Zenon DEF Reaped, EmptySlot, Slot
<1>4. /\ Reaped(x).state = "EMPTY" /\ ~Reaped(x).loaded
      /\ Reaped(x).pid = 0 /\ Reaped(x).cpu = x.cpu /\ ~Reaped(x).thread
  BY DEF Reaped, EmptySlot
<1> QED
  BY <1>3, <1>4

LEMMA ReapIs ==
    ASSUME NEW P \in [Slots -> Slot], NEW s \in Slots
    PROVE  /\ reap(P, s) \in [Slots -> Slot] /\ reap(P, s)[s] = Reaped(P[s])
           /\ \A t \in Slots \ {s} : reap(P, s)[t] = P[t]
<1>1. reap(P, s) = [P EXCEPT ![s] = Reaped(P[s])]
  BY DEF reap, Reaped
<1>2. Reaped(P[s]) \in Slot
  BY ReapedIs
<1> QED
  BY <1>1, <1>2

\* A process that waitpid has woken.
Woken(x) == [x EXCEPT !.wait = 0, !.state = "READY"]

LEMMA WokenIs ==
    ASSUME NEW x \in Slot
    PROVE  /\ Woken(x) \in Slot /\ Woken(x).state = "READY" /\ Woken(x).loaded = x.loaded
           /\ Woken(x).pid = x.pid /\ Woken(x).parent = x.parent /\ Woken(x).cpu = x.cpu
           /\ Woken(x).thread = x.thread /\ Woken(x).space = x.space
           /\ Woken(x).image = x.image
<1>1. 0 \in 0 .. MaxPid /\ "READY" \in States
  BY ProcessAssumption DEF States
<1> QED
  BY <1>1, Zenon DEF Slot, Woken

\* The table after process p was woken and its child s reaped, slot by slot.
LEMMA WokenTable ==
    ASSUME NEW P \in [Slots -> Slot], NEW s \in Slots, NEW p \in Slots \ {s}
    PROVE  /\ Collected(P, p, s) \in [Slots -> Slot]
           /\ Collected(P, p, s)[s] = Reaped(P[s])
           /\ Collected(P, p, s)[p] = Woken(P[p])
           /\ \A t \in Slots \ {s, p} : Collected(P, p, s)[t] = P[t]
<1> DEFINE R == [P EXCEPT ![p].wait = 0, ![p].state = "READY"]
<1>1. R = [P EXCEPT ![p] = Woken(P[p])]
  BY Zenon DEF Woken
<1>2. Woken(P[p]) \in Slot
  BY WokenIs
<1>3. /\ R \in [Slots -> Slot] /\ R[p] = Woken(P[p])
      /\ \A t \in Slots \ {p} : R[t] = P[t]
  BY <1>1, <1>2
<1>4. Collected(P, p, s) = reap(R, s)
  BY DEF Collected
<1> HIDE DEF R
<1> QED
  BY <1>3, <1>4, ReapIs

\* process_wake_waiter for a process that has just ended: afterwards nobody
\* waits for it.
WakeOutcome(P, Q, s, n, X, Y) ==
    /\ Table(Q, n) /\ NoneMissed(Q, X) /\ Owners(Q, Y) /\ Frame(P, Q, {})
    /\ Q[s].state \in {"EXITED", "EMPTY"}
    /\ \A t \in Slots \ {s} : Q[t].loaded = P[t].loaded

LEMMA WakeGood ==
    ASSUME NEW n \in Nat, NEW P, Table(P, n), NEW s \in Slots, P[s].loaded, P[s].state = "EXITED",
           NEW X, NoneMissed(P, X \cup {s}), NEW Y, Owners(P, Y)
    PROVE  WakeOutcome(P, wake_waiter(P, s), s, n, X, Y)
<1>1. P \in [Slots -> Slot]
  BY DEF Table
<1>2. ASSUME wake_waiter(P, s) = P,
             \A p \in Slots : ~(/\ P[p].loaded /\ P[p].pid = P[s].parent
                                /\ P[p].state = "WAITING" /\ P[p].wait \in {0, P[s].pid})
      PROVE  WakeOutcome(P, wake_waiter(P, s), s, n, X, Y)
  <2>1. NoneMissed(P, X)
    BY <1>2 DEF NoneMissed, exited_children
  <2>2. Frame(P, P, {})
    BY DEF Frame
  <2> QED
    BY <1>2, <2>1, <2>2 DEF WakeOutcome
<1>3. ASSUME NEW p \in Slots \ {s}, P[p].loaded, P[p].state = "WAITING", NEW Q,
             Q = Collected(P, p, s)
      PROVE  WakeOutcome(P, Q, s, n, X, Y)
  <2>1. /\ Q \in [Slots -> Slot] /\ Q[s] = Reaped(P[s]) /\ Q[p] = Woken(P[p])
        /\ \A t \in Slots \ {s, p} : Q[t] = P[t]
    BY <1>1, <1>3, WokenTable
  <2>2. /\ Q[s].state = "EMPTY" /\ ~Q[s].loaded /\ Q[s].pid = 0 /\ Q[s].cpu = P[s].cpu
    BY <1>1, <2>1, ReapedIs
  <2>3. /\ Q[p].state = "READY" /\ Q[p].loaded = P[p].loaded /\ Q[p].pid = P[p].pid
        /\ Q[p].parent = P[p].parent /\ Q[p].cpu = P[p].cpu /\ Q[p].thread = P[p].thread
        /\ Q[p].space = P[p].space /\ Q[p].image = P[p].image
    <3>1. P[p] \in Slot
      BY <1>1
    <3> QED
      BY ZenonT(60), <2>1, <3>1, WokenIs
  <2>4. Table(Q, n)
    <3>1. \A t \in Slots : /\ Q[t].loaded <=> Q[t].state # "EMPTY"
                           /\ IF Q[t].loaded THEN Q[t].pid \in 1 .. n ELSE Q[t].pid = 0
                           /\ Q[t].state = "SLEEPING" => Q[t].left > 0
                           /\ Q[t].loaded /\ ~Q[t].thread => Q[t].space = t
      <4> TAKE t \in Slots
      <4>1. CASE t = s
        BY <2>2, <4>1
      <4>2. CASE t = p
        BY <1>3, <2>3, <4>2, Zenon DEF Table
      <4>3. CASE t \notin {s, p}
        BY <2>1, <4>3 DEF Table
      <4> QED
        BY <4>1, <4>2, <4>3
    <3>2. \A t \in Slots : Q[t].loaded => P[t].loaded /\ Q[t].pid = P[t].pid
      BY <1>3, <2>1, <2>2, <2>3
    <3> QED
      BY <2>1, <3>1, <3>2 DEF Table
  <2>5. NoneMissed(Q, X)
    <3>1. \A q \in Slots : Q[q].loaded /\ Q[q].state = "WAITING" => Q[q] = P[q]
      BY <2>1, <2>2, <2>3
    <3>2. \A q \in Slots : Q[q].loaded /\ Q[q].state = "EXITED" => Q[q] = P[q] /\ q # s
      BY <2>1, <2>2, <2>3
    <3> QED
      BY <3>1, <3>2 DEF NoneMissed, exited_children
  <2>6. Owners(Q, Y)
    <3>1. \A t \in Slots : Q[t].loaded /\ Q[t].state # "EXITED" =>
              /\ P[t].loaded /\ P[t].state # "EXITED" /\ Q[t].thread = P[t].thread
              /\ Q[t].space = P[t].space /\ Q[t].image = P[t].image
      BY <1>3, <2>1, <2>2, <2>3
    <3>2. \A t \in Slots : P[t].loaded /\ P[t].state # "EXITED" =>
              /\ Q[t].loaded /\ Q[t].state # "EXITED" /\ Q[t].thread = P[t].thread
              /\ Q[t].image = P[t].image
      BY <1>3, <2>1, <2>2, <2>3, Zenon
    <3> QED
      BY <3>1, <3>2 DEF Owners, Owned
  <2>7. Frame(P, Q, {})
    BY <1>3, <2>1, <2>2, <2>3, Zenon DEF Frame
  <2>8. \A t \in Slots \ {s} : Q[t].loaded = P[t].loaded
    BY <1>3, <2>1, <2>3, Zenon
  <2> QED
    BY <2>2, <2>4, <2>5, <2>6, <2>7, <2>8 DEF WakeOutcome
<1> QED
  BY <1>2, <1>3, WakeIs

-----------------------------------------------------------------------------
LEMMA FrameTrans ==
    ASSUME NEW P, NEW Q, NEW R, NEW X, NEW Y, Frame(P, Q, X), Frame(Q, R, Y)
    PROVE  Frame(P, R, X \cup Y)
  BY DEF Frame

LEMMA FrameGrow ==
    ASSUME NEW P, NEW Q, NEW X, NEW Y, X \subseteq Y, Frame(P, Q, X)
    PROVE  Frame(P, Q, Y)
  BY DEF Frame

LEMMA FrameLater ==
    ASSUME NEW P, NEW Q, NEW X, Frame(P, Q, X)
    PROVE  Later(P, Q)
  BY DEF Frame, Later

LEMMA LaterTrans ==
    ASSUME NEW P, NEW Q, NEW R, Later(P, Q), Later(Q, R)
    PROVE  Later(P, R)
  BY DEF Later

\* Tables that differ only in the schedule of slot s.
SameBut(P, Q, s) ==
    /\ Q \in [Slots -> Slot]
    /\ \A t \in Slots \ {s} : Q[t] = P[t]
    /\ Q[s].loaded = P[s].loaded /\ Q[s].pid = P[s].pid /\ Q[s].parent = P[s].parent
    /\ Q[s].thread = P[s].thread /\ Q[s].space = P[s].space /\ Q[s].image = P[s].image

\* A process is marked EXITED, by itself or by another.
Exited(P, s) == [P EXCEPT ![s].state = "EXITED"]

LEMMA ExitedIs ==
    ASSUME NEW n \in Nat, NEW P, Table(P, n), NEW s \in Slots
    PROVE  /\ SameBut(P, Exited(P, s), s)
           /\ Exited(P, s)[s].state = "EXITED" /\ Exited(P, s)[s].cpu = P[s].cpu
<1>1. P \in [Slots -> Slot]
  BY DEF Table
<1>2. "EXITED" \in States
  BY DEF States
<1> QED
  BY <1>1, <1>2 DEF Exited, Slot, SameBut

LEMMA ExitedGood ==
    ASSUME NEW n \in Nat, NEW P, Table(P, n), NEW s \in Slots, P[s].loaded, P[s].state # "EXITED",
           NEW X, NoneMissed(P, X), NEW Y, Owners(P, Y), NEW Q, Q = Exited(P, s)
    PROVE  /\ Table(Q, n) /\ NoneMissed(Q, X \cup {s}) /\ Frame(P, Q, {s})
           /\ P[s].thread => Owners(Q, Y \ {s})
           /\ ~P[s].thread => Owners(Q, Y \cup siblings(Q, s))
<1>0. SameBut(P, Q, s) /\ Q[s].state = "EXITED" /\ Q[s].cpu = P[s].cpu
  BY ExitedIs
<1>1. /\ Q \in [Slots -> Slot]
      /\ \A t \in Slots \ {s} : Q[t] = P[t]
      /\ Q[s].state = "EXITED" /\ Q[s].cpu = P[s].cpu
      /\ Q[s].loaded = P[s].loaded /\ Q[s].pid = P[s].pid /\ Q[s].parent = P[s].parent
      /\ Q[s].thread = P[s].thread /\ Q[s].space = P[s].space /\ Q[s].image = P[s].image
  BY <1>0 DEF SameBut
<1>2. Table(Q, n)
  <2>1. \A t \in Slots : /\ Q[t].loaded <=> Q[t].state # "EMPTY"
                         /\ IF Q[t].loaded THEN Q[t].pid \in 1 .. n ELSE Q[t].pid = 0
                         /\ Q[t].state = "SLEEPING" => Q[t].left > 0
                         /\ Q[t].loaded /\ ~Q[t].thread => Q[t].space = t
    <3> TAKE t \in Slots
    <3>1. CASE t = s
      BY <1>1, <3>1, Zenon DEF Table
    <3>2. CASE t # s
      BY <1>1, <3>2 DEF Table
    <3> QED
      BY <3>1, <3>2
  <2>2. \A t \in Slots : Q[t].loaded => P[t].loaded /\ Q[t].pid = P[t].pid
    BY <1>1
  <2> QED
    BY <1>1, <2>1, <2>2 DEF Table
<1>3. NoneMissed(Q, X \cup {s})
  <2>1. \A t \in Slots : t # s \/ Q[t].state = "EXITED"
    BY <1>1
  <2> QED
    BY <1>1, <2>1 DEF NoneMissed, exited_children
<1>4. Frame(P, Q, {s})
  BY <1>1 DEF Frame
<1>5. ASSUME P[s].thread PROVE Owners(Q, Y \ {s})
  BY <1>1, <1>5 DEF Owners, Owned
<1>6. ASSUME ~P[s].thread PROVE Owners(Q, Y \cup siblings(Q, s))
  <2> SUFFICES ASSUME NEW t \in Slots \ (Y \cup siblings(Q, s)), Q[t].loaded, Q[t].thread,
                      Q[t].state # "EXITED"
               PROVE  Owned(Q, t)
    BY DEF Owners
  <2>1. t # s /\ Owned(P, t)
    BY <1>1 DEF Owners
  <2>2. P[t].space # s
    <3> SUFFICES ASSUME P[t].space = s PROVE t \in siblings(Q, s)
      OBVIOUS
    <3>1. Q[s].space = s /\ s # NoSlot
      BY <1>1, <1>6, SlotsNat DEF Table
    <3>2. Q[t].state # "EMPTY"
      BY <1>2 DEF Table
    <3> QED
      BY <1>1, <1>6, <2>1, <3>1, <3>2 DEF siblings
  <2> QED
    BY <1>1, <2>1, <2>2 DEF Owned
<1> QED
  BY <1>2, <1>3, <1>4, <1>5, <1>6

-----------------------------------------------------------------------------
\* The loop of process_kill_sibling_threads as a sequence of tables: f[k] is
\* the table before slot k's turn.
EndsLoop(f, P, s, m) ==
    f = [k \in 0 .. m |-> IF k = 0 THEN P ELSE end_sibling(P, s, f[k - 1], k - 1)]

LEMMA EndsLoopExists ==
    ASSUME NEW P, NEW s
    PROVE  \E f : EndsLoop(f, P, s, NSlots)
<1> DEFINE Bad == {m \in Nat : ~\E f : EndsLoop(f, P, s, m)}
<1> SUFFICES Bad = {}
  BY SlotsNat
<1> SUFFICES ASSUME Bad # {} PROVE FALSE
  OBVIOUS
<1>1. PICK m \in Bad : \A y \in Bad : m <= y
  <2>1. Bad \in SUBSET Nat
    OBVIOUS
  <2> HIDE DEF Bad
  <2> QED
    BY <2>1, Least
<1>2. CASE m = 0
  <2> DEFINE f == [k \in 0 .. 0 |-> P]
  <2>1. EndsLoop(f, P, s, 0)
    BY DEF EndsLoop
  <2> QED
    BY <1>2, <2>1
<1>3. CASE m # 0
  <2>1. m - 1 \in Nat /\ m - 1 \notin Bad /\ m \in Nat
    BY <1>1, <1>3
  <2>2. PICK f : EndsLoop(f, P, s, m - 1)
    BY <2>1
  <2> DEFINE g == [k \in 0 .. m |-> IF k = m THEN end_sibling(P, s, f[m - 1], m - 1) ELSE f[k]]
             h == [k \in 0 .. m |-> IF k = 0 THEN P ELSE end_sibling(P, s, g[k - 1], k - 1)]
  <2>3. ASSUME NEW k \in 0 .. m PROVE g[k] = h[k]
    <3>1. CASE k = m
      <4>1. g[k] = end_sibling(P, s, f[m - 1], m - 1)
        BY <3>1
      <4>2. m - 1 \in 0 .. m /\ m - 1 # m /\ k # 0
        BY <2>1, <3>1, <1>3
      <4>3. g[k - 1] = f[m - 1]
        BY <3>1, <4>2
      <4> HIDE DEF g
      <4> QED
        BY <3>1, <4>1, <4>2, <4>3
    <3>2. CASE k = 0
      <4>1. 0 \in 0 .. m - 1 /\ m # 0
        BY <2>1, <1>3
      <4>2. f[0] = P
        BY <2>2, <4>1 DEF EndsLoop
      <4> QED
        BY <3>2, <4>1, <4>2
    <3>3. CASE k # m /\ k # 0
      <4>1. k \in 0 .. m - 1 /\ k - 1 \in 0 .. m /\ k - 1 # m
        BY <2>1, <3>3
      <4>2. f[k] = end_sibling(P, s, f[k - 1], k - 1)
        BY <2>2, <3>3, <4>1 DEF EndsLoop
      <4>3. g[k] = f[k] /\ g[k - 1] = f[k - 1]
        BY <3>3, <4>1
      <4> HIDE DEF g
      <4> QED
        BY <3>3, <4>2, <4>3
    <3> QED
      BY <3>1, <3>2, <3>3
  <2>4. g = h
    <3> DEFINE G(k) == IF k = m THEN end_sibling(P, s, f[m - 1], m - 1) ELSE f[k]
               H(k) == IF k = 0 THEN P ELSE end_sibling(P, s, g[k - 1], k - 1)
    <3>1. \A k \in 0 .. m : G(k) = H(k)
      BY <2>3
    <3>2. g = [k \in 0 .. m |-> G(k)] /\ h = [k \in 0 .. m |-> H(k)]
      OBVIOUS
    <3> HIDE DEF G, H, g, h
    <3> QED
      BY <3>1, <3>2
  <2>5. EndsLoop(g, P, s, m)
    <3> HIDE DEF g
    <3> QED
      BY <2>4, Zenon DEF EndsLoop
  <2> QED
    BY <1>1, <2>5
<1> QED
  BY <1>2, <1>3

LEMMA EndsLoopIs ==
    ASSUME NEW P, NEW s
    PROVE  \E f : /\ EndsLoop(f, P, s, NSlots)
                  /\ kill_sibling_threads(P, s) = IF siblings(P, s) = {} THEN P ELSE f[NSlots]
<1> DEFINE upto == CHOOSE f : EndsLoop(f, P, s, NSlots)
<1>1. EndsLoop(upto, P, s, NSlots)
  BY EndsLoopExists
<1>2. kill_sibling_threads(P, s) = IF siblings(P, s) = {} THEN P ELSE upto[NSlots]
  BY Zenon DEF kill_sibling_threads, EndsLoop
<1> HIDE DEF upto
<1> QED
  BY <1>1, <1>2

\* The loop's invariant, before slot k's turn: the siblings from k on are still
\* to be ended, and owner s waits for its own report.
EndsInv(P, s, Q, n, k) ==
    LET rest == {t \in siblings(P, s) : t >= k}
    IN  /\ Table(Q, n) /\ NoneMissed(Q, {s}) /\ Owners(Q, rest)
        /\ Frame(P, Q, siblings(P, s))
        /\ Q[s].loaded /\ Q[s].state = "EXITED"
        /\ \A t \in rest : Q[t].loaded /\ Q[t].thread /\ Q[t].state # "EXITED"

LEMMA EndsStep ==
    ASSUME NEW n \in Nat, NEW P, NEW s \in Slots, NEW Q, NEW k \in Slots, EndsInv(P, s, Q, n, k)
    PROVE  EndsInv(P, s, end_sibling(P, s, Q, k), n, k + 1)
<1> DEFINE S == siblings(P, s)
           rest == {t \in S : t >= k}
           then == {t \in S : t >= k + 1}
<1>0. S \subseteq Slots \ {s} /\ Slots \subseteq Nat
  BY SlotsNat DEF siblings
<1>r. then = rest \ {k}
  <2> HIDE DEF S
  <2>1. k \in Nat /\ \A t \in S : t \in Nat
    BY <1>0
  <2>2. \A t \in S : t >= k + 1 <=> t >= k /\ t # k
    BY <2>1
  <2> QED
    BY <2>2
<1>1. /\ Table(Q, n) /\ NoneMissed(Q, {s}) /\ Owners(Q, rest) /\ Frame(P, Q, S)
      /\ Q[s].loaded /\ Q[s].state = "EXITED"
      /\ \A t \in rest : Q[t].loaded /\ Q[t].thread /\ Q[t].state # "EXITED"
  BY SMTT(60) DEF EndsInv
<1>2. CASE k \notin S
  <2>1. end_sibling(P, s, Q, k) = Q
    BY <1>2 DEF end_sibling
  <2>2. then = rest
    BY SMTT(60), <1>r, <1>2
  <2> QED
    BY <1>1, <2>1, <2>2 DEF EndsInv
<1>3. CASE k \in S
  <2> DEFINE Q1 == Exited(Q, k)
             R == wake_waiter(Q1, k)
  <2>0. end_sibling(P, s, Q, k) = R
    BY <1>3 DEF end_sibling, Exited
  <2>1. k # s /\ k \in rest /\ then = rest \ {k}
    <3>1. k \in Nat /\ k >= k
      BY <1>0
    <3> HIDE DEF then, S
    <3> QED
      BY <1>r, <1>0, <1>3, <3>1
  <2>2. Q[k].loaded /\ Q[k].thread /\ Q[k].state # "EXITED"
    BY <1>1, <2>1
  <2> HIDE DEF S, rest, then
  <2>3. /\ Table(Q1, n) /\ NoneMissed(Q1, {s} \cup {k}) /\ Frame(Q, Q1, {k}) /\ Owners(Q1, then)
    BY <1>1, <2>1, <2>2, ExitedGood, Zenon
  <2>4. /\ SameBut(Q, Q1, k) /\ Q1[k].state = "EXITED"
    BY <1>1, ExitedIs
  <2>5. Q1[k].loaded
    BY SMTT(60), <2>2, <2>4 DEF SameBut
  <2>6. WakeOutcome(Q1, R, k, n, {s}, then)
    <3> HIDE DEF Q1
    <3> QED
      BY <2>3, <2>4, <2>5, WakeGood
  <2> HIDE DEF Q1, R
  <2>7. Frame(P, R, S)
    <3>1. Frame(Q, R, {k} \cup {})
      BY <2>3, <2>6, FrameTrans DEF WakeOutcome
    <3>2. Frame(P, R, S \cup ({k} \cup {}))
      BY <1>1, <3>1, FrameTrans
    <3>3. S \cup ({k} \cup {}) = S
      BY SMTT(60), <1>3
    <3> QED
      BY <3>2, <3>3
  <2>8. R[s].loaded /\ R[s].state = "EXITED"
    <3>1. Q1[s] = Q[s]
      BY SMTT(60), <2>1, <2>4 DEF SameBut
    <3>2. R[s].loaded = Q1[s].loaded
      BY SMTT(60), <2>1, <2>6 DEF WakeOutcome
    <3> QED
      BY <1>1, <2>6, <3>1, <3>2 DEF WakeOutcome, Frame
  <2>9. ASSUME NEW t \in then PROVE R[t].loaded /\ R[t].thread /\ R[t].state # "EXITED"
    <3>1. t \in rest /\ t # k /\ t \in Slots
      BY <1>0, <2>1 DEF then, S
    <3>2. Q1[t] = Q[t]
      BY <2>4, <3>1 DEF SameBut
    <3>3. Q1[t].loaded /\ Q1[t].thread /\ Q1[t].state # "EXITED"
      BY <1>1, <3>1, <3>2
    <3> QED
      BY <2>6, <3>1, <3>3 DEF WakeOutcome, Frame
  <2> QED
    BY <2>0, <2>6, <2>7, <2>8, <2>9 DEF EndsInv, WakeOutcome, then, S
<1> QED
  BY <1>2, <1>3

LEMMA EndsGood ==
    ASSUME NEW n \in Nat, NEW P, NEW s \in Slots, EndsInv(P, s, P, n, 0)
    PROVE  EndsInv(P, s, kill_sibling_threads(P, s), n, NSlots)
<1>1. PICK f : /\ EndsLoop(f, P, s, NSlots)
               /\ kill_sibling_threads(P, s) = IF siblings(P, s) = {} THEN P ELSE f[NSlots]
  BY SMTT(60), EndsLoopIs
<1>2. CASE siblings(P, s) = {}
  BY <1>1, <1>2 DEF EndsInv
<1>3. \A k \in 0 .. NSlots : EndsInv(P, s, f[k], n, k)
  <2> DEFINE Bad == {k \in 0 .. NSlots : ~EndsInv(P, s, f[k], n, k)}
  <2> SUFFICES ASSUME Bad # {} PROVE FALSE
    OBVIOUS
  <2>1. PICK m \in Bad : \A y \in Bad : m <= y
    <3>1. Bad \in SUBSET Nat
      OBVIOUS
    <3> HIDE DEF Bad
    <3> QED
      BY <3>1, Least
  <2>2. f[0] = P
    BY <1>1, SlotsNat DEF EndsLoop
  <2>3. m # 0
    BY <2>2
  <2>4. m \in 0 .. NSlots /\ m - 1 \in 0 .. NSlots /\ m - 1 \in Slots /\ m - 1 \notin Bad
        /\ (m - 1) + 1 = m
    BY <2>1, <2>3, SlotsNat DEF Slots
  <2>5. f[m] = end_sibling(P, s, f[m - 1], m - 1)
    BY <1>1, <2>3, <2>4 DEF EndsLoop
  <2>6. EndsInv(P, s, f[m - 1], n, m - 1)
    BY <2>4
  <2>7. EndsInv(P, s, f[m], n, (m - 1) + 1)
    BY <2>4, <2>5, <2>6, EndsStep
  <2> QED
    BY <2>1, <2>4, <2>7
<1>4. CASE siblings(P, s) # {}
  BY SMTT(60), <1>1, <1>3, <1>4, SlotsNat
<1> QED
  BY <1>2, <1>4

\* The end of a process: its threads are ended with it and its parent learns of
\* it; nobody else is touched.
LEMMA DieGood ==
    ASSUME NEW n \in Nat, NEW P, Good(P, n), NEW s \in Slots, P[s].loaded, P[s].state # "EXITED"
    PROVE  Good(die(P, s), n) /\ Frame(P, die(P, s), {s} \cup siblings(P, s))
<1> DEFINE E == Exited(P, s)
           S == siblings(E, s)
           K == kill_sibling_threads(E, s)
           D == wake_waiter(K, s)
<1>0. die(P, s) = D
  BY DEF die, Exited
<1>1. Table(P, n) /\ NoneMissed(P, {}) /\ Owners(P, {})
  BY DEF Good
<1>2. SameBut(P, E, s) /\ E[s].state = "EXITED"
  BY <1>1, ExitedIs
<1>3. E[s].loaded /\ E[s].thread = P[s].thread
  BY <1>2 DEF SameBut
<1>4. S = siblings(P, s)
  <2>1. /\ \A t \in Slots \ {s} : E[t] = P[t]
        /\ E[s].thread = P[s].thread /\ E[s].space = P[s].space
    BY SMTT(60), <1>2 DEF SameBut
  <2> HIDE DEF E
  <2> QED
    BY <2>1, Zenon DEF siblings
<1>5. /\ Table(E, n) /\ NoneMissed(E, {s}) /\ Frame(P, E, {s}) /\ Owners(E, S)
  <2>1. /\ Table(E, n) /\ NoneMissed(E, {} \cup {s}) /\ Frame(P, E, {s})
        /\ P[s].thread => Owners(E, {} \ {s})
        /\ ~P[s].thread => Owners(E, {} \cup S)
    BY <1>1, ExitedGood, Zenon
  <2>2. P[s].thread => S = {}
    BY <1>3 DEF siblings
  <2> HIDE DEF E, S
  <2> QED
    BY <2>1, <2>2
<1>6. EndsInv(E, s, E, n, 0)
  <2> HIDE DEF E
  <2>1. {t \in S : t >= 0} = S
    <3>1. S \subseteq Nat
      BY SlotsNat, Zenon DEF siblings
    <3>2. \A t \in S : t >= 0
      BY <3>1
    <3> HIDE DEF S
    <3> QED
      BY <3>2
  <2>2. \A t \in S : E[t].loaded /\ E[t].thread /\ E[t].state # "EXITED"
    BY DEF siblings
  <2>3. Frame(E, E, S)
    BY DEF Frame
  <2> QED
    BY <1>2, <1>3, <1>5, <2>1, <2>2, <2>3, Zenon DEF EndsInv
<1> HIDE DEF E
<1>7. EndsInv(E, s, K, n, NSlots)
  BY <1>6, EndsGood
<1> HIDE DEF K
<1>8. /\ Table(K, n) /\ NoneMissed(K, {} \cup {s}) /\ Owners(K, {}) /\ Frame(E, K, S)
      /\ K[s].loaded /\ K[s].state = "EXITED"
  <2>1. {t \in S : t >= NSlots} = {}
    BY SMTT(60), SlotsNat DEF siblings, Slots
  <2> QED
    BY <1>7, <2>1 DEF EndsInv
<1>9. WakeOutcome(K, D, s, n, {}, {})
  BY <1>8, WakeGood
<1> HIDE DEF D, S
<1>10. Frame(P, D, {s} \cup S)
  <2>1. Frame(E, D, S \cup {})
    BY <1>8, <1>9, FrameTrans DEF WakeOutcome
  <2>2. Frame(P, D, {s} \cup (S \cup {}))
    BY <1>5, <2>1, FrameTrans
  <2> QED
    BY SMTT(60), <2>2
<1> QED
  BY <1>0, <1>4, <1>9, <1>10 DEF WakeOutcome, Good

\* process_kill
LEMMA KillGood ==
    ASSUME NEW n \in Nat, NEW P, Good(P, n), NEW pid
    PROVE  Good(kill(P, pid), n) /\ Frame(P, kill(P, pid), killed(P, pid))
<1> DEFINE t == find_by_pid(P, pid)
<1>1. CASE t = NoSlot \/ P[t].state \in {"EMPTY", "EXITED"}
  <2>1. kill(P, pid) = P
    BY <1>1 DEF kill
  <2>2. Frame(P, P, killed(P, pid))
    BY DEF Frame
  <2> QED
    BY <2>1, <2>2
<1>2. CASE ~(t = NoSlot \/ P[t].state \in {"EMPTY", "EXITED"})
  <2>1. kill(P, pid) = die(P, t) /\ killed(P, pid) = {t} \cup siblings(P, t)
    BY <1>2 DEF kill, killed
  <2>2. t \in Slots /\ P[t].loaded /\ P[t].state # "EXITED"
    BY <1>2, FindIs
  <2> HIDE DEF t
  <2> QED
    BY <2>1, <2>2, DieGood
<1> QED
  BY <1>1, <1>2

-----------------------------------------------------------------------------
\* The loop of process_interrupt_terminal, in the same way.
InterruptLoop(f, P, m) ==
    f = [k \in 0 .. m |-> IF k = 0 THEN P ELSE interrupt_one(f[k - 1], k - 1)]

LEMMA InterruptLoopExists ==
    ASSUME NEW P
    PROVE  \E f : InterruptLoop(f, P, NSlots)
<1> DEFINE Bad == {m \in Nat : ~\E f : InterruptLoop(f, P, m)}
<1> SUFFICES Bad = {}
  BY SlotsNat
<1> SUFFICES ASSUME Bad # {} PROVE FALSE
  OBVIOUS
<1>1. PICK m \in Bad : \A y \in Bad : m <= y
  <2>1. Bad \in SUBSET Nat
    OBVIOUS
  <2> HIDE DEF Bad
  <2> QED
    BY <2>1, Least
<1>2. CASE m = 0
  <2> DEFINE f == [k \in 0 .. 0 |-> P]
  <2>1. InterruptLoop(f, P, 0)
    BY DEF InterruptLoop
  <2> QED
    BY <1>2, <2>1
<1>3. CASE m # 0
  <2>1. m - 1 \in Nat /\ m - 1 \notin Bad /\ m \in Nat
    BY <1>1, <1>3
  <2>2. PICK f : InterruptLoop(f, P, m - 1)
    BY <2>1
  <2> DEFINE g == [k \in 0 .. m |-> IF k = m THEN interrupt_one(f[m - 1], m - 1) ELSE f[k]]
             h == [k \in 0 .. m |-> IF k = 0 THEN P ELSE interrupt_one(g[k - 1], k - 1)]
  <2>3. ASSUME NEW k \in 0 .. m PROVE g[k] = h[k]
    <3>1. CASE k = m
      <4>1. g[k] = interrupt_one(f[m - 1], m - 1)
        BY <3>1
      <4>2. m - 1 \in 0 .. m /\ m - 1 # m /\ k # 0
        BY <2>1, <3>1, <1>3
      <4>3. g[k - 1] = f[m - 1]
        BY <3>1, <4>2
      <4> HIDE DEF g
      <4> QED
        BY <3>1, <4>1, <4>2, <4>3
    <3>2. CASE k = 0
      <4>1. 0 \in 0 .. m - 1 /\ m # 0
        BY <2>1, <1>3
      <4>2. f[0] = P
        BY <2>2, <4>1 DEF InterruptLoop
      <4> QED
        BY <3>2, <4>1, <4>2
    <3>3. CASE k # m /\ k # 0
      <4>1. k \in 0 .. m - 1 /\ k - 1 \in 0 .. m /\ k - 1 # m
        BY <2>1, <3>3
      <4>2. f[k] = interrupt_one(f[k - 1], k - 1)
        BY <2>2, <3>3, <4>1 DEF InterruptLoop
      <4>3. g[k] = f[k] /\ g[k - 1] = f[k - 1]
        BY <3>3, <4>1
      <4> HIDE DEF g
      <4> QED
        BY <3>3, <4>2, <4>3
    <3> QED
      BY <3>1, <3>2, <3>3
  <2>4. g = h
    <3> DEFINE G(k) == IF k = m THEN interrupt_one(f[m - 1], m - 1) ELSE f[k]
               H(k) == IF k = 0 THEN P ELSE interrupt_one(g[k - 1], k - 1)
    <3>1. \A k \in 0 .. m : G(k) = H(k)
      BY <2>3
    <3>2. g = [k \in 0 .. m |-> G(k)] /\ h = [k \in 0 .. m |-> H(k)]
      OBVIOUS
    <3> HIDE DEF G, H, g, h
    <3> QED
      BY <3>1, <3>2
  <2>5. InterruptLoop(g, P, m)
    <3> HIDE DEF g
    <3> QED
      BY <2>4, Zenon DEF InterruptLoop
  <2> QED
    BY <1>1, <2>5
<1> QED
  BY <1>2, <1>3

LEMMA InterruptLoopIs ==
    ASSUME NEW P
    PROVE  \E f : InterruptLoop(f, P, NSlots) /\ interrupt(P) = f[NSlots]
<1> DEFINE upto == CHOOSE f : InterruptLoop(f, P, NSlots)
<1>1. InterruptLoop(upto, P, NSlots)
  BY InterruptLoopExists
<1>2. interrupt(P) = upto[NSlots]
  BY Zenon DEF interrupt, InterruptLoop
<1> HIDE DEF upto
<1> QED
  BY <1>1, <1>2

LEMMA InterruptGood ==
    ASSUME NEW n \in Nat, NEW P, Good(P, n)
    PROVE  Good(interrupt(P), n) /\ Frame(P, interrupt(P), Slots)
<1> DEFINE Inv(Q) == Good(Q, n) /\ Frame(P, Q, Slots)
<1>1. Inv(P)
  BY DEF Frame
<1>2. ASSUME NEW Q, Inv(Q), NEW k \in Slots PROVE Inv(interrupt_one(Q, k))
  <2> DEFINE R == kill(Q, Q[k].wait)
  <2>1. Good(R, n) /\ Frame(Q, R, killed(Q, Q[k].wait))
    BY <1>2, KillGood
  <2>2. interrupt_one(Q, k) \in {Q, R}
    BY SMTT(60) DEF interrupt_one
  <2> HIDE DEF R
  <2>3. Frame(Q, R, Slots)
    BY <2>1 DEF Frame
  <2>4. Frame(P, R, Slots \cup Slots)
    BY <1>2, <2>3, FrameTrans
  <2> QED
    BY <1>2, <2>1, <2>2, <2>4
<1>3. PICK f : InterruptLoop(f, P, NSlots) /\ interrupt(P) = f[NSlots]
  BY InterruptLoopIs
<1> HIDE DEF Inv
<1>4. \A k \in 0 .. NSlots : Inv(f[k])
  <2> DEFINE Bad == {k \in 0 .. NSlots : ~Inv(f[k])}
  <2> SUFFICES ASSUME Bad # {} PROVE FALSE
    OBVIOUS
  <2>1. PICK m \in Bad : \A y \in Bad : m <= y
    <3>1. Bad \in SUBSET Nat
      OBVIOUS
    <3> HIDE DEF Bad
    <3> QED
      BY <3>1, Least
  <2>2. f[0] = P
    BY <1>3, SlotsNat DEF InterruptLoop
  <2>3. m # 0
    BY <1>1, <2>2
  <2>4. m \in 0 .. NSlots /\ m - 1 \in 0 .. NSlots /\ m - 1 \in Slots /\ m - 1 \notin Bad
    BY <2>1, <2>3, SlotsNat DEF Slots
  <2>5. f[m] = interrupt_one(f[m - 1], m - 1)
    BY <1>3, <2>3, <2>4 DEF InterruptLoop
  <2>6. Inv(f[m - 1])
    BY SMTT(60), <2>4
  <2> QED
    BY <1>2, <2>1, <2>4, <2>5, <2>6
<1> QED
  BY <1>3, <1>4, SlotsNat DEF Inv

-----------------------------------------------------------------------------
\* A live process goes on to another live state: no parent misses a child.
LEMMA UpdateGood ==
    ASSUME NEW n \in Nat, NEW P, Good(P, n), NEW s \in Slots, P[s].loaded, P[s].state # "EXITED",
           NEW Q, SameBut(P, Q, s), Q[s].state \notin {"EMPTY", "EXITED"},
           Q[s].state = "SLEEPING" => Q[s].left > 0,
           Q[s].state = "WAITING" => exited_children(P, P[s].pid, Q[s].wait) = {}
    PROVE  Good(Q, n) /\ Later(P, Q)
<1>0. Table(P, n) /\ NoneMissed(P, {}) /\ Owners(P, {})
  BY DEF Good
<1>1. /\ Q \in [Slots -> Slot]
      /\ \A t \in Slots \ {s} : Q[t] = P[t]
      /\ Q[s].loaded = P[s].loaded /\ Q[s].pid = P[s].pid /\ Q[s].parent = P[s].parent
      /\ Q[s].thread = P[s].thread /\ Q[s].space = P[s].space /\ Q[s].image = P[s].image
  BY SMTT(60) DEF SameBut
<1>2. Table(Q, n)
  <2>1. \A t \in Slots : /\ Q[t].loaded <=> Q[t].state # "EMPTY"
                         /\ IF Q[t].loaded THEN Q[t].pid \in 1 .. n ELSE Q[t].pid = 0
                         /\ Q[t].state = "SLEEPING" => Q[t].left > 0
                         /\ Q[t].loaded /\ ~Q[t].thread => Q[t].space = t
    <3> TAKE t \in Slots
    <3>1. CASE t = s
      BY <1>0, <1>1, <3>1, Zenon DEF Table
    <3>2. CASE t # s
      BY SMTT(60), <1>0, <1>1, <3>2 DEF Table
    <3> QED
      BY <3>1, <3>2
  <2>2. \A t \in Slots : Q[t].loaded => P[t].loaded /\ Q[t].pid = P[t].pid
    BY SMTT(60), <1>1
  <2> QED
    BY SMTT(60), <1>0, <1>1, <2>1, <2>2 DEF Table
<1>3. NoneMissed(Q, {})
  <2>1. \A t \in Slots : Q[t].state = "EXITED" => Q[t] = P[t]
    BY SMTT(60), <1>1
  <2>2. \A pid, target : exited_children(Q, pid, target) \subseteq exited_children(P, pid, target)
    BY SMTT(60), <2>1 DEF exited_children
  <2>3. ASSUME NEW p \in Slots, Q[p].loaded, Q[p].state = "WAITING"
        PROVE  exited_children(P, Q[p].pid, Q[p].wait) = {}
    <3>1. CASE p = s
      BY SMTT(60), <1>1, <2>3, <3>1
    <3>2. CASE p # s
      BY SMTT(60), <1>0, <1>1, <2>3, <3>2 DEF NoneMissed
    <3> QED
      BY SMTT(60), <3>1, <3>2
  <2> QED
    BY SMTT(60), <2>2, <2>3 DEF NoneMissed
<1>4. Owners(Q, {})
  <2>1. \A t \in Slots : /\ Q[t].loaded = P[t].loaded /\ Q[t].thread = P[t].thread
                         /\ Q[t].space = P[t].space /\ Q[t].image = P[t].image
                         /\ Q[t].state = "EXITED" <=> P[t].state = "EXITED"
    BY <1>1, Zenon
  <2> QED
    BY <1>0, <2>1 DEF Owners, Owned
<1>5. Later(P, Q)
  BY <1>1 DEF Later
<1> QED
  BY SMTT(60), <1>2, <1>3, <1>4, <1>5 DEF Good

\* The slot is released.
Released(P, s) == [P EXCEPT ![s].cpu = NoCpu]

LEMMA ReleasedIs ==
    ASSUME NEW P \in [Slots -> Slot], NEW s \in Slots
    PROVE  /\ SameBut(P, Released(P, s), s) /\ Released(P, s)[s].cpu = NoCpu
           /\ Released(P, s)[s].state = P[s].state /\ Released(P, s)[s].wait = P[s].wait
           /\ Released(P, s)[s].left = P[s].left
  BY SMTT(60) DEF Released, Slot, SameBut

\* What process_run_ready_slice leaves behind.
EndOutcome(P, Q, s, n) ==
    /\ Good(Q, n) /\ Later(P, Q) /\ Q[s].cpu = NoCpu
    /\ \A t \in Slots \ {s} :
          /\ Q[t].cpu = P[t].cpu
          /\ P[t].state \notin {"EXITED", "WAITING"} => Q[t] = P[t]

LEMMA EndSliceGood ==
    ASSUME NEW n \in Nat, NEW P, Good(P, n), NEW s \in Slots
    PROVE  EndOutcome(P, end_slice(P, s), s, n)
<1> DEFINE R == Released(P, s)
<1>0. Table(P, n) /\ NoneMissed(P, {}) /\ Owners(P, {}) /\ P \in [Slots -> Slot]
  BY SMTT(60) DEF Good, Table
<1>1. /\ R \in [Slots -> Slot]
      /\ \A t \in Slots \ {s} : R[t] = P[t]
      /\ R[s].loaded = P[s].loaded /\ R[s].pid = P[s].pid /\ R[s].parent = P[s].parent
      /\ R[s].thread = P[s].thread /\ R[s].space = P[s].space /\ R[s].image = P[s].image
      /\ R[s].cpu = NoCpu /\ R[s].state = P[s].state /\ R[s].wait = P[s].wait
      /\ R[s].left = P[s].left
  BY <1>0, ReleasedIs DEF SameBut
<1>2. end_slice(P, s) = IF R[s].state = "EXITED" THEN wake_waiter(R, s) ELSE R
  BY SMTT(60) DEF end_slice, Released
<1> HIDE DEF R
<1>3. Table(R, n)
  <2>1. \A t \in Slots : /\ R[t].loaded <=> R[t].state # "EMPTY"
                         /\ IF R[t].loaded THEN R[t].pid \in 1 .. n ELSE R[t].pid = 0
                         /\ R[t].state = "SLEEPING" => R[t].left > 0
                         /\ R[t].loaded /\ ~R[t].thread => R[t].space = t
    <3> TAKE t \in Slots
    <3>1. CASE t = s
      BY SMTT(60), <1>0, <1>1, <3>1 DEF Table
    <3>2. CASE t # s
      BY <1>0, <1>1, <3>2 DEF Table
    <3> QED
      BY <3>1, <3>2
  <2>2. \A t \in Slots : R[t].loaded => P[t].loaded /\ R[t].pid = P[t].pid
    BY SMTT(60), <1>1
  <2> QED
    BY SMTT(60), <1>0, <1>1, <2>1, <2>2 DEF Table
<1>4. NoneMissed(R, {s})
  <2>1. \A t \in Slots : /\ R[t].loaded = P[t].loaded /\ R[t].state = P[t].state
                         /\ R[t].pid = P[t].pid /\ R[t].wait = P[t].wait
                         /\ R[t].parent = P[t].parent
                         /\ t # s => R[t].cpu = P[t].cpu
    BY SMTT(60), <1>1
  <2> QED
    BY <1>0, <2>1 DEF NoneMissed, exited_children
<1>5. Owners(R, {})
  <2>1. \A t \in Slots : /\ R[t].loaded = P[t].loaded /\ R[t].thread = P[t].thread
                         /\ R[t].space = P[t].space /\ R[t].image = P[t].image
                         /\ R[t].state = P[t].state
    BY SMTT(60), <1>1
  <2> QED
    BY <1>0, <2>1 DEF Owners, Owned
<1>6. Later(P, R)
  BY SMTT(60), <1>1 DEF Later
<1>7. CASE R[s].state # "EXITED"
  <2>1. NoneMissed(R, {})
    BY SMTT(60), <1>4, <1>7 DEF NoneMissed, exited_children
  <2> QED
    BY SMTT(60), <1>1, <1>2, <1>3, <1>5, <1>6, <1>7, <2>1 DEF EndOutcome, Good
<1>8. CASE R[s].state = "EXITED"
  <2> DEFINE W == wake_waiter(R, s)
  <2>0. end_slice(P, s) = W
    BY <1>2, <1>8
  <2>1. R[s].loaded
    BY SMTT(60), <1>3, <1>8 DEF Table
  <2>2. WakeOutcome(R, W, s, n, {}, {})
    BY SMTT(60), <1>3, <1>4, <1>5, <1>8, <2>1, WakeGood
  <2> HIDE DEF W
  <2>3. Frame(R, W, {}) /\ Good(W, n)
    BY <2>2 DEF WakeOutcome, Good
  <2>4. Later(P, W)
    BY SMTT(60), <1>6, <2>3, FrameLater, LaterTrans
  <2>5. W[s].cpu = NoCpu
    BY SMTT(60), <1>1, <2>3 DEF Frame
  <2>6. ASSUME NEW t \in Slots \ {s}
        PROVE  /\ W[t].cpu = P[t].cpu
               /\ P[t].state \notin {"EXITED", "WAITING"} => W[t] = P[t]
    BY SMTT(60), <1>1, <2>3 DEF Frame
  <2> QED
    BY <2>0, <2>3, <2>4, <2>5, <2>6 DEF EndOutcome
<1> QED
  BY SMTT(60), <1>7, <1>8

-----------------------------------------------------------------------------
\* process_wake_ready: only sleepers change.
LEMMA WakeReadyIs ==
    ASSUME NEW P \in [Slots -> Slot], \A t \in Slots : P[t].state = "SLEEPING" => P[t].left > 0,
           NEW Q, Q = wake_ready(P)
    PROVE  /\ Q \in [Slots -> Slot]
           /\ \A t \in Slots : /\ Q[t].loaded = P[t].loaded /\ Q[t].pid = P[t].pid
                               /\ Q[t].parent = P[t].parent
                               /\ Q[t].cpu = P[t].cpu /\ Q[t].thread = P[t].thread
                               /\ Q[t].space = P[t].space /\ Q[t].image = P[t].image
                               /\ P[t].state # "SLEEPING" => Q[t] = P[t]
                               /\ P[t].state = "SLEEPING" =>
                                     /\ Q[t].state \in {"READY", "SLEEPING"}
                                     /\ Q[t].state = "SLEEPING" => Q[t].left > 0
<1>1. ASSUME NEW t \in Slots
      PROVE  \/ P[t].state # "SLEEPING" /\ Q[t] = P[t]
             \/ P[t].state = "SLEEPING"
                /\ Q[t] = [P[t] EXCEPT !.left = @ - 1,
                                       !.state = IF P[t].left <= 1 THEN "READY" ELSE @]
  BY Zenon DEF wake_ready
<1>2. ASSUME NEW t \in Slots, P[t].state = "SLEEPING"
      PROVE  /\ Q[t] \in Slot /\ Q[t].state \in {"READY", "SLEEPING"}
             /\ Q[t].state = "SLEEPING" => Q[t].left > 0
             /\ Q[t].loaded = P[t].loaded /\ Q[t].pid = P[t].pid /\ Q[t].cpu = P[t].cpu
             /\ Q[t].parent = P[t].parent
             /\ Q[t].thread = P[t].thread /\ Q[t].space = P[t].space
             /\ Q[t].image = P[t].image
  <2> DEFINE x == P[t]
             l == x.left - 1
             v == IF x.left <= 1 THEN "READY" ELSE "SLEEPING"
             y == [x EXCEPT !.left = l, !.state = v]
  <2>1. x \in Slot /\ x.left > 0 /\ x.left \in 0 .. MaxSleep /\ MaxSleep \in Nat
    BY <1>2, ProcessAssumption DEF Slot
  <2>2. l \in 0 .. MaxSleep /\ v \in {"READY", "SLEEPING"} /\ (v = "SLEEPING" => l > 0)
    BY <2>1
  <2>3. Q[t] = y
    BY <1>1, <1>2, Zenon
  <2> HIDE DEF x, l, v
  <2>4. v \in States
    BY <2>2 DEF States
  <2>6. y \in Slot /\ y.state = v /\ y.left = l
    BY <2>1, <2>2, <2>4, Zenon DEF Slot
  <2>5. /\ y.loaded = x.loaded /\ y.pid = x.pid /\ y.cpu = x.cpu /\ y.parent = x.parent
        /\ y.thread = x.thread /\ y.space = x.space /\ y.image = x.image
    BY <2>1 DEF Slot
  <2> HIDE DEF y
  <2> QED
    BY <2>2, <2>3, <2>5, <2>6, Zenon DEF x
<1>3. Q \in [Slots -> Slot]
  <2>1. \A t \in Slots : Q[t] \in Slot
    BY <1>1, <1>2, Zenon
  <2>2. Q = [t \in Slots |-> Q[t]]
    BY Zenon DEF wake_ready
  <2> QED
    BY <2>1, <2>2
<1> QED
  BY <1>1, <1>2, <1>3, Zenon

LEMMA TickGood ==
    ASSUME NEW n \in Nat, NEW P, Good(P, n)
    PROVE  /\ Good(wake_ready(P), n) /\ Later(P, wake_ready(P))
           /\ \A t \in Slots : /\ wake_ready(P)[t].cpu = P[t].cpu
                               /\ P[t].state # "SLEEPING" => wake_ready(P)[t] = P[t]
<1> DEFINE Q == wake_ready(P)
<1>0. Table(P, n) /\ NoneMissed(P, {}) /\ Owners(P, {}) /\ P \in [Slots -> Slot]
  BY DEF Good, Table
<1>1. \A t \in Slots : P[t].state = "SLEEPING" => P[t].left > 0
  BY <1>0, Zenon DEF Table
<1>2. /\ Q \in [Slots -> Slot]
      /\ \A t \in Slots : /\ Q[t].loaded = P[t].loaded /\ Q[t].pid = P[t].pid
                          /\ Q[t].cpu = P[t].cpu /\ Q[t].thread = P[t].thread
                          /\ Q[t].space = P[t].space /\ Q[t].image = P[t].image
                          /\ P[t].state # "SLEEPING" => Q[t] = P[t]
                          /\ P[t].state = "SLEEPING" =>
                                /\ Q[t].state \in {"READY", "SLEEPING"}
                                /\ Q[t].state = "SLEEPING" => Q[t].left > 0
  <2>1. Q = wake_ready(P)
    OBVIOUS
  <2> HIDE DEF Q
  <2> QED
    BY <1>0, <1>1, <2>1, WakeReadyIs
<1> HIDE DEF Q
<1>5. Table(Q, n)
  <2>1. \A t \in Slots : /\ Q[t].loaded <=> Q[t].state # "EMPTY"
                         /\ IF Q[t].loaded THEN Q[t].pid \in 1 .. n ELSE Q[t].pid = 0
                         /\ Q[t].state = "SLEEPING" => Q[t].left > 0
                         /\ Q[t].loaded /\ ~Q[t].thread => Q[t].space = t
    <3> TAKE t \in Slots
    <3>1. CASE P[t].state = "SLEEPING"
      BY SMTT(60), <1>0, <1>2, <3>1 DEF Table
    <3>2. CASE P[t].state # "SLEEPING"
      BY SMTT(60), <1>0, <1>2, <3>2 DEF Table
    <3> QED
      BY <3>1, <3>2
  <2> QED
    BY SMTT(60), <1>0, <1>2, <2>1 DEF Table
<1>6. NoneMissed(Q, {})
  <2>1. \A t \in Slots : Q[t].state \in {"EXITED", "WAITING"} => Q[t] = P[t]
    BY SMTT(60), <1>2
  <2> QED
    BY <1>0, <2>1 DEF NoneMissed, exited_children
<1>7. Owners(Q, {})
  <2>1. \A t \in Slots : Q[t].state = "EXITED" <=> P[t].state = "EXITED"
    BY <1>2
  <2> QED
    BY SMTT(60), <1>0, <1>2, <2>1 DEF Owners, Owned
<1>8. Later(P, Q)
  BY SMTT(60), <1>2 DEF Later
<1> QED
  BY SMTT(60), <1>2, <1>5, <1>6, <1>7, <1>8 DEF Good, Q

-----------------------------------------------------------------------------
\* process_find_free_slot
LEMMA FreeIs ==
    ASSUME NEW P
    PROVE  \/ free_slot(P) = NoSlot
           \/ free_slot(P) \in Slots /\ (~P[free_slot(P)].loaded
                                         \/ P[free_slot(P)].state \in {"EMPTY", "EXITED"})
<1> DEFINE S == {s \in Slots : ~P[s].loaded \/ P[s].state \in {"EMPTY", "EXITED"}}
<1>1. free_slot(P) = IF S = {} THEN NoSlot ELSE Lowest(S)
  BY DEF free_slot
<1>2. S # {} => Lowest(S) \in S
  BY LowestIs
<1> QED
  BY <1>1, <1>2

\* Tables that differ only in slot s, where there was no live process.
Replaced(P, Q, s) ==
    /\ Q \in [Slots -> Slot]
    /\ \A t \in Slots \ {s} : Q[t] = P[t]
    /\ ~P[s].loaded \/ P[s].state = "EXITED"

\* A slot without a live process is reaped.
LEMMA ReapGood ==
    ASSUME NEW n \in Nat, NEW P, Good(P, n), NEW s \in Slots, ~P[s].loaded \/ P[s].state = "EXITED"
    PROVE  /\ Good(reap(P, s), n) /\ Later(P, reap(P, s)) /\ Replaced(P, reap(P, s), s)
           /\ reap(P, s)[s].cpu = P[s].cpu /\ ~reap(P, s)[s].loaded
<1> DEFINE Q == reap(P, s)
<1>0. Table(P, n) /\ NoneMissed(P, {}) /\ Owners(P, {}) /\ P \in [Slots -> Slot]
  BY DEF Good, Table
<1>1. /\ Q \in [Slots -> Slot] /\ Q[s] = Reaped(P[s])
      /\ \A t \in Slots \ {s} : Q[t] = P[t]
  BY <1>0, ReapIs
<1>2. /\ Q[s].state = "EMPTY" /\ ~Q[s].loaded /\ Q[s].pid = 0 /\ Q[s].cpu = P[s].cpu
  BY SMTT(60), <1>0, <1>1, ReapedIs
<1> HIDE DEF Q
<1>3. Table(Q, n)
  <2>1. \A t \in Slots : /\ Q[t].loaded <=> Q[t].state # "EMPTY"
                         /\ IF Q[t].loaded THEN Q[t].pid \in 1 .. n ELSE Q[t].pid = 0
                         /\ Q[t].state = "SLEEPING" => Q[t].left > 0
                         /\ Q[t].loaded /\ ~Q[t].thread => Q[t].space = t
    <3> TAKE t \in Slots
    <3>1. CASE t = s
      BY <1>2, <3>1
    <3>2. CASE t # s
      BY <1>0, <1>1, <3>2 DEF Table
    <3> QED
      BY <3>1, <3>2
  <2>2. \A t \in Slots : Q[t].loaded => Q[t] = P[t]
    BY SMTT(60), <1>1, <1>2
  <2> QED
    BY SMTT(60), <1>0, <1>1, <2>1, <2>2 DEF Table
<1>4. NoneMissed(Q, {})
  <2>1. \A t \in Slots : Q[t].loaded => Q[t] = P[t]
    BY <1>1, <1>2
  <2> QED
    BY <1>0, <2>1 DEF NoneMissed, exited_children
<1>5. Owners(Q, {})
  BY <1>0, <1>1, <1>2 DEF Owners, Owned
<1>6. Later(P, Q)
  BY <1>1, <1>2 DEF Later
<1> QED
  BY SMTT(60), <1>1, <1>2, <1>3, <1>4, <1>5, <1>6 DEF Good, Replaced, Q

\* process_find_free_slot hands out an unloaded slot, reaping a zombie for it.
LEMMA FindFreeGood ==
    ASSUME NEW n \in Nat, NEW P, Good(P, n), NEW s, s = free_slot(P), s # NoSlot,
           NEW F, F = find_free_slot(P)
    PROVE  /\ s \in Slots /\ Good(F, n) /\ Later(P, F) /\ Replaced(P, F, s)
           /\ F[s].cpu = P[s].cpu /\ ~F[s].loaded
<1>0. Table(P, n) /\ P \in [Slots -> Slot]
  BY DEF Good, Table
<1>1. s \in Slots /\ (~P[s].loaded \/ P[s].state = "EXITED")
  BY SMTT(60), <1>0, FreeIs DEF Table
<1>2. CASE P[s].loaded
  <2>1. F = reap(P, s)
    BY <1>0, <1>1, <1>2 DEF find_free_slot
  <2> QED
    BY SMTT(60), <1>1, <2>1, ReapGood
<1>3. CASE ~P[s].loaded
  <2>1. F = P
    BY <1>3 DEF find_free_slot
  <2> QED
    BY <1>0, <1>1, <1>3, <2>1 DEF Later, Replaced
<1> QED
  BY SMTT(60), <1>2, <1>3

LEMMA NoFreeSlot ==
    ASSUME NEW P, free_slot(P) = NoSlot
    PROVE  find_free_slot(P) = P
  BY DEF find_free_slot

\* A new process or thread x with the next pid takes an unloaded slot.
Enters(P, s, x, n) ==
    /\ x \in Slot /\ x.state = "READY" /\ x.loaded /\ x.pid = n + 1 /\ x.cpu = NoCpu
    /\ ~x.thread => x.space = s
    /\ x.thread => /\ x.space \in Slots
                   /\ P[x.space].loaded /\ ~P[x.space].thread
                   /\ P[x.space].state # "EXITED" /\ P[x.space].image = x.image

LEMMA EnterGood ==
    ASSUME NEW n \in Nat, NEW P, Good(P, n), NEW s \in Slots, ~P[s].loaded, NEW x,
           Enters(P, s, x, n), NEW Q, Replaced(P, Q, s), Q[s] = x
    PROVE  Good(Q, n + 1)
<1>0. Table(P, n) /\ NoneMissed(P, {}) /\ Owners(P, {}) /\ P \in [Slots -> Slot]
  BY SMTT(60) DEF Good, Table
<1>1. /\ x \in Slot /\ x.state = "READY" /\ x.loaded /\ x.pid = n + 1
      /\ ~x.thread => x.space = s
  BY DEF Enters
<1>2. Q \in [Slots -> Slot] /\ Q[s] = x /\ \A t \in Slots \ {s} : Q[t] = P[t]
  BY SMTT(60) DEF Replaced
<1>3. Table(Q, n + 1)
  <2>1. \A t \in Slots : /\ Q[t].loaded <=> Q[t].state # "EMPTY"
                         /\ IF Q[t].loaded THEN Q[t].pid \in 1 .. n + 1 ELSE Q[t].pid = 0
                         /\ Q[t].state = "SLEEPING" => Q[t].left > 0
                         /\ Q[t].loaded /\ ~Q[t].thread => Q[t].space = t
    <3> TAKE t \in Slots
    <3>1. CASE t = s
      BY SMTT(60), <1>1, <1>2, <3>1
    <3>2. CASE t # s
      <4>1. /\ P[t].loaded <=> P[t].state # "EMPTY"
            /\ IF P[t].loaded THEN P[t].pid \in 1 .. n ELSE P[t].pid = 0
            /\ P[t].state = "SLEEPING" => P[t].left > 0
            /\ P[t].loaded /\ ~P[t].thread => P[t].space = t
        BY <1>0 DEF Table
      <4>2. Q[t] = P[t]
        BY SMTT(60), <1>2, <3>2
      <4> QED
        BY SMTT(60), <4>1, <4>2
    <3> QED
      BY <3>1, <3>2
  <2>2. \A t \in Slots \ {s} : Q[t].loaded => Q[t].pid # n + 1
    BY SMTT(60), <1>0, <1>2 DEF Table
  <2>3. \A t, u \in Slots : Q[t].loaded /\ Q[u].loaded /\ Q[t].pid = Q[u].pid => t = u
    <3> TAKE t, u \in Slots
    <3>1. CASE t = s \/ u = s
      BY SMTT(60), <1>1, <1>2, <2>2, <3>1
    <3>2. CASE t # s /\ u # s
      BY SMTT(60), <1>0, <1>2, <3>2 DEF Table
    <3> QED
      BY <3>1, <3>2
  <2> QED
    BY SMTT(60), <1>2, <2>1, <2>3 DEF Table
<1>4. NoneMissed(Q, {})
  <2>1. \A t \in Slots : Q[t].state \in {"WAITING", "EXITED"} => Q[t] = P[t]
    BY SMTT(60), <1>1, <1>2
  <2> QED
    BY SMTT(60), <1>0, <2>1 DEF NoneMissed, exited_children
<1>5. Owners(Q, {})
  <2>1. ASSUME NEW t \in Slots \ {s}, Q[t].loaded, Q[t].thread, Q[t].state # "EXITED"
        PROVE  Owned(Q, t)
    <3>1. Owned(P, t)
      BY SMTT(60), <1>0, <1>2, <2>1 DEF Owners
    <3>2. P[t].space # s
      BY SMTT(60), <3>1 DEF Owned
    <3> QED
      BY <1>2, <3>1, <3>2 DEF Owned
  <2>2. ASSUME x.thread PROVE Owned(Q, s)
    <3>1. x.space \in Slots \ {s}
      BY <2>2 DEF Enters
    <3> QED
      BY SMTT(60), <1>2, <2>2, <3>1 DEF Owned, Enters
  <2> QED
    BY SMTT(60), <1>2, <2>1, <2>2 DEF Owners
<1> QED
  BY SMTT(60), <1>3, <1>4, <1>5 DEF Good

\* What process_load_image_slot and process_create_thread put into a slot.
Loaded(s, pid, parent) ==
    [EmptySlot EXCEPT !.state = "READY", !.loaded = TRUE, !.pid = pid, !.parent = parent,
                      !.space = s, !.image = pid]

Thread(pid, parent, space, image) ==
    [EmptySlot EXCEPT !.state = "READY", !.loaded = TRUE, !.pid = pid, !.parent = parent,
                      !.thread = TRUE, !.space = space, !.image = image]

Newly(x, pid, space, image) ==
    /\ x \in Slot /\ x.state = "READY" /\ x.loaded /\ x.pid = pid /\ x.cpu = NoCpu
    /\ x.space = space /\ x.image = image

LEMMA LoadedIs ==
    ASSUME NEW s \in Slots, NEW pid \in 0 .. MaxPid, NEW parent \in 0 .. MaxPid
    PROVE  Newly(Loaded(s, pid, parent), pid, s, pid) /\ ~Loaded(s, pid, parent).thread
<1>1. 0 \in 0 .. MaxPid /\ 0 \in 0 .. MaxSleep /\ "READY" \in States
  BY ProcessAssumption DEF States
<1>2. Loaded(s, pid, parent) \in Slot
  BY <1>1, Zenon DEF Loaded, EmptySlot, Slot
<1> QED
  BY <1>2 DEF Loaded, EmptySlot, Newly

LEMMA ThreadIs ==
    ASSUME NEW pid \in 0 .. MaxPid, NEW parent \in 0 .. MaxPid, NEW space \in Slots \cup {NoSlot},
           NEW image \in 0 .. MaxPid
    PROVE  /\ Newly(Thread(pid, parent, space, image), pid, space, image)
           /\ Thread(pid, parent, space, image).thread
<1>1. 0 \in 0 .. MaxPid /\ 0 \in 0 .. MaxSleep /\ "READY" \in States
  BY ProcessAssumption DEF States
<1>2. Thread(pid, parent, space, image) \in Slot
  BY <1>1, Zenon DEF Thread, EmptySlot, Slot
<1> QED
  BY <1>2 DEF Thread, EmptySlot, Newly
=============================================================================
