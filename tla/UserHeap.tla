------------------------------ MODULE UserHeap ------------------------------
(***************************************************************************)
(* The allocator every user program links (user/umalloc.c): an address-    *)
(* ordered list of blocks over the pages SYS_SBRK returns, first fit,      *)
(* split on allocation, merged with both neighbours on free, shared by the *)
(* threads of a process behind one lock byte.                              *)
(*                                                                         *)
(* Addresses and sizes are counted in units of UMALLOC_ALIGN.  The list is *)
(* the function mem from the address of a header to its size and free bit; *)
(* next and prev are the neighbours in address order.                      *)
(***************************************************************************)
EXTENDS Integers, FiniteSets, FiniteSetsExt, TLC

CONSTANTS
    Threads,     \* the threads that share the heap
    Sizes,       \* the sizes a program asks for
    Header,      \* sizeof(struct block)
    GrowMin,     \* UMALLOC_GROW_MIN
    Page,        \* what page_align rounds to
    Limit,       \* where SYS_SBRK starts to fail
    Builds,      \* the builds looked at, of "x86_64" and "arm64"
    ManyCores    \* arm64 runs user threads on several cores (arm64/smp.c)

VARIABLES
    build,       \* which build this is; it never changes
    mem,         \* address of a header -> [size, free]
    brk,         \* the program break
    g_used,      \* payload handed out
    g_alloc_lock,
    at,          \* per thread: "out", "saw" (found the lock free), "in"
    live         \* what callers hold: [ptr, size]

uvars == <<build, mem, brk, g_used, g_alloc_lock, at, live>>

Init ==
    /\ build \in Builds
    /\ mem = <<>>
    /\ brk = 0
    /\ g_used = 0
    /\ g_alloc_lock = FALSE
    /\ at = [t \in Threads |-> "out"]
    /\ live = {}

next(m, a) == {x \in DOMAIN m : x > a}
prev(m, a) == {x \in DOMAIN m : x < a}

payload_of(a) == a + Header
block_of(p) == p - Header

(* umalloc.c: split_block *)
split_blockNoHeader(m, a, need) ==
    IF m[a].size < need + Header + 1
    THEN m
    ELSE (a :> [m[a] EXCEPT !.size = need])
         @@ (payload_of(a) + need :> [size |-> m[a].size - need, free |-> TRUE])
         @@ m
split_block(m, a, need) ==
    IF m[a].size < need + Header + 1
    THEN m
    ELSE (a :> [m[a] EXCEPT !.size = need])
         @@ (payload_of(a) + need :> [size |-> m[a].size - need - Header, free |-> TRUE])
         @@ m

(* umalloc.c: coalesce_forward merges the run of free blocks after a. *)
freeRun(m, a) == {x \in next(m, a) : \A y \in next(m, a) : y <= x => m[y].free}
coalesce_forward(m, a) ==
    LET run == freeRun(m, a)
    IN  [x \in DOMAIN m \ run |->
            IF x = a
            THEN [m[a] EXCEPT !.size = @ + MapThenSumSet(LAMBDA y : Header + m[y].size, run)]
            ELSE m[x]]

coalesce_back(m, a) ==
    IF prev(m, a) # {} /\ m[Max(prev(m, a))].free
    THEN coalesce_forward(m, Max(prev(m, a)))
    ELSE m

(* umalloc.c: grow_heap; the break is contiguous, see Sbrk *)
page_align(n) == ((n + Page - 1) \div Page) * Page
bytesFor(need) == page_align(Max({need + Header, GrowMin}))
grow_heap(m, need) ==
    coalesce_back((brk :> [size |-> bytesFor(need) - Header, free |-> TRUE]) @@ m, brk)

firstFit(m, need) == {a \in DOMAIN m : m[a].free /\ m[a].size >= need}

(* Hand out the first block of m that fits: split it and mark it used. *)
hand(m, need) ==
    LET a == Min(firstFit(m, need))
        s == split_block(m, a, need)
    IN  [a |-> a, m |-> [s EXCEPT ![a].free = FALSE]]

(* umalloc.c: umalloc_nolock, with the break it leaves behind *)
umalloc_nolock(m, need) ==
    IF firstFit(m, need) # {}
    THEN {hand(m, need) @@ [brk |-> brk]}
    ELSE IF brk + bytesFor(need) > Limit
         THEN {}
         ELSE {hand(grow_heap(m, need), need) @@ [brk |-> brk + bytesFor(need)]}

(* umalloc.c: ufree_nolock of a block in use *)
ufree_nolock(m, a) ==
    coalesce_back(coalesce_forward([m EXCEPT ![a].free = TRUE], a), a)

(***************************************************************************)
(* The lock.  x86_64 tests and sets it in one instruction and threads are  *)
(* preempted anywhere; arm64 tests it, then stores to it, and on one core  *)
(* a thread that does not yield is alone from the test to the unlock.      *)
(***************************************************************************)
mayRun(t) ==
    build = "arm64" /\ ~ManyCores => \A u \in Threads \ {t} : at[u] = "out"

Look(t) ==
    /\ build = "arm64"
    /\ mayRun(t)
    /\ at[t] = "out"
    /\ ~g_alloc_lock
    /\ at' = [at EXCEPT ![t] = "saw"]
    /\ UNCHANGED <<build, mem, brk, g_used, g_alloc_lock, live>>

alloc_lock(t) ==
    /\ mayRun(t)
    /\ IF build = "arm64" THEN at[t] = "saw" ELSE at[t] = "out" /\ ~g_alloc_lock
    /\ g_alloc_lock' = TRUE
    /\ at' = [at EXCEPT ![t] = "in"]
    /\ UNCHANGED <<build, mem, brk, g_used, live>>

alloc_unlock(t) ==
    /\ mayRun(t)
    /\ g_alloc_lock' = FALSE
    /\ at' = [at EXCEPT ![t] = "out"]
    /\ UNCHANGED build

umalloc(t) ==
    /\ at[t] = "in"
    /\ \E n \in Sizes :
          LET got == umalloc_nolock(mem, n)
          IN  IF got = {}
              THEN UNCHANGED <<mem, brk, g_used, live>>
              ELSE \E r \in got :
                      /\ mem' = r.m
                      /\ brk' = r.brk
                      /\ g_used' = g_used + r.m[r.a].size
                      /\ live' = live \union {[ptr |-> payload_of(r.a), size |-> n]}
    /\ alloc_unlock(t)

ufree(t) ==
    /\ at[t] = "in"
    /\ \E l \in live :
          /\ g_used' = g_used - mem[block_of(l.ptr)].size
          /\ mem' = ufree_nolock(mem, block_of(l.ptr))
          /\ live' = live \ {l}
    /\ UNCHANGED brk
    /\ alloc_unlock(t)

(* urealloc_nolock: shrink in place, grow into the next block, or move *)
grown(l, n) ==
    LET a == block_of(l.ptr)
        s == split_block(coalesce_forward(mem, a), a, n)
    IN  /\ mem' = s
        /\ g_used' = g_used - mem[a].size + s[a].size
        /\ live' = (live \ {l}) \union {[l EXCEPT !.size = n]}
        /\ UNCHANGED brk

moved(l, n) ==
    LET got == umalloc_nolock(mem, n)
        a == block_of(l.ptr)
    IN  IF got = {}
        THEN UNCHANGED <<mem, brk, g_used, live>>
        ELSE \E r \in got :
                /\ mem' = ufree_nolock(r.m, a)
                /\ brk' = r.brk
                /\ g_used' = g_used + r.m[r.a].size - r.m[a].size
                /\ live' = (live \ {l}) \union {[ptr |-> payload_of(r.a), size |-> n]}

nextIsRoom(a, n) ==
    /\ next(mem, a) # {}
    /\ LET x == Min(next(mem, a))
       IN  mem[x].free /\ mem[a].size + Header + mem[x].size >= n

urealloc(t) ==
    /\ at[t] = "in"
    /\ \E l \in live, n \in Sizes :
          LET a == block_of(l.ptr)
          IN  IF mem[a].size >= n
              THEN /\ live' = (live \ {l}) \union {[l EXCEPT !.size = n]}
                   /\ UNCHANGED <<mem, brk, g_used>>
              ELSE IF nextIsRoom(a, n) THEN grown(l, n) ELSE moved(l, n)
    /\ alloc_unlock(t)

Next ==
    \E t \in Threads :
        Look(t) \/ alloc_lock(t) \/ umalloc(t) \/ ufree(t) \/ urealloc(t)

Spec == Init /\ [][Next]_uvars

-----------------------------------------------------------------------------

TypeOK ==
    /\ \A a \in DOMAIN mem : mem[a].size \in Nat /\ mem[a].free \in BOOLEAN
    /\ brk \in Nat
    /\ g_used \in Int
    /\ at \in [Threads -> {"out", "saw", "in"}]

(* The blocks tile the heap with no gap and no overlap, no two neighbours  *)
(* are both free, the used counter is the payload of the used blocks, and  *)
(* the used blocks are exactly the ones callers hold, each at least as     *)
(* large as what was asked for (umalloc.c's split_block, coalesce_forward, *)
(* grow_heap and urealloc_nolock over any sequence of calls).              *)
UserHeapExact ==
    /\ \A a \in DOMAIN mem :
          LET end == IF next(mem, a) = {} THEN brk ELSE Min(next(mem, a))
          IN  /\ payload_of(a) + mem[a].size = end
              /\ mem[a].free /\ next(mem, a) # {} => ~mem[end].free
    /\ g_used = MapThenSumSet(LAMBDA a : IF mem[a].free THEN 0 ELSE mem[a].size, DOMAIN mem)
    /\ {a \in DOMAIN mem : ~mem[a].free} = {block_of(l.ptr) : l \in live}
    /\ \A l \in live : mem[block_of(l.ptr)].size >= l.size

(* "A plain flag is sufficient: threads sharing this heap only ever        *)
(* interleave at explicit yield points" (umalloc.c:40-44): no two threads  *)
(* are inside the allocator at once.                                       *)
OneAllocates == \A t, u \in Threads : at[t] = "in" /\ at[u] = "in" => t = u

=============================================================================
