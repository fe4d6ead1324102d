----------------------------- MODULE KernelHeap -----------------------------
(***************************************************************************)
(* The first-fit allocator of kernel/src/alloc.c: kmalloc and kfree, and   *)
(* the gfx and image heaps, which run the same code (kheap_alloc and       *)
(* kheap_free) without a lock of their own.                                *)
(*                                                                         *)
(* Memory is counted in 8-byte words from the base of the heap.  A header  *)
(* takes three words: size, next and is_free.  The walk along the list and *)
(* the merging loop take one block per step, so that what another CPU      *)
(* does in between is seen when there is no lock.                          *)
(***************************************************************************)
EXTENDS Integers, FiniteSets

CONSTANTS CPUs,
          NoCpu,
          Allocators, \* CPUs that call kmalloc; the others only free, as a
                      \* CPU in process_handle_user_fault does
          HeapWords,  \* g_heap_size in words
          Requests,   \* sizes asked for, in bytes
          Locked,     \* g_heap_lock is taken: kmalloc, not gfx and image
          MaxLive     \* bound on the blocks held at a time

Header == 3
Null   == -1
Addr   == 0 .. HeapWords - Header

ASSUME HeapAssumption ==
    /\ NoCpu \notin CPUs
    /\ Allocators \subseteq CPUs
    /\ HeapWords \in Nat /\ HeapWords >= Header
    /\ Requests \subseteq Nat
    /\ Locked \in BOOLEAN
    /\ MaxLive \in Nat

VARIABLES size, next, is_free,  \* the header words at each address
          used,                 \* g_used, which only kmalloc keeps
          lock,                 \* holder of g_heap_lock
          op,                   \* what each CPU is doing
          curr,                 \* its position in the list
          want,                 \* words it asks for
          live,                 \* headers of the blocks each CPU was given
          asked,                \* words asked for when the block was given
          list                  \* headers on the list from g_heap_start

heap == <<size, next, is_free, used>>
vars == <<size, next, is_free, used, lock, op, curr, want, live, asked, list>>

Live == UNION {live[c] : c \in CPUs}

\* (size + 7) & ~7, in words
align8(n) == (n + 7) \div 8

\* block_in_heap, kheap_block_ok
block_in_heap(a) == a \in Addr /\ size[a] <= HeapWords - a - Header

\* block_phys_next
block_phys_next(a) == a + Header + size[a]

\* kmalloc_init, kheap_init: one free block.
Init ==
    /\ size = [a \in Addr |-> IF a = 0 THEN HeapWords - Header ELSE 0]
    /\ next = [a \in Addr |-> Null]
    /\ is_free = [a \in Addr |-> TRUE]
    /\ used = 0
    /\ lock = NoCpu
    /\ op = [c \in CPUs |-> "idle"]
    /\ curr = [c \in CPUs |-> Null]
    /\ want = [c \in CPUs |-> 0]
    /\ live = [c \in CPUs |-> {}]
    /\ asked = [a \in Addr |-> 0]
    /\ list = {0}

\* spin_lock_irqsave and spin_unlock_irqrestore around the call
Enter(c) ==
    /\ op[c] = "idle"
    /\ IF Locked THEN lock = NoCpu /\ lock' = c ELSE UNCHANGED lock

Leave(c) ==
    /\ op' = [op EXCEPT ![c] = "idle"]
    /\ curr' = [curr EXCEPT ![c] = Null]
    /\ want' = [want EXCEPT ![c] = 0]
    /\ lock' = IF Locked THEN NoCpu ELSE lock

kmalloc(c) ==
    /\ c \in Allocators
    /\ Enter(c)
    /\ Cardinality(Live) < MaxLive
    /\ \E n \in Requests : want' = [want EXCEPT ![c] = align8(n)]
    /\ op' = [op EXCEPT ![c] = "walk"]
    /\ curr' = [curr EXCEPT ![c] = 0]
    /\ UNCHANGED <<size, next, is_free, used, live, asked, list>>

\* The size is not looked at.
fitsAny(c, a) == ~block_in_heap(a) \/ is_free[a]

\* A block of just the right size is passed over.
fitsStrictly(c, a) == ~block_in_heap(a) \/ (is_free[a] /\ size[a] > want[c])

\* The loop of kmalloc_locked stops at this block.
fits(c, a) == ~block_in_heap(a) \/ (is_free[a] /\ size[a] >= want[c])

walk(c) ==
    /\ op[c] = "walk"
    /\ curr[c] # Null
    /\ IF fits(c, curr[c])
       THEN op' = [op EXCEPT ![c] = "take"] /\ UNCHANGED curr
       ELSE curr' = [curr EXCEPT ![c] = next[curr[c]]] /\ UNCHANGED op
    /\ UNCHANGED <<size, next, is_free, used, lock, want, live, asked, list>>

\* No suitable block: kmalloc returns NULL.
out_of_memory(c) ==
    /\ op[c] = "walk"
    /\ curr[c] = Null
    /\ Leave(c)
    /\ UNCHANGED <<size, next, is_free, used, live, asked, list>>

\* The rest may be smaller than a header.
splitsTight(c, a) == size[a] > want[c]

\* A block is split when the rest can hold a header and more than one word.
splits(c, a) == size[a] > want[c] + Header + 1

\* What was asked for is charged, not what was given.
chargedAsked(c, a) == want[c]

\* The payload added to g_used: the size of the block after the split.
charged(c, a) == IF splits(c, a) THEN want[c] ELSE size[a]

take(c) ==
    LET a == curr[c]
        b == a + Header + want[c]
    IN  /\ op[c] = "take"
        /\ IF splits(c, a)
           THEN /\ size' = [size EXCEPT ![b] = size[a] - want[c] - Header,
                                        ![a] = want[c]]
                /\ next' = [next EXCEPT ![b] = next[a], ![a] = b]
                /\ is_free' = [is_free EXCEPT ![b] = TRUE, ![a] = FALSE]
                /\ list' = list \cup {b}
           ELSE /\ is_free' = [is_free EXCEPT ![a] = FALSE]
                /\ UNCHANGED <<size, next, list>>
        /\ used' = IF Locked THEN used + charged(c, a) ELSE used
        /\ live' = [live EXCEPT ![c] = @ \cup {a}]
        /\ asked' = [asked EXCEPT ![a] = want[c]]
        /\ Leave(c)

\* kfree of a block that the kernel holds; whoever got it, any CPU may free it.
\* Of a block that is already free (two CPUs were given it) nothing is done.
kfree(c) ==
    /\ Enter(c)
    /\ \E d \in CPUs : \E a \in live[d] :
         /\ live' = [live EXCEPT ![d] = @ \ {a}]
         /\ asked' = [asked EXCEPT ![a] = 0]
         /\ is_free' = [is_free EXCEPT ![a] = TRUE]
         /\ used' = IF is_free[a] \/ ~Locked THEN used
                    ELSE IF used >= size[a] THEN used - size[a] ELSE 0
    /\ op' = [op EXCEPT ![c] = "merge"]
    /\ curr' = [curr EXCEPT ![c] = 0]
    /\ UNCHANGED <<size, next, want, list>>

\* Two neighbours that kfree_locked makes one.
mergeable(a) ==
    is_free[a] /\ is_free[next[a]] /\ block_phys_next(a) = next[a]

\* The header between the two is not counted.
merged_sizeShort(a) == size[a] + size[next[a]]

merged_size(a) == size[a] + Header + size[next[a]]

\* The merged block is not looked at again.
after_mergeSkips(a) == IF next[next[a]] = Null THEN a ELSE next[next[a]]

\* Where the loop goes on after merging a: at a again, to take in the block
\* that follows now.
after_merge(a) == a

\* The loop stays where it is.
after_keepStays(a) == a

\* Where it goes on after leaving a as it is.
after_keep(a) == next[a]

Mergeable(a) == block_in_heap(a) /\ block_in_heap(next[a])

\* A header that has left the list.  Under the lock nobody reads it again,
\* and its words are set to fixed values.
forget(f, b, v) == IF Locked THEN [f EXCEPT ![b] = v] ELSE f

merge(c) ==
    LET a == curr[c] IN
    /\ op[c] = "merge"
    /\ next[a] # Null
    /\ Mergeable(a)
    /\ IF mergeable(a)
       THEN /\ size' = [forget(size, next[a], 0) EXCEPT
                          ![a] = merged_size(a)]
            /\ next' = [forget(next, next[a], Null) EXCEPT
                          ![a] = next[next[a]]]
            /\ list' = list \ {next[a]}
            /\ curr' = [curr EXCEPT ![c] = after_merge(a)]
       ELSE /\ curr' = [curr EXCEPT ![c] = after_keep(a)]
            /\ UNCHANGED <<size, next, list>>
    /\ UNCHANGED <<is_free, used, lock, op, want, live, asked>>

merged(c) ==
    /\ op[c] = "merge"
    /\ next[curr[c]] = Null \/ ~Mergeable(curr[c])
    /\ Leave(c)
    /\ UNCHANGED <<size, next, is_free, used, live, asked, list>>

Next ==
    \E c \in CPUs : \/ kmalloc(c) \/ walk(c) \/ out_of_memory(c) \/ take(c)
                    \/ kfree(c) \/ merge(c) \/ merged(c)

Spec == Init /\ [][Next]_vars

\* A call that has the lock gets on with it.
LiveSpec == Spec /\ \A c \in CPUs : WF_vars(walk(c) \/ out_of_memory(c)
                                            \/ take(c) \/ merge(c) \/ merged(c))

-----------------------------------------------------------------------------
\* Variables keep their types; sizes and links stay inside the heap.
TypeOK ==
    /\ size \in [Addr -> 0 .. HeapWords]
    /\ next \in [Addr -> Addr \cup {Null}]
    /\ is_free \in [Addr -> BOOLEAN]
    /\ used \in Nat
    /\ lock \in CPUs \cup {NoCpu}
    /\ op \in [CPUs -> {"idle", "walk", "take", "merge"}]
    /\ curr \in [CPUs -> Addr \cup {Null}]
    /\ want \in [CPUs -> Nat]
    /\ live \in [CPUs -> SUBSET Addr]
    /\ asked \in [Addr -> Nat]
    /\ list \subseteq Addr

\* What the holder of block a may write to: the words it asked for.
Overlap(a, b) == a < b + Header + asked[b] /\ b < a + Header + asked[a]

\* Blocks in use never share a word, header included, and never reach past
\* the end of the heap, and none is given out twice.
Disjoint ==
    \A c, d \in CPUs : \A a \in live[c], b \in live[d] :
        /\ a + Header + asked[a] <= HeapWords
        /\ <<c, a>> # <<d, b>> => ~Overlap(a, b)

\* The list tiles the heap: each block ends where the next one begins, the
\* last one at the end.  No word is lost to the allocator.
Tiles ==
    /\ 0 \in list
    /\ \A a \in list :
         IF next[a] = Null THEN block_phys_next(a) = HeapWords
         ELSE next[a] \in list /\ next[a] = block_phys_next(a)
    /\ \A a, b \in list : a < b => block_phys_next(a) <= b

\* Between calls no two neighbours are free: kfree_locked merges all it can,
\* and a split never leaves a free block beside another.
Coalesced ==
    lock = NoCpu =>
        \A a \in list : next[a] # Null => ~(is_free[a] /\ is_free[next[a]])

\* When everything has been freed the heap is one block again.
AllFreed ==
    lock = NoCpu /\ Live = {} => list = {0} /\ size[0] = HeapWords - Header

\* The heap between and during calls: the blocks tile it, those in use are
\* disjoint, and free neighbours are merged, back to the one block of the start.
HeapIntact == TypeOK /\ Tiles /\ Disjoint /\ Coalesced /\ AllFreed

\* The words behind a header.
payload(a) == a + Header .. a + Header + size[a] - 1

\* g_used is the number of words in the blocks in use.
UsedExact == used = Cardinality(UNION {payload(a) : a \in Live})

\* kmalloc fails only when no free block is large enough.
NullOnlyIfFull ==
    \A c \in CPUs : op[c] = "walk" /\ curr[c] = Null =>
        \A a \in list : is_free[a] => size[a] < want[c]

\* kmalloc and kfree return: neither loop runs in circles.
CallsReturn == \A c \in CPUs : op[c] # "idle" ~> op[c] = "idle"
=============================================================================
