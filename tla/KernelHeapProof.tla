-------------------------- MODULE KernelHeapProof --------------------------
(***************************************************************************)
(* Proofs about KernelHeap for every heap size, every set of CPUs and      *)
(* every request, when the heap has its lock (Locked = TRUE).              *)
(*                                                                         *)
(* The inductive invariant adds to the type invariant and to Tiles who may *)
(* be inside (Serial), what the position in the list says (Position), what *)
(* the blocks in use are (Given), and how far kfree_locked has merged      *)
(* (Pairs): two free neighbours lie only at or behind its position.  Two    *)
(* more invariants rest on it: the blocks a walk has passed do not fit      *)
(* (Passed), and g_used counts the words in use (UsedExact).                *)
(***************************************************************************)
EXTENDS KernelHeap, FiniteSetTheorems, TLAPS

\* Only the holder of the lock is inside kmalloc or kfree.
Serial ==
    /\ \A c \in CPUs : op[c] # "idle" => lock = c
    /\ \A c \in CPUs : lock = c => op[c] # "idle"

\* A position is a header on the list, and a block about to be taken is free
\* and large enough.
Position ==
    \A c \in CPUs :
        /\ op[c] = "walk" => curr[c] \in list \cup {Null}
        /\ op[c] \in {"take", "merge"} => curr[c] \in list
        /\ op[c] = "take" => is_free[curr[c]] /\ size[curr[c]] >= want[c]

\* The blocks in use are the blocks on the list that are not free.
Given ==
    /\ \A c \in CPUs : \A a \in live[c] :
         a \in list /\ ~is_free[a] /\ asked[a] <= size[a]
    /\ \A c, d \in CPUs : c # d => live[c] \cap live[d] = {}
    /\ \A a \in list : ~is_free[a] => \E c \in CPUs : a \in live[c]

\* Free neighbours are left only at or behind the position of a merging CPU.
Pairs ==
    \A a \in list : next[a] # Null /\ is_free[a] /\ is_free[next[a]] =>
        \E c \in CPUs : op[c] = "merge" /\ curr[c] <= a

IInv == TypeOK /\ Tiles /\ Serial /\ Position /\ Given /\ Pairs

\* A block on the list ends inside the heap.
LEMMA Ends == TypeOK /\ Tiles => \A a \in list : block_phys_next(a) <= HeapWords
<1> SUFFICES ASSUME TypeOK, Tiles, NEW a \in list
             PROVE  block_phys_next(a) <= HeapWords
  OBVIOUS
<1>1. list \subseteq Addr
  BY DEF TypeOK
<1>2. CASE next[a] = Null
  BY <1>2, HeapAssumption DEF Tiles
<1>3. CASE next[a] # Null
  <2>1. next[a] \in list /\ next[a] = block_phys_next(a)
    BY <1>3 DEF Tiles
  <2>2. next[a] \in 0 .. HeapWords - 3
    BY Zenon, <2>1, <1>1 DEF Addr, Header
  <2>3. HeapWords \in Nat
    BY HeapAssumption
  <2> QED
    BY <2>1, <2>2, <2>3
<1> QED
  BY <1>2, <1>3

\* kmalloc_init leaves one free block.
LEMMA InitIInv == Init => IInv
<1> SUFFICES ASSUME Init PROVE IInv
  OBVIOUS
<1> USE HeapAssumption DEF Init
<1>1. is_free \in [Addr -> BOOLEAN]
  BY Zenon
<1>2. 0 \in Addr
  BY DEF Addr, Header
<1>3. TypeOK
  BY <1>1, <1>2 DEF TypeOK, Addr, Header, Null
<1>4. Tiles
  BY <1>2 DEF Tiles, Header, block_phys_next
<1>5. Serial /\ Position /\ Given /\ Pairs
  BY <1>2 DEF Serial, Position, Given, Pairs
<1> QED
  BY <1>3, <1>4, <1>5 DEF IInv

\* What the list says about its blocks, in numbers.
LEMMA Numbers ==
    IInv => /\ \A a \in list : /\ a \in Addr /\ a \in Nat /\ size[a] \in Nat
                              /\ a + 3 + size[a] <= HeapWords
            /\ \A a \in list : next[a] = Null => a + 3 + size[a] = HeapWords
            /\ \A a \in list : next[a] # Null =>
                  next[a] \in list /\ next[a] = a + 3 + size[a]
            /\ \A a, b \in list : a < b => a + 3 + size[a] <= b
<1> SUFFICES ASSUME IInv
             PROVE  /\ \A a \in list : /\ a \in Addr /\ a \in Nat /\ size[a] \in Nat
                                      /\ a + 3 + size[a] <= HeapWords
                    /\ \A a \in list : next[a] = Null => a + 3 + size[a] = HeapWords
                    /\ \A a \in list : next[a] # Null =>
                          next[a] \in list /\ next[a] = a + 3 + size[a]
                    /\ \A a, b \in list : a < b => a + 3 + size[a] <= b
  OBVIOUS
<1>1. \A a : block_phys_next(a) = a + 3 + size[a]
  BY DEF block_phys_next, Header
<1>2. ASSUME NEW a \in list
      PROVE  a \in Addr /\ a \in Nat /\ size[a] \in Nat
  <2>1. a \in Addr /\ size[a] \in 0 .. HeapWords
    BY <1>2 DEF IInv, TypeOK
  <2> QED
    BY <2>1 DEF Addr
<1>3. \A a \in list : a + 3 + size[a] <= HeapWords
  BY <1>1, Ends DEF IInv
<1> QED
  BY <1>1, <1>2, <1>3 DEF IInv, Tiles

\* Under the lock a CPU inside the allocator is alone there.
LEMMA Alone ==
    ASSUME NEW c \in CPUs, Serial, op[c] # "idle"
    PROVE  \A d \in CPUs \ {c} : op[d] = "idle"
  BY DEF Serial

\* With the lock free nobody is inside and no two free neighbours are left.
LEMMA Quiescent ==
    ASSUME IInv, lock = NoCpu
    PROVE  /\ \A d \in CPUs : op[d] = "idle"
           /\ \A a \in list : next[a] # Null => ~(is_free[a] /\ is_free[next[a]])
<1>1. \A d \in CPUs : op[d] = "idle"
  BY HeapAssumption DEF IInv, Serial
<1> QED
  BY <1>1 DEF IInv, Pairs

\* kmalloc takes the lock and starts at the head of the list.
LEMMA StepKmalloc ==
    ASSUME IInv, Locked, NEW c \in CPUs, kmalloc(c) PROVE IInv'
<1> USE DEF IInv, kmalloc, Enter
<1>1. PICK n \in Requests : want' = [want EXCEPT ![c] = align8(n)]
  BY Zenon
<1>2. align8(n) \in Nat
  BY HeapAssumption DEF align8
<1>3. TypeOK'
  <2>1. want' \in [CPUs -> Nat]
    BY <1>1, <1>2 DEF TypeOK
  <2>2. curr' \in [CPUs -> Addr \cup {Null}] /\ op' \in [CPUs -> {"idle", "walk", "take", "merge"}]
    BY DEF TypeOK, Tiles
  <2> QED
    BY <2>1, <2>2 DEF TypeOK
<1>4. Tiles'
  BY DEF Tiles, block_phys_next
<1>5. \A d \in CPUs : op[d] = "idle"
  BY Quiescent
<1>6. op'[c] = "walk" /\ \A d \in CPUs \ {c} : op'[d] = "idle"
  BY <1>5 DEF TypeOK
<1>7. Serial'
  BY <1>6, HeapAssumption DEF Serial
<1>8. Position'
  <2>1. curr'[c] = 0 /\ 0 \in list
    BY DEF TypeOK, Tiles
  <2> QED
    BY <1>6, <2>1 DEF Position
<1>9. Given'
  BY DEF Given
<1>10. Pairs'
  BY Quiescent DEF Pairs
<1> QED
  BY <1>3, <1>4, <1>7, <1>8, <1>9, <1>10

\* The walk moves along the links.
LEMMA StepWalk ==
    ASSUME IInv, Locked, NEW c \in CPUs, walk(c) PROVE IInv'
<1> USE DEF IInv, walk
<1>1. curr[c] \in list /\ curr[c] \in Addr
  BY Numbers DEF Position
<1>2. next[curr[c]] \in list \cup {Null} /\ next[curr[c]] \in Addr \cup {Null}
  BY <1>1, Numbers
<1>3. block_in_heap(curr[c])
  <2>1. size[curr[c]] <= HeapWords - curr[c] - Header
    BY <1>1, Numbers, HeapAssumption DEF Header
  <2> QED
    BY <1>1, <2>1 DEF block_in_heap
<1>4. TypeOK'
  BY <1>2 DEF TypeOK
<1>5. Tiles'
  BY DEF Tiles, block_phys_next
<1>6. /\ op'[c] \in {"walk", "take"}
      /\ \A d \in CPUs \ {c} : op'[d] = op[d]
      /\ \A d \in CPUs \ {c} : curr'[d] = curr[d]
  BY DEF TypeOK
<1>7. \A d \in CPUs \ {c} : op[d] = "idle"
  BY Alone
<1>8. Serial'
  BY <1>6 DEF Serial
<1>9. Position'
  <2>1. CASE fits(c, curr[c])
    BY <1>1, <1>3, <1>6, <1>7, <2>1 DEF Position, fits, TypeOK
  <2>2. CASE ~fits(c, curr[c])
    <3>1. op'[c] = "walk" /\ curr'[c] = next[curr[c]]
      BY <2>2 DEF TypeOK
    <3> QED
      BY <1>2, <1>6, <1>7, <3>1 DEF Position
  <2> QED
    BY <2>1, <2>2
<1>10. Given'
  BY DEF Given
<1>11. \A a \in list : next[a] # Null => ~(is_free[a] /\ is_free[next[a]])
  BY <1>7 DEF Pairs
<1>12. Pairs'
  BY <1>11 DEF Pairs
<1> QED
  BY <1>4, <1>5, <1>8, <1>9, <1>10, <1>12

\* Leaving the allocator with the heap as it is: kmalloc that found nothing,
\* kfree that has nothing left to merge.
LEMMA StepLeave ==
    ASSUME IInv, Locked, NEW c \in CPUs, op[c] # "idle", Leave(c),
           UNCHANGED <<size, next, is_free, used, live, asked, list>>,
           \A a \in list : next[a] # Null => ~(is_free[a] /\ is_free[next[a]])
    PROVE  IInv'
<1> USE DEF IInv, Leave
<1>1. TypeOK'
  BY DEF TypeOK
<1>2. Tiles'
  BY DEF Tiles, block_phys_next
<1>3. \A d \in CPUs : op'[d] = "idle"
  BY Alone DEF TypeOK
<1>4. Serial' /\ Position' /\ Pairs'
  BY <1>3, HeapAssumption DEF Serial, Position, Pairs
<1>5. Given'
  BY DEF Given
<1> QED
  BY <1>1, <1>2, <1>4, <1>5

LEMMA StepOutOfMemory ==
    ASSUME IInv, Locked, NEW c \in CPUs, out_of_memory(c) PROVE IInv'
<1>1. \A d \in CPUs \ {c} : op[d] = "idle"
  BY Alone DEF IInv, out_of_memory
<1>2. \A a \in list : next[a] # Null => ~(is_free[a] /\ is_free[next[a]])
  BY <1>1 DEF IInv, Pairs, out_of_memory
<1> QED
  BY <1>2, StepLeave DEF out_of_memory

\* The merging loop ends at the last block: no pair is left behind it.
LEMMA StepMerged ==
    ASSUME IInv, Locked, NEW c \in CPUs, merged(c) PROVE IInv'
<1> DEFINE a == curr[c]
<1>1. op[c] = "merge" /\ a \in list
  BY DEF merged, IInv, Position
<1>2. \A b \in list : block_in_heap(b)
  <2> SUFFICES ASSUME NEW b \in list PROVE block_in_heap(b)
    OBVIOUS
  <2>1. size[b] <= HeapWords - b - Header
    BY Numbers, HeapAssumption DEF Header
  <2> QED
    BY <2>1, Numbers DEF block_in_heap
<1>3. next[a] = Null
  BY <1>1, <1>2, Numbers DEF merged, Mergeable
<1>4. \A b \in list : b <= a
  <2> SUFFICES ASSUME NEW b \in list, a < b PROVE FALSE
    BY <1>1, Numbers
  <2> QED
    BY <1>1, <1>3, Numbers, HeapAssumption
<1>5. \A d \in CPUs \ {c} : op[d] = "idle"
  BY <1>1, Alone DEF IInv
<1>6. \A b \in list : next[b] # Null => ~(is_free[b] /\ is_free[next[b]])
  <2> SUFFICES ASSUME NEW b \in list, next[b] # Null, is_free[b], is_free[next[b]]
               PROVE  FALSE
    OBVIOUS
  <2>1. a <= b
    BY <1>5 DEF IInv, Pairs
  <2>2. b = a
    BY <1>1, <1>4, <2>1, Numbers
  <2> QED
    BY <1>3, <2>2
<1> QED
  BY <1>1, <1>6, StepLeave DEF merged

\* kfree marks a block free; the block and its neighbours may now be pairs,
\* all of them at or behind the head of the list.
LEMMA StepKfree ==
    ASSUME IInv, Locked, NEW c \in CPUs, kfree(c) PROVE IInv'
<1> USE DEF IInv, kfree, Enter
<1>1. PICK d \in CPUs : \E b \in live[d] :
         /\ live' = [live EXCEPT ![d] = @ \ {b}]
         /\ asked' = [asked EXCEPT ![b] = 0]
         /\ is_free' = [is_free EXCEPT ![b] = TRUE]
         /\ used' = IF is_free[b] \/ ~Locked THEN used
                    ELSE IF used >= size[b] THEN used - size[b] ELSE 0
  BY Zenon
<1>2. PICK b \in live[d] :
         /\ live' = [live EXCEPT ![d] = @ \ {b}]
         /\ asked' = [asked EXCEPT ![b] = 0]
         /\ is_free' = [is_free EXCEPT ![b] = TRUE]
         /\ used' = IF is_free[b] \/ ~Locked THEN used
                    ELSE IF used >= size[b] THEN used - size[b] ELSE 0
  BY Zenon, <1>1
<1>3. b \in list /\ b \in Addr /\ size[b] \in Nat
  BY Numbers DEF Given
<1>4. TypeOK'
  <2>1. is_free' \in [Addr -> BOOLEAN]
    BY <1>2, <1>3, Zenon DEF TypeOK
  <2>2. used' \in Nat
    BY <1>2, <1>3 DEF TypeOK
  <2>3. live' \in [CPUs -> SUBSET Addr] /\ asked' \in [Addr -> Nat]
    BY <1>2, <1>3 DEF TypeOK
  <2>4. curr' \in [CPUs -> Addr \cup {Null}] /\ op' \in [CPUs -> {"idle", "walk", "take", "merge"}]
    BY DEF TypeOK, Tiles
  <2> QED
    BY <2>1, <2>2, <2>3, <2>4 DEF TypeOK
<1>5. Tiles'
  BY DEF Tiles, block_phys_next
<1>6. op'[c] = "merge" /\ curr'[c] = 0 /\ \A e \in CPUs \ {c} : op'[e] = "idle"
  BY Quiescent DEF TypeOK
<1>7. Serial'
  BY <1>6, HeapAssumption DEF Serial
<1>8. Position'
  BY <1>6 DEF Position, Tiles
<1>9. /\ \A a \in Addr : a # b => (is_free'[a] <=> is_free[a]) /\ asked'[a] = asked[a]
      /\ is_free'[b]
      /\ live'[d] = live[d] \ {b} /\ \A e \in CPUs \ {d} : live'[e] = live[e]
  BY <1>2, <1>3 DEF TypeOK
<1>10. Given'
  <2>1. ASSUME NEW e \in CPUs, NEW a \in live'[e]
        PROVE  a \in live[e] /\ a # b
    BY <1>2, <1>9, <2>1 DEF Given
  <2>2. \A e \in CPUs : \A a \in live'[e] :
            a \in list' /\ ~is_free'[a] /\ asked'[a] <= size'[a]
    BY <2>1, <1>9, Numbers DEF Given
  <2>3. \A e, f \in CPUs : e # f => live'[e] \cap live'[f] = {}
    BY <2>1 DEF Given
  <2>4. \A a \in list' : ~is_free'[a] => \E e \in CPUs : a \in live'[e]
    BY <1>9, Numbers DEF Given
  <2> QED
    BY <2>2, <2>3, <2>4 DEF Given
<1>11. Pairs'
  BY <1>6, Numbers DEF Pairs
<1> QED
  BY <1>4, <1>5, <1>7, <1>8, <1>10, <1>11

\* After a step that leaves every CPU idle, with the lock free again.
LEMMA Left ==
    ASSUME IInv, Locked, NEW c \in CPUs, op[c] # "idle", Leave(c)
    PROVE  /\ \A d \in CPUs : op'[d] = "idle"
           /\ Serial' /\ Position'
           /\ lock' \in CPUs \cup {NoCpu}
           /\ op' \in [CPUs -> {"idle", "walk", "take", "merge"}]
           /\ curr' \in [CPUs -> Addr \cup {Null}]
           /\ want' \in [CPUs -> Nat]
<1>1. \A d \in CPUs : op'[d] = "idle"
  BY Alone DEF IInv, TypeOK, Leave
<1> QED
  BY <1>1, HeapAssumption DEF IInv, TypeOK, Leave, Serial, Position

\* Taking a block whole.
LEMMA StepTakeWhole ==
    ASSUME IInv, Locked, NEW c \in CPUs, take(c), ~splits(c, curr[c])
    PROVE  IInv'
<1> DEFINE a == curr[c]
<1>1. /\ a \in list /\ a \in Addr /\ is_free[a] /\ want[c] <= size[a]
      /\ want[c] \in Nat /\ size[a] \in Nat
  BY Numbers DEF take, IInv, Position, TypeOK
<1>2. /\ is_free' = [is_free EXCEPT ![a] = FALSE]
      /\ UNCHANGED <<size, next, list>>
      /\ used' = used + size[a]
      /\ live' = [live EXCEPT ![c] = @ \cup {a}]
      /\ asked' = [asked EXCEPT ![a] = want[c]]
      /\ op[c] = "take" /\ Leave(c)
  BY DEF take, charged
<1>3. \A d \in CPUs \ {c} : op[d] = "idle"
  BY <1>2, Alone DEF IInv
<1>4. TypeOK'
  <2>1. is_free' \in [Addr -> BOOLEAN]
    BY <1>1, <1>2, Zenon DEF IInv, TypeOK
  <2>2. used' \in Nat /\ live' \in [CPUs -> SUBSET Addr] /\ asked' \in [Addr -> Nat]
    BY <1>1, <1>2 DEF IInv, TypeOK
  <2> QED
    BY <1>2, <2>1, <2>2, Left DEF IInv, TypeOK
<1>5. Tiles'
  BY <1>2 DEF IInv, Tiles, block_phys_next
<1>6. /\ \A b \in Addr : b # a => (is_free'[b] <=> is_free[b]) /\ asked'[b] = asked[b]
      /\ ~is_free'[a] /\ asked'[a] = want[c]
      /\ live'[c] = live[c] \cup {a} /\ \A e \in CPUs \ {c} : live'[e] = live[e]
  BY SMTT(60), <1>1, <1>2 DEF IInv, TypeOK
<1>7. \A e \in CPUs : a \notin live[e]
  BY <1>1 DEF IInv, Given
<1>8. Given'
  <2>1. \A e \in CPUs : \A b \in live'[e] : b = a \/ b \in live[e]
    BY SMTT(60), <1>6
  <2>2. \A e \in CPUs : \A b \in live'[e] :
            b \in list' /\ ~is_free'[b] /\ asked'[b] <= size'[b]
    BY SMTT(60), <1>1, <1>2, <1>6, <2>1, Numbers DEF IInv, Given
  <2>3. \A e, f \in CPUs : e # f => live'[e] \cap live'[f] = {}
    BY SMTT(60), <1>6, <1>7 DEF IInv, Given
  <2>4. \A b \in list' : ~is_free'[b] => \E e \in CPUs : b \in live'[e]
    BY <1>2, <1>6, Numbers DEF IInv, Given
  <2> QED
    BY <2>2, <2>3, <2>4 DEF Given
<1>9. Pairs'
  <2>1. \A b \in list : next[b] # Null => ~(is_free[b] /\ is_free[next[b]])
    BY <1>2, <1>3 DEF IInv, Pairs
  <2>2. \A b \in list : next[b] # Null => ~(is_free'[b] /\ is_free'[next[b]])
    BY <2>1, <1>6, Numbers
  <2> QED
    BY <1>2, <2>2 DEF Pairs
<1> QED
  BY SMTT(60), <1>2, <1>4, <1>5, <1>8, <1>9, Left DEF IInv

\* Splitting a block: the rest b is a free block between a and what followed.
LEMMA StepTakeSplit ==
    ASSUME IInv, Locked, NEW c \in CPUs, take(c), splits(c, curr[c])
    PROVE  IInv'
<1> DEFINE a == curr[c]
           b == a + 3 + want[c]
<1>1. /\ a \in list /\ a \in Addr /\ a \in Nat /\ is_free[a]
      /\ want[c] \in Nat /\ size[a] \in Nat /\ size[a] > want[c] + 4
      /\ a + 3 + size[a] <= HeapWords
  <2>1. a \in list /\ is_free[a] /\ want[c] \in Nat
    BY SMTT(60) DEF take, IInv, Position, TypeOK
  <2>2. a \in Addr /\ a \in Nat /\ size[a] \in Nat /\ a + 3 + size[a] <= HeapWords
    BY <2>1, Numbers
  <2>3. size[a] > want[c] + 4
    BY <2>1, <2>2 DEF splits, Header
  <2> QED
    BY <2>1, <2>2, <2>3
<1>2. /\ b \in Nat /\ a < b /\ b < a + 3 + size[a]
      /\ b + 3 + (size[a] - want[c] - 3) = a + 3 + size[a]
      /\ size[a] - want[c] - 3 \in Nat
  BY <1>1
<1>3. b \in Addr
  BY <1>1, HeapAssumption DEF Addr, Header
<1>4. b \notin list
  <2> SUFFICES ASSUME b \in list PROVE FALSE
    OBVIOUS
  <2>1. a + 3 + size[a] <= b
    BY <1>1, <1>2, Numbers
  <2> QED
    BY <1>1, <1>2, <2>1
<1>5. /\ size' = [size EXCEPT ![b] = size[a] - want[c] - 3, ![a] = want[c]]
      /\ next' = [next EXCEPT ![b] = next[a], ![a] = b]
      /\ is_free' = [is_free EXCEPT ![b] = TRUE, ![a] = FALSE]
      /\ list' = list \cup {b}
      /\ used' = used + want[c]
      /\ live' = [live EXCEPT ![c] = @ \cup {a}]
      /\ asked' = [asked EXCEPT ![a] = want[c]]
      /\ op[c] = "take" /\ Leave(c)
  BY DEF take, charged, Header
<1>6. \A d \in CPUs \ {c} : op[d] = "idle"
  BY SMTT(60), <1>5, Alone DEF IInv
<1>7. /\ size'[a] = want[c] /\ size'[b] = size[a] - want[c] - 3
      /\ next'[a] = b /\ next'[b] = next[a]
      /\ \A e \in Addr : e # a /\ e # b => size'[e] = size[e] /\ next'[e] = next[e]
  BY SMTT(60), <1>1, <1>2, <1>3, <1>5 DEF IInv, TypeOK
<1>8. /\ ~is_free'[a] /\ is_free'[b]
      /\ \A e \in Addr : e # a /\ e # b => (is_free'[e] <=> is_free[e])
  BY <1>1, <1>2, <1>3, <1>5 DEF IInv, TypeOK
<1>9. /\ asked'[a] = want[c] /\ \A e \in Addr : e # a => asked'[e] = asked[e]
      /\ live'[c] = live[c] \cup {a} /\ \A e \in CPUs \ {c} : live'[e] = live[e]
  BY <1>1, <1>5 DEF IInv, TypeOK
<1>10. TypeOK'
  <2>1. is_free' \in [Addr -> BOOLEAN]
    BY <1>1, <1>3, <1>5, Zenon DEF IInv, TypeOK
  <2>2. want[c] \in 0 .. HeapWords /\ size[a] - want[c] - 3 \in 0 .. HeapWords
    BY SMTT(60), <1>1, <1>2, HeapAssumption
  <2>3. size' \in [Addr -> 0 .. HeapWords]
    BY Zenon, <1>5, <2>2 DEF IInv, TypeOK
  <2>4. next' \in [Addr -> Addr \cup {Null}]
    BY SMTT(60), <1>1, <1>3, <1>5 DEF IInv, TypeOK
  <2>5. used' \in Nat /\ live' \in [CPUs -> SUBSET Addr] /\ asked' \in [Addr -> Nat]
    BY <1>1, <1>5 DEF IInv, TypeOK
  <2>6. list' \subseteq Addr
    BY <1>3, <1>5 DEF IInv, TypeOK
  <2> QED
    BY Zenon, <1>5, <2>1, <2>3, <2>4, <2>5, <2>6, Left DEF IInv, TypeOK
<1>11. Tiles'
  <2>1. \A e \in list' : block_phys_next(e)' = e + 3 + size'[e]
    BY DEF block_phys_next, Header
  <2>2. /\ a + 3 + size'[a] = b /\ b + 3 + size'[b] = a + 3 + size[a]
    BY SMTT(60), <1>1, <1>2, <1>7
  <2>3. \A e \in list : e # a => size'[e] = size[e] /\ next'[e] = next[e]
    BY SMTT(60), <1>4, <1>7, Numbers
  <2>4. ASSUME NEW e \in list'
        PROVE  IF next'[e] = Null THEN e + 3 + size'[e] = HeapWords
               ELSE next'[e] \in list' /\ next'[e] = e + 3 + size'[e]
    <3>1. CASE e = a
      BY SMTT(60), <3>1, <1>2, <1>5, <1>7, <2>2 DEF Null
    <3>2. CASE e = b
      <4>1. next'[e] = next[a] /\ e + 3 + size'[e] = a + 3 + size[a]
        BY SMTT(60), <3>2, <1>7, <2>2
      <4>2. IF next[a] = Null THEN a + 3 + size[a] = HeapWords
            ELSE next[a] \in list /\ next[a] = a + 3 + size[a]
        BY <1>1, Numbers
      <4> QED
        BY SMTT(60), <4>1, <4>2, <1>5
    <3>3. CASE e # a /\ e # b
      <4>1. e \in list /\ next'[e] = next[e] /\ size'[e] = size[e]
        BY Zenon, <3>3, <1>5, <2>3
      <4>2. IF next[e] = Null THEN e + 3 + size[e] = HeapWords
            ELSE next[e] \in list /\ next[e] = e + 3 + size[e]
        BY SMTT(60), <4>1, Numbers
      <4> QED
        BY <4>1, <4>2, <1>5
    <3> QED
      BY SMTT(60), <3>1, <3>2, <3>3
  <2>5. ASSUME NEW e \in list', NEW f \in list', e < f
        PROVE  e + 3 + size'[e] <= f
    <3>1. CASE e = a /\ f # b
      <4>1. f \in list /\ f \in Nat /\ a + 3 + size[a] <= f
        BY SMTT(60), <3>1, <2>5, <1>1, <1>5, Numbers
      <4> QED
        BY SMTT(60), <3>1, <4>1, <1>1, <1>2, <2>2
    <3>2. CASE e = b
      <4>1. f \in list /\ f \in Nat
        BY SMTT(60), <3>2, <2>5, <1>2, <1>5, Numbers
      <4>2. a < f
        BY SMTT(60), <3>2, <4>1, <2>5, <1>1, <1>2
      <4>3. a + 3 + size[a] <= f
        BY <4>1, <4>2, <1>1, Numbers
      <4> QED
        BY SMTT(60), <3>2, <4>3, <2>2
    <3>3. CASE e # a /\ e # b /\ f # b
      BY Zenon, <3>3, <2>3, <2>5, <1>5, Numbers
    <3>4. CASE e # a /\ e # b /\ f = b
      <4>1. e \in list /\ e \in Nat /\ size[e] \in Nat /\ size'[e] = size[e]
        BY Zenon, <3>4, <2>3, <1>5, Numbers
      <4>2. CASE e < a
        <5>1. e + 3 + size[e] <= a
          BY SMTT(60), <4>1, <4>2, <1>1, Numbers
        <5> QED
          BY SMTT(60), <5>1, <4>1, <3>4, <1>1, <1>2
      <4>3. CASE a < e
        <5>1. a + 3 + size[a] <= e
          BY SMTT(60), <4>1, <4>3, <1>1, Numbers
        <5> QED
          BY SMTT(60), <5>1, <4>1, <3>4, <2>5, <1>1, <1>2
      <4> QED
        BY <3>4, <4>1, <4>2, <4>3, <1>1
    <3>5. CASE e = a /\ f = b
      BY SMTT(60), <3>5, <2>2, <1>2
    <3> QED
      BY SMTT(60), <3>1, <3>2, <3>3, <3>4, <3>5
  <2> QED
    BY Zenon, <1>5, <2>1, <2>4, <2>5 DEF IInv, Tiles
<1>12. \A e \in CPUs : a \notin live[e] /\ b \notin live[e]
  BY <1>1, <1>4 DEF IInv, Given
<1>13. Given'
  <2>1. \A e \in CPUs : \A f \in live'[e] : f = a \/ (f # a /\ f # b /\ f \in live[e])
    BY <1>9, <1>12
  <2>2. \A e \in CPUs : \A f \in live'[e] :
            f \in list' /\ ~is_free'[f] /\ asked'[f] <= size'[f]
    <3> SUFFICES ASSUME NEW e \in CPUs, NEW f \in live'[e]
                 PROVE  f \in list' /\ ~is_free'[f] /\ asked'[f] <= size'[f]
      BY SMTT(60)
    <3>1. CASE f = a
      BY SMTT(60), <3>1, <1>1, <1>5, <1>7, <1>8, <1>9
    <3>2. CASE f # a
      <4>1. f \in live[e] /\ f # b
        BY SMTT(60), <3>2, <2>1
      <4>2. f \in list /\ ~is_free[f] /\ asked[f] <= size[f]
        BY <4>1 DEF IInv, Given
      <4>3. f \in Addr
        BY SMTT(60), <4>2, Numbers
      <4> QED
        BY Zenon, <3>2, <4>1, <4>2, <4>3, <1>5, <1>7, <1>8, <1>9
    <3> QED
      BY <3>1, <3>2
  <2>3. \A e, f \in CPUs : e # f => live'[e] \cap live'[f] = {}
    BY <1>9, <1>12 DEF IInv, Given
  <2>4. \A f \in list' : ~is_free'[f] => \E e \in CPUs : f \in live'[e]
    <3> SUFFICES ASSUME NEW f \in list', ~is_free'[f]
                 PROVE  \E e \in CPUs : f \in live'[e]
      OBVIOUS
    <3>1. CASE f = a
      BY <3>1, <1>9
    <3>2. CASE f # a
      <4>1. f \in list /\ ~is_free[f]
        BY Zenon, <3>2, <1>5, <1>8, Numbers
      <4>2. PICK e \in CPUs : f \in live[e]
        BY <4>1 DEF IInv, Given
      <4> QED
        BY <4>2, <1>9
    <3> QED
      BY <3>1, <3>2
  <2> QED
    BY <2>2, <2>3, <2>4 DEF Given
<1>14. Pairs'
  <2>1. \A e \in list : next[e] # Null => ~(is_free[e] /\ is_free[next[e]])
    BY SMTT(60), <1>5, <1>6 DEF IInv, Pairs
  <2>2. next[a] # Null => ~is_free[next[a]] /\ next[a] \in list /\ next[a] # a /\ next[a] # b
    BY SMTT(60), <1>1, <1>4, <2>1, Numbers
  <2>3. next[a] # Null => ~is_free'[next[a]]
    BY SMTT(60), <2>2, <1>8, Numbers
  <2>4. ASSUME NEW e \in list', next'[e] # Null, is_free'[e], is_free'[next'[e]]
        PROVE  FALSE
    <3>1. CASE e = b
      BY SMTT(60), <3>1, <2>3, <2>4, <1>7
    <3>2. CASE e # b
      <4>1. e \in list /\ e # a /\ next'[e] = next[e] /\ is_free[e]
        BY Zenon, <3>2, <2>4, <1>5, <1>7, <1>8, Numbers
      <4>2. next[e] \in list /\ next[e] # b
        BY SMTT(60), <4>1, <2>4, <1>4, Numbers
      <4>3. next[e] = a \/ is_free[next[e]]
        BY <4>1, <4>2, <2>4, <1>8, Numbers
      <4> QED
        BY SMTT(60), <4>1, <4>2, <4>3, <2>1, <2>4, <1>1, <1>8
    <3> QED
      BY SMTT(60), <3>1, <3>2
  <2> QED
    BY <2>4 DEF Pairs
<1> QED
  BY SMTT(60), <1>5, <1>10, <1>11, <1>13, <1>14, Left DEF IInv

\* Merging a with the block b behind it, or moving on.
LEMMA StepMerge ==
    ASSUME IInv, Locked, NEW c \in CPUs, merge(c) PROVE IInv'
<1> DEFINE a == curr[c]
           b == next[a]
<1>1. /\ a \in list /\ a \in Addr /\ a \in Nat /\ size[a] \in Nat
      /\ b \in list /\ b \in Addr /\ b \in Nat /\ size[b] \in Nat
      /\ b = a + 3 + size[a] /\ b + 3 + size[b] <= HeapWords /\ b # Null
      /\ op[c] = "merge"
  <2>1. a \in list /\ b # Null /\ op[c] = "merge"
    BY DEF merge, IInv, Position
  <2>2. b \in list /\ b = a + 3 + size[a]
    BY <2>1, Numbers
  <2> QED
    BY SMTT(60), <2>1, <2>2, Numbers
<1>2. a < b
  BY <1>1
<1>3. \A d \in CPUs \ {c} : op[d] = "idle"
  BY SMTT(60), <1>1, Alone DEF IInv
<1>4. UNCHANGED <<is_free, used, lock, op, want, live, asked>>
  BY DEF merge
<1>5. Serial'
  BY <1>4 DEF IInv, Serial
<1>6. CASE ~mergeable(a)
  <2>1. UNCHANGED <<size, next, list>> /\ curr' = [curr EXCEPT ![c] = b]
    BY <1>6 DEF merge, after_keep
  <2>2. curr'[c] = b /\ \A d \in CPUs \ {c} : curr'[d] = curr[d]
    BY <2>1 DEF IInv, TypeOK
  <2>3. TypeOK'
    BY <1>1, <1>4, <2>1 DEF IInv, TypeOK
  <2>4. Tiles'
    BY SMTT(60), <2>1 DEF IInv, Tiles, block_phys_next
  <2>5. Position'
    <3>1. op'[c] = "merge" /\ curr'[c] \in list' /\ \A d \in CPUs \ {c} : op'[d] = "idle"
      BY <1>1, <1>3, <1>4, <2>1, <2>2
    <3> QED
      BY Zenon, <3>1 DEF Position
  <2>6. Given'
    BY SMTT(60), <1>4, <2>1 DEF IInv, Given
  <2>7. Pairs'
    <3> SUFFICES ASSUME NEW e \in list, next[e] # Null, is_free[e], is_free[next[e]]
                 PROVE  b <= e
      BY SMTT(60), <1>1, <1>4, <2>1, <2>2 DEF Pairs
    <3>1. a <= e /\ e \in Nat
      BY SMTT(60), <1>3, Numbers DEF IInv, Pairs
    <3>2. e # a
      BY SMTT(60), <1>1, <1>6 DEF mergeable, block_phys_next, Header
    <3>3. a + 3 + size[a] <= e
      BY SMTT(60), <3>1, <3>2, <1>1, Numbers
    <3> QED
      BY SMTT(60), <3>3, <1>1
  <2> QED
    BY SMTT(60), <1>5, <2>3, <2>4, <2>5, <2>6, <2>7 DEF IInv
<1>7. CASE mergeable(a)
  <2>1. /\ size' = [[size EXCEPT ![b] = 0] EXCEPT ![a] = size[a] + 3 + size[b]]
        /\ next' = [[next EXCEPT ![b] = Null] EXCEPT ![a] = next[b]]
        /\ list' = list \ {b}
        /\ curr' = [curr EXCEPT ![c] = a]
    BY SMTT(60), <1>7 DEF merge, forget, merged_size, after_merge, Header
  <2>2. /\ size'[a] = size[a] + 3 + size[b] /\ next'[a] = next[b]
        /\ \A e \in Addr : e # a /\ e # b => size'[e] = size[e] /\ next'[e] = next[e]
    BY <1>1, <1>2, <2>1 DEF IInv, TypeOK
  <2>3. curr' = curr
    BY SMTT(60), <2>1 DEF IInv, TypeOK
  <2>4. is_free[a] /\ is_free[b]
    BY <1>7 DEF mergeable
  <2>5. TypeOK'
    <3>1. size[a] + 3 + size[b] \in 0 .. HeapWords /\ 0 \in 0 .. HeapWords
      BY <1>1, HeapAssumption
    <3>2. size' \in [Addr -> 0 .. HeapWords]
      BY Zenon, <2>1, <3>1 DEF IInv, TypeOK
    <3>3. next' \in [Addr -> Addr \cup {Null}] /\ list' \subseteq Addr
      BY SMTT(60), <1>1, <2>1 DEF IInv, TypeOK
    <3> QED
      BY SMTT(60), <1>4, <2>3, <3>2, <3>3 DEF IInv, TypeOK
  <2>6. ASSUME NEW e \in list' PROVE e \in list /\ e # b /\ e \in Addr
    BY SMTT(60), <2>1, Numbers
  <2>7. ASSUME NEW e \in list, next[e] = b PROVE e = a
    <3>1. e \in Nat /\ size[e] \in Nat /\ b = e + 3 + size[e]
      BY SMTT(60), <2>7, <1>1, Numbers
    <3>2. CASE e < a
      <4>1. e + 3 + size[e] <= a
        BY SMTT(60), <3>2, <1>1, Numbers
      <4> QED
        BY SMTT(60), <4>1, <3>1, <1>1, <1>2
    <3>3. CASE a < e
      <4>1. a + 3 + size[a] <= e
        BY SMTT(60), <3>3, <1>1, Numbers
      <4> QED
        BY SMTT(60), <4>1, <3>1, <1>1
    <3> QED
      BY SMTT(60), <3>1, <3>2, <3>3, <1>1
  <2>8. next[b] = Null \/ (next[b] \in list /\ next[b] # b)
    BY <1>1, Numbers
  <2>9. Tiles'
    <3>1. \A e \in list' : block_phys_next(e)' = e + 3 + size'[e]
      BY SMTT(60) DEF block_phys_next, Header
    <3>2. a + 3 + size'[a] = b + 3 + size[b]
      BY <1>1, <2>2
    <3>3. ASSUME NEW e \in list'
          PROVE  IF next'[e] = Null THEN e + 3 + size'[e] = HeapWords
                 ELSE next'[e] \in list' /\ next'[e] = e + 3 + size'[e]
      <4>1. CASE e = a
        <5>1. IF next[b] = Null THEN b + 3 + size[b] = HeapWords
              ELSE next[b] \in list /\ next[b] = b + 3 + size[b]
          BY SMTT(60), <1>1, Numbers
        <5> QED
          BY SMTT(60), <4>1, <5>1, <3>2, <2>1, <2>2, <2>8
      <4>2. CASE e # a
        <5>1. e \in list /\ size'[e] = size[e] /\ next'[e] = next[e] /\ next[e] # b
          BY <4>2, <2>2, <2>6, <2>7
        <5>2. IF next[e] = Null THEN e + 3 + size[e] = HeapWords
              ELSE next[e] \in list /\ next[e] = e + 3 + size[e]
          BY <5>1, Numbers
        <5> QED
          BY SMTT(60), <5>1, <5>2, <2>1
      <4> QED
        BY SMTT(60), <4>1, <4>2
    <3>4. ASSUME NEW e \in list', NEW f \in list', e < f
          PROVE  e + 3 + size'[e] <= f
      <4>1. CASE e = a
        <5>1. f \in list /\ f # b /\ f \in Nat /\ a + 3 + size[a] <= f
          BY SMTT(60), <4>1, <3>4, <2>6, <1>1, Numbers
        <5>2. b < f
          BY SMTT(60), <5>1, <1>1
        <5>3. b + 3 + size[b] <= f
          BY SMTT(60), <5>1, <5>2, <1>1, Numbers
        <5> QED
          BY SMTT(60), <4>1, <5>3, <3>2
      <4>2. CASE e # a
        BY SMTT(60), <4>2, <3>4, <2>2, <2>6, Numbers
      <4> QED
        BY <4>1, <4>2
    <3>5. 0 \in list'
      BY SMTT(60), <1>1, <1>2, <2>1 DEF IInv, Tiles
    <3> QED
      BY <3>1, <3>3, <3>4, <3>5 DEF Tiles
  <2>10. Position'
    BY SMTT(60), <1>1, <1>2, <1>3, <1>4, <2>1, <2>3 DEF Position
  <2>11. Given'
    <3>1. \A e \in CPUs : \A f \in live[e] :
              f \in list' /\ ~is_free[f] /\ asked[f] <= size'[f]
      <4> SUFFICES ASSUME NEW e \in CPUs, NEW f \in live[e]
                   PROVE  f \in list' /\ ~is_free[f] /\ asked[f] <= size'[f]
        OBVIOUS
      <4>1. f \in list /\ ~is_free[f] /\ asked[f] <= size[f] /\ f # a /\ f # b
        BY SMTT(60), <2>4 DEF IInv, Given
      <4> QED
        BY Zenon, <4>1, <2>1, <2>2, Numbers
    <3>2. \A f \in list' : ~is_free[f] => \E e \in CPUs : f \in live[e]
      BY <2>6 DEF IInv, Given
    <3> QED
      BY <1>4, <3>1, <3>2 DEF IInv, Given
  <2>12. Pairs'
    <3> SUFFICES ASSUME NEW e \in list', next'[e] # Null, is_free[e], is_free[next'[e]]
                 PROVE  a <= e
      BY SMTT(60), <1>1, <1>4, <2>3 DEF Pairs
    <3>1. CASE e = a
      BY SMTT(60), <3>1, <1>1
    <3>2. CASE e # a
      <4>1. e \in list /\ next'[e] = next[e]
        BY <3>2, <2>2, <2>6
      <4> QED
        BY <4>1, <1>3 DEF IInv, Pairs
    <3> QED
      BY SMTT(60), <3>1, <3>2
  <2> QED
    BY <1>5, <2>5, <2>9, <2>10, <2>11, <2>12 DEF IInv
<1> QED
  BY SMTT(60), <1>6, <1>7

\* Every step of the allocator keeps the invariant.
LEMMA StepIInv == Locked /\ IInv /\ [Next]_vars => IInv'
<1> SUFFICES ASSUME Locked, IInv, [Next]_vars PROVE IInv'
  BY SMTT(60)
<1>1. CASE UNCHANGED vars
  BY <1>1 DEF vars, IInv, TypeOK, Tiles, block_phys_next, Serial, Position, Given, Pairs
<1>2. ASSUME NEW c \in CPUs, take(c) PROVE IInv'
  BY <1>2, StepTakeWhole, StepTakeSplit
<1> QED
  BY <1>1, <1>2, StepKmalloc, StepWalk, StepOutOfMemory, StepKfree, StepMerge,
     StepMerged DEF Next

\* The invariant holds throughout.
THEOREM Inductive == ASSUME Locked PROVE Spec => []IInv
  BY InitIInv, StepIInv, PTL DEF Spec

\* Type correctness of kmalloc and kfree: sizes, links and positions stay
\* inside the heap.
THEOREM TypeCorrect == ASSUME Locked PROVE Spec => []TypeOK
<1>1. IInv => TypeOK
  BY DEF IInv
<1> QED
  BY <1>1, Inductive, PTL

\* No word of the heap is ever lost: the list of kmalloc_locked tiles it.
THEOREM NothingLost == ASSUME Locked PROVE Spec => []Tiles
<1>1. IInv => Tiles
  BY DEF IInv
<1> QED
  BY <1>1, Inductive, PTL

\* Two blocks that kmalloc has given out, to whatever CPU, never overlap.
THEOREM BlocksDisjoint == ASSUME Locked PROVE Spec => []Disjoint
<1>1. IInv => Disjoint
  <2> SUFFICES ASSUME IInv, NEW c \in CPUs, NEW d \in CPUs,
                      NEW a \in live[c], NEW b \in live[d]
               PROVE  /\ a + Header + asked[a] <= HeapWords
                      /\ <<c, a>> # <<d, b>> => ~Overlap(a, b)
    BY DEF Disjoint
  <2>1. /\ a \in list /\ asked[a] <= size[a] /\ asked[a] \in Nat
        /\ b \in list /\ asked[b] <= size[b] /\ asked[b] \in Nat
    <3>1. a \in list /\ asked[a] <= size[a] /\ b \in list /\ asked[b] <= size[b]
      BY DEF IInv, Given
    <3> QED
      BY <3>1 DEF IInv, TypeOK
  <2>2. /\ a \in Nat /\ size[a] \in Nat /\ a + 3 + size[a] <= HeapWords
        /\ b \in Nat /\ size[b] \in Nat
    BY SMTT(60), <2>1, Numbers
  <2>3. a + Header + asked[a] <= HeapWords
    BY <2>1, <2>2, HeapAssumption DEF Header
  <2>4. ASSUME <<c, a>> # <<d, b>> PROVE a # b
    BY <2>4 DEF IInv, Given
  <2>5. CASE a < b
    <3>1. a + 3 + size[a] <= b
      BY SMTT(60), <2>1, <2>5, Numbers
    <3> QED
      BY SMTT(60), <3>1, <2>1, <2>2, <2>3 DEF Overlap, Header
  <2>6. CASE b < a
    <3>1. b + 3 + size[b] <= a
      BY <2>1, <2>6, Numbers
    <3> QED
      BY SMTT(60), <3>1, <2>1, <2>2, <2>3 DEF Overlap, Header
  <2> QED
    BY <2>2, <2>3, <2>4, <2>5, <2>6
<1> QED
  BY <1>1, Inductive, PTL

\* kfree_locked leaves no two free neighbours behind.
THEOREM FullyMerged == ASSUME Locked PROVE Spec => []Coalesced
<1>1. IInv => Coalesced
  BY Quiescent DEF Coalesced
<1> QED
  BY <1>1, Inductive, PTL

\* Freeing every block gives back the single block kmalloc_init made: no
\* sequence of calls fragments the heap for good.
THEOREM Recovers == ASSUME Locked PROVE Spec => []AllFreed
<1>1. IInv => AllFreed
  <2> SUFFICES ASSUME IInv, lock = NoCpu, Live = {}
               PROVE  list = {0} /\ size[0] = HeapWords - Header
    BY DEF AllFreed
  <2>1. \A a \in list : is_free[a]
    BY DEF IInv, Given, Live
  <2>2. 0 \in list
    BY DEF IInv, Tiles
  <2>3. next[0] = Null
    BY <2>1, <2>2, Quiescent, Numbers
  <2>4. 0 + 3 + size[0] = HeapWords /\ size[0] \in Nat
    BY <2>2, <2>3, Numbers
  <2>5. ASSUME NEW a \in list, a # 0 PROVE FALSE
    <3>1. a \in Nat /\ size[a] \in Nat /\ a + 3 + size[a] <= HeapWords /\ 0 < a
      BY <2>5, Numbers
    <3>2. 0 + 3 + size[0] <= a
      BY SMTT(60), <2>2, <3>1, Numbers
    <3> QED
      BY <2>4, <3>1, <3>2, HeapAssumption
  <2> QED
    BY <2>2, <2>4, <2>5, HeapAssumption DEF Header
<1> QED
  BY <1>1, Inductive, PTL

-----------------------------------------------------------------------------
\* The free blocks that the loop of kmalloc_locked has left behind are all too
\* small for the request.
Passed ==
    \A c \in CPUs : op[c] = "walk" =>
        \A a \in list : (curr[c] = Null \/ a < curr[c]) /\ is_free[a] => size[a] < want[c]

\* A walk goes on from a block that does not fit, to the next one.
LEMMA StepPassed ==
    ASSUME IInv, Passed, Locked, [Next]_vars PROVE Passed'
<1>1. CASE UNCHANGED vars
  BY SMTT(60), <1>1 DEF vars, Passed
<1>2. ASSUME NEW c \in CPUs, kmalloc(c) PROVE Passed'
  <2>1. op'[c] = "walk" /\ curr'[c] = 0 /\ \A d \in CPUs \ {c} : op'[d] = "idle"
    BY <1>2, Quiescent DEF kmalloc, Enter, IInv, TypeOK
  <2>2. \A a \in list' : ~(a < 0)
    BY <1>2, Numbers DEF kmalloc
  <2> QED
    BY SMTT(60), <2>1, <2>2 DEF Passed, Null
<1>3. ASSUME NEW c \in CPUs, walk(c) PROVE Passed'
  <2> DEFINE a == curr[c]
  <2>1. /\ a \in list /\ a \in Nat /\ size[a] \in Nat /\ want[c] \in Nat
        /\ a + 3 + size[a] <= HeapWords
    BY SMTT(60), <1>3, Numbers DEF walk, IInv, Position, TypeOK
  <2>2. block_in_heap(a)
    BY SMTT(60), <2>1, Numbers, HeapAssumption DEF block_in_heap, Header
  <2>3. \A d \in CPUs \ {c} : op[d] = "idle" /\ op'[d] = "idle"
    BY SMTT(60), <1>3, Alone DEF walk, IInv, TypeOK
  <2>4. UNCHANGED <<size, next, is_free, want, list>>
    BY SMTT(60), <1>3 DEF walk
  <2>5. CASE fits(c, a)
    BY SMTT(60), <1>3, <2>3, <2>5 DEF walk, Passed, IInv, TypeOK
  <2>6. CASE ~fits(c, a)
    <3>1. curr'[c] = next[a]
      BY SMTT(60), <1>3, <2>6 DEF walk, IInv, TypeOK
    <3>2. is_free[a] => size[a] < want[c]
      BY SMTT(60), <2>1, <2>2, <2>6 DEF fits
    <3>3. ASSUME NEW b \in list, next[a] = Null \/ b < next[a], b # a PROVE b < a
      <4>1. b \in Nat /\ size[b] \in Nat /\ b + 3 + size[b] <= HeapWords
        BY SMTT(60), Numbers
      <4>2. CASE a < b
        <5>1. a + 3 + size[a] <= b
          BY SMTT(60), <2>1, <4>2, Numbers
        <5> QED
          BY SMTT(60), <5>1, <4>1, <3>3, <2>1, Numbers, HeapAssumption
      <4> QED
        BY SMTT(60), <4>1, <4>2, <3>3, <2>1
    <3>4. \A b \in list : (next[a] = Null \/ b < next[a]) /\ is_free[b] => size[b] < want[c]
      BY ZenonT(60), <1>3, <3>2, <3>3 DEF walk, Passed
    <3> QED
      BY SMTT(60), <2>3, <2>4, <3>1, <3>4 DEF Passed
  <2> QED
    BY SMTT(60), <2>5, <2>6
<1>4. ASSUME NEW c \in CPUs, op[c] # "idle", Leave(c) PROVE Passed'
  BY <1>4, Left DEF Passed
<1>5. ASSUME NEW c \in CPUs, kfree(c) PROVE Passed'
  <2>1. \A d \in CPUs : op'[d] # "walk"
    BY SMTT(60), <1>5, Quiescent DEF kfree, Enter, IInv, TypeOK
  <2> QED
    BY SMTT(60), <2>1 DEF Passed
<1>6. ASSUME NEW c \in CPUs, merge(c) PROVE Passed'
  <2>1. \A d \in CPUs : op'[d] # "walk"
    BY <1>6, Alone DEF merge, IInv
  <2> QED
    BY <2>1 DEF Passed
<1> QED
  BY SMTT(60), <1>1, <1>2, <1>3, <1>4, <1>5, <1>6 DEF Next, out_of_memory, take, merged

\* kmalloc returns NULL only when it has seen every block and none fits.
THEOREM FailsOnlyIfFull == ASSUME Locked PROVE Spec => []NullOnlyIfFull
<1>1. Init => Passed
  BY DEF Init, Passed
<1>2. Locked /\ IInv /\ Passed /\ [Next]_vars => Passed'
  BY StepPassed
<1>3. Passed => NullOnlyIfFull
  BY DEF Passed, NullOnlyIfFull
<1> QED
  BY <1>1, <1>2, <1>3, Inductive, PTL DEF Spec

-----------------------------------------------------------------------------
InUse == UNION {payload(a) : a \in Live}

\* A word in use lies behind the header of a block that some CPU holds.
LEMMA InUseIs ==
    \A w : w \in InUse <=> \E c \in CPUs : \E a \in live[c] : w \in payload(a)
  BY DEF InUse, Live

\* The words behind the headers on the list: as many as the header says, in the
\* heap, and shared with no other block.
PayloadsApart ==
    /\ \A a \in list : /\ IsFiniteSet(payload(a))
                       /\ Cardinality(payload(a)) = size[a]
                       /\ payload(a) \subseteq 0 .. HeapWords
    /\ \A a, b \in list : a # b => payload(a) \cap payload(b) = {}

LEMMA Payload == IInv => PayloadsApart
<1> SUFFICES ASSUME IInv PROVE PayloadsApart
  OBVIOUS
<1>1. ASSUME NEW a \in list
      PROVE  /\ IsFiniteSet(payload(a)) /\ Cardinality(payload(a)) = size[a]
             /\ payload(a) \subseteq 0 .. HeapWords
  <2>1. a \in Nat /\ size[a] \in Nat /\ a + 3 + size[a] <= HeapWords
    BY Numbers
  <2>2. payload(a) = a + 3 .. a + 3 + size[a] - 1
    BY DEF payload, Header
  <2>3. a + 3 \in Int /\ a + 3 + size[a] - 1 \in Int
    BY <2>1
  <2>4. IsFiniteSet(payload(a))
    BY <2>2, <2>3, FS_Interval
  <2>5. Cardinality(payload(a)) = IF a + 3 > a + 3 + size[a] - 1 THEN 0
                                  ELSE (a + 3 + size[a] - 1) - (a + 3) + 1
    BY <2>2, <2>3, FS_Interval
  <2>6. payload(a) \subseteq 0 .. HeapWords
    BY <2>1, <2>2, HeapAssumption
  <2> QED
    BY SMTT(60), <2>1, <2>4, <2>5, <2>6
<1>2. ASSUME NEW a \in list, NEW b \in list, a < b
      PROVE  payload(a) \cap payload(b) = {}
  <2>1. a \in Nat /\ b \in Nat /\ size[a] \in Nat /\ size[b] \in Nat /\ a + 3 + size[a] <= b
    BY <1>2, Numbers
  <2> QED
    BY <2>1 DEF payload, Header
<1>3. \A a, b \in list : a # b => a < b \/ b < a
  BY Numbers
<1> QED
  BY <1>1, <1>2, <1>3 DEF PayloadsApart

\* The words in use are finitely many.
LEMMA InUseFinite == ASSUME IInv PROVE IsFiniteSet(InUse)
<1>1. InUse \subseteq 0 .. HeapWords
  BY InUseIs, Payload DEF PayloadsApart, IInv, Given
<1>2. IsFiniteSet(0 .. HeapWords)
  BY FS_Interval, HeapAssumption
<1>3. InUse \in SUBSET (0 .. HeapWords)
  BY <1>1
<1> QED
  BY <1>2, <1>3, FS_Subset, Zenon

\* Taking one block more into use adds its words.
LEMMA Adds ==
    ASSUME NEW S, NEW T, IsFiniteSet(S), IsFiniteSet(T), S \cap T = {}
    PROVE  Cardinality(S \cup T) = Cardinality(S) + Cardinality(T)
<1>1. Cardinality(S \cup T) = Cardinality(S) + Cardinality(T) - Cardinality(S \cap T)
  BY FS_Union, Zenon
<1>2. Cardinality(S) \in Nat /\ Cardinality(T) \in Nat
  BY FS_CardinalityType, Zenon
<1>3. Cardinality(S \cap T) = 0
  BY FS_EmptySet, Zenon
<1> QED
  BY <1>1, <1>2, <1>3

\* Blocks in use keep their words when sizes change only elsewhere.
LEMMA SameUse ==
    ASSUME UsedExact, IInv, UNCHANGED <<used, live>>,
           \A c \in CPUs : \A a \in live[c] : size'[a] = size[a]
    PROVE  UsedExact'
<1>1. InUse' = InUse
  <2>1. \A c \in CPUs : \A a \in live[c] : payload(a)' = payload(a)
    BY DEF payload
  <2> QED
    BY <2>1 DEF InUse, Live
<1> QED
  BY <1>1 DEF UsedExact, InUse

\* kmalloc_locked charges the size of the block it gives out.
LEMMA TakeCounts ==
    ASSUME UsedExact, IInv, IInv', Locked, NEW c \in CPUs, take(c) PROVE UsedExact'
<1>0. PICK a \in list : a = curr[c]
  BY SMTT(60) DEF take, IInv, Position
<1>1. /\ a \in list /\ a \in Nat /\ is_free[a] /\ want[c] \in Nat /\ size[a] \in Nat
      /\ a \in Addr
  BY SMTT(60), <1>0, Numbers DEF take, IInv, Position, TypeOK
<1>2. /\ used' = used + size'[a]
      /\ live'[c] = live[c] \cup {a} /\ \A d \in CPUs \ {c} : live'[d] = live[d]
  <2>1. /\ live' = [live EXCEPT ![c] = @ \cup {a}]
        /\ used' = used + charged(c, a)
    BY <1>0 DEF take
  <2>2. size'[a] = charged(c, a)
    <3>1. CASE splits(c, a)
      <4>1. a + Header + want[c] # a
        BY SMTT(60), <1>1 DEF Header
      <4> QED
        BY <1>0, <1>1, <3>1, <4>1 DEF take, charged, IInv, TypeOK
    <3>2. CASE ~splits(c, a)
      BY SMTT(60), <1>0, <3>2 DEF take, charged
    <3> QED
      BY SMTT(60), <3>1, <3>2
  <2> QED
    BY SMTT(60), <2>1, <2>2 DEF IInv, TypeOK
<1>3. \A d \in CPUs : \A b \in live[d] : b \in list /\ b # a /\ size'[b] = size[b]
  <2> SUFFICES ASSUME NEW d \in CPUs, NEW b \in live[d]
               PROVE  b \in list /\ b # a /\ size'[b] = size[b]
    BY SMTT(60)
  <2>1. b \in list /\ b # a /\ b \in Addr
    BY SMTT(60), <1>1, Numbers DEF IInv, Given
  <2>2. CASE splits(c, a)
    <3>1. b # a + Header + want[c]
      <4>1. size[a] > want[c] + 4
        BY SMTT(60), <1>1, <2>2 DEF splits, Header
      <4>2. b \in Nat /\ (a < b => a + 3 + size[a] <= b)
        BY SMTT(60), <1>1, <2>1, Numbers
      <4> QED
        BY <1>1, <4>1, <4>2 DEF Header
    <3> QED
      BY <1>0, <2>1, <2>2, <3>1 DEF take, IInv, TypeOK
  <2>3. CASE ~splits(c, a)
    BY <1>0, <2>1, <2>3 DEF take
  <2> QED
    BY SMTT(60), <2>1, <2>2, <2>3
<1>4. \A d \in CPUs : \A b \in live[d] : payload(b)' = payload(b)
  BY <1>3 DEF payload
<1>5. InUse' = InUse \cup payload(a)'
  <2>1. \A w : w \in InUse' <=> \E d \in CPUs : \E b \in live'[d] : w \in payload(b)'
    BY DEF InUse, Live
  <2>2. \A w : w \in InUse <=> \E d \in CPUs : \E b \in live[d] : w \in payload(b)
    BY InUseIs
  <2>3. \A d \in CPUs : \A b : b \in live'[d] <=> b \in live[d] \/ (d = c /\ b = a)
    BY SMTT(60), <1>2
  <2>4. \A w : w \in InUse' <=> w \in InUse \/ w \in payload(a)'
    <3> SUFFICES ASSUME NEW w PROVE w \in InUse' <=> w \in InUse \/ w \in payload(a)'
      OBVIOUS
    <3>1. ASSUME NEW d \in CPUs, NEW b \in live[d], w \in payload(b) PROVE w \in InUse'
      <4>1. b \in live'[d] /\ w \in payload(b)'
        BY SMTT(60), <1>4, <2>3, <3>1
      <4> QED
        BY <2>1, <4>1
    <3>2. w \in payload(a)' => w \in InUse'
      <4>1. a \in live'[c]
        BY SMTT(60), <1>2
      <4> QED
        BY <2>1, <4>1
    <3>3. ASSUME NEW d \in CPUs, NEW b \in live'[d], w \in payload(b)'
          PROVE  w \in InUse \/ w \in payload(a)'
      <4>1. CASE b \in live[d]
        BY SMTT(60), <1>4, <2>2, <3>3, <4>1
      <4>2. CASE d = c /\ b = a
        BY <3>3, <4>2
      <4> QED
        BY SMTT(60), <2>3, <4>1, <4>2
    <3> QED
      BY <2>1, <2>2, <3>1, <3>2, <3>3
  <2> QED
    BY <2>4
<1>6. /\ \A b \in list' : IsFiniteSet(payload(b)') /\ Cardinality(payload(b)') = size'[b]
      /\ \A b, d \in list' : b # d => payload(b)' \cap payload(d)' = {}
  <2>1. IInv' => PayloadsApart'
    BY Payload, PTL
  <2> QED
    BY <2>1 DEF PayloadsApart
<1>7. list \subseteq list'
  BY SMTT(60) DEF take
<1>8. InUse \cap payload(a)' = {}
  <2> SUFFICES ASSUME NEW w \in InUse, w \in payload(a)' PROVE FALSE
    OBVIOUS
  <2>1. PICK d \in CPUs : \E b \in live[d] : w \in payload(b)
    BY InUseIs
  <2>2. PICK b \in live[d] : w \in payload(b)
    BY <2>1
  <2>3. b \in list' /\ a \in list' /\ b # a /\ w \in payload(b)'
    BY Zenon, <1>1, <1>3, <1>4, <1>7, <2>2
  <2> QED
    BY <1>6, <2>3
<1>9. IsFiniteSet(InUse) /\ IsFiniteSet(payload(a)') /\ Cardinality(payload(a)') = size'[a]
  BY SMTT(60), <1>1, <1>6, <1>7, InUseFinite
<1>10. Cardinality(InUse') = Cardinality(InUse) + size'[a]
  BY SMTT(60), <1>5, <1>8, <1>9, Adds
<1> QED
  BY SMTT(60), <1>2, <1>10 DEF UsedExact, InUse

\* kfree_locked takes off what kmalloc_locked charged for the block.
LEMMA FreeCounts ==
    ASSUME UsedExact, IInv, Locked, NEW c \in CPUs, kfree(c) PROVE UsedExact'
<1>1. PICK d \in CPUs : \E a \in live[d] :
         /\ live' = [live EXCEPT ![d] = @ \ {a}]
         /\ asked' = [asked EXCEPT ![a] = 0]
         /\ is_free' = [is_free EXCEPT ![a] = TRUE]
         /\ used' = IF is_free[a] \/ ~Locked THEN used
                    ELSE IF used >= size[a] THEN used - size[a] ELSE 0
  BY Zenon DEF kfree
<1>2. PICK a \in live[d] :
         /\ live' = [live EXCEPT ![d] = @ \ {a}]
         /\ asked' = [asked EXCEPT ![a] = 0]
         /\ is_free' = [is_free EXCEPT ![a] = TRUE]
         /\ used' = IF is_free[a] \/ ~Locked THEN used
                    ELSE IF used >= size[a] THEN used - size[a] ELSE 0
  BY ZenonT(60), <1>1
<1>3. a \in list /\ ~is_free[a] /\ size[a] \in Nat /\ used \in Nat /\ size' = size
  BY SMTT(60), Numbers DEF IInv, Given, TypeOK, kfree
<1>4. live'[d] = live[d] \ {a} /\ \A e \in CPUs \ {d} : live'[e] = live[e] /\ a \notin live[e]
  BY SMTT(60), <1>2 DEF IInv, Given, TypeOK
<1>5. \A e \in CPUs : \A b : b \in live[e] <=> b \in live'[e] \/ (e = d /\ b = a)
  BY <1>4
<1>6. \A b : payload(b)' = payload(b)
  BY <1>3 DEF payload
<1>7. \A w : w \in InUse' <=> \E e \in CPUs : \E b \in live'[e] : w \in payload(b)
  BY SMTT(60), <1>6 DEF InUse, Live
<1>8. InUse = InUse' \cup payload(a)
  <2>1. \A w : w \in InUse <=> w \in InUse' \/ w \in payload(a)
    BY SMTT(60), <1>5, <1>7, InUseIs
  <2> QED
    BY <2>1
<1>9. InUse' \cap payload(a) = {}
  <2> SUFFICES ASSUME NEW w \in InUse', w \in payload(a) PROVE FALSE
    OBVIOUS
  <2>1. PICK e \in CPUs : \E b \in live'[e] : w \in payload(b)
    BY <1>7
  <2>2. PICK b \in live'[e] : w \in payload(b)
    BY SMTT(60), <2>1
  <2>3. b \in list /\ b # a
    BY SMTT(60), <1>4, <1>5 DEF IInv, Given
  <2> QED
    BY <1>3, <2>2, <2>3, Payload DEF PayloadsApart
<1>10. IsFiniteSet(InUse') /\ IsFiniteSet(payload(a)) /\ Cardinality(payload(a)) = size[a]
  <2>1. InUse' \in SUBSET InUse
    BY <1>8
  <2>2. IsFiniteSet(InUse')
    BY <2>1, InUseFinite, FS_Subset, Zenon
  <2> QED
    BY <1>3, <2>2, Payload DEF PayloadsApart
<1>11. Cardinality(InUse) = Cardinality(InUse') + size[a] /\ Cardinality(InUse') \in Nat
  <2>1. Cardinality(InUse') \in Nat
    BY <1>10, FS_CardinalityType, Zenon
  <2> QED
    BY <1>8, <1>9, <1>10, <2>1, Adds
<1>12. used' = used - size[a]
  <2>1. used = Cardinality(InUse)
    BY SMTT(60) DEF UsedExact, InUse
  <2> QED
    BY <1>2, <1>3, <1>11, <2>1
<1> QED
  BY SMTT(60), <1>3, <1>11, <1>12 DEF UsedExact, InUse

LEMMA StepCounts ==
    ASSUME UsedExact, IInv, IInv', Locked, [Next]_vars PROVE UsedExact'
<1>1. CASE UNCHANGED <<size, used, live>>
  BY <1>1, SameUse
<1>2. ASSUME NEW c \in CPUs, merge(c) PROVE UsedExact'
  <2> DEFINE a == curr[c]
             b == next[a]
  <2>1. a \in list /\ b \in list
    BY Zenon, <1>2, Numbers DEF merge, IInv, Position
  <2>2. \A d \in CPUs : \A e \in live[d] : size'[e] = size[e]
    <3>1. CASE ~mergeable(a)
      <4>1. size' = size
        BY ZenonT(60), <1>2, <3>1 DEF merge
      <4> QED
        BY Zenon, <4>1
    <3>2. CASE mergeable(a)
      <4>1. \A d \in CPUs : \A e \in live[d] : e # a /\ e # b /\ e \in Addr
        BY Zenon, <3>2, Numbers DEF mergeable, IInv, Given
      <4> QED
        BY <1>2, <2>1, <3>2, <4>1 DEF merge, forget, IInv, TypeOK
    <3> QED
      BY SMTT(60), <3>1, <3>2
  <2> QED
    BY Zenon, <1>2, <2>2, SameUse DEF merge
<1> QED
  BY <1>1, <1>2, TakeCounts, FreeCounts DEF Next, kmalloc, walk, out_of_memory, merged, vars

\* g_used is exact after any sequence of calls: what kmalloc adds, kfree takes
\* off, although blocks are split and merged in between.
THEOREM UsedIsCounted == ASSUME Locked PROVE Spec => []UsedExact
<1>1. Init => UsedExact
  <2> SUFFICES ASSUME Init PROVE UsedExact
    OBVIOUS
  <2>1. UNION {payload(a) : a \in Live} = {}
    BY DEF Init, Live
  <2> QED
    BY <2>1, FS_EmptySet, Zenon DEF Init, UsedExact
<1>2. Locked /\ IInv /\ IInv' /\ UsedExact /\ [Next]_vars => UsedExact'
  BY StepCounts
<1> QED
  BY <1>1, <1>2, Inductive, PTL DEF Spec

\* kmalloc and kfree keep the heap in order, between calls and during them.
THEOREM HeapStaysIntact == ASSUME Locked PROVE Spec => []HeapIntact
  BY TypeCorrect, NothingLost, BlocksDisjoint, FullyMerged, Recovers, PTL DEF HeapIntact
=============================================================================
