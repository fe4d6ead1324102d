----------------------------- MODULE UserMemory -----------------------------
(***************************************************************************)
(* The memory of a user process: its heap and its image.                   *)
(***************************************************************************)
EXTENDS Integers, Sequences, FiniteSets, FiniteSetsExt, SequencesExt

(***************************************************************************)
(* The break of a user process (process_sbrk, process_free_heap_chunks in  *)
(* kernel/src/process.c).  Growth is taken from the kernel heap in one run *)
(* of pages where there is one and in ever smaller runs where there is     *)
(* not, one page more than needed for the alignment, and rolled back when  *)
(* it cannot be had.  The heap hands out the first run that is long        *)
(* enough; the rest of the kernel takes and returns pages at any time.     *)
(***************************************************************************)
CONSTANTS Phys,        \* pages of the kernel heap, 1..n
          Limit,       \* pages of the user image
          Unit,        \* bytes of a page
          MaxChunks,   \* PROCESS_HEAP_MAX_CHUNKS
          Increments

VARIABLES brk, map, chunks, free,
          taken    \* pages the rest of the kernel holds

sbrkvars == <<brk, map, chunks, free, taken>>

Run(first, n) == first..(first + n - 1)
PageUp(b) == (b + Unit - 1) \div Unit

\* kmalloc of n pages: 0 when no run of free pages is long enough.
kmalloc(avail, n) ==
    LET fits == {p \in Phys : Run(p, n) \subseteq avail} IN IF fits = {} THEN 0 ELSE Min(fits)

SbrkInit ==
    /\ brk = 0 /\ map = [v \in 0..Limit-1 |-> 0] /\ chunks = <<>>
    /\ free = Phys /\ taken = {}

\* The batch is halved, to whole pages, down to a single one.
halved(batch) == Max({1, batch \div 2})

\* One batch: the longest of batch, batch/2, ... that kmalloc can give.
RECURSIVE batched(_, _)
batched(avail, batch) ==
    IF kmalloc(avail, batch + 1) # 0 THEN <<kmalloc(avail, batch + 1), batch>>
    ELSE IF batch <= 1 THEN <<0, 0>> ELSE batched(avail, halved(batch))

\* The loop that maps from page v up to page end; s holds what has been done.
RECURSIVE grow(_, _, _)
grow(s, v, end) ==
    IF v = end THEN s
    ELSE IF Len(s.chunks) >= MaxChunks THEN [s EXCEPT !.failed = TRUE]
    ELSE LET got == batched(s.free, end - v) IN
         IF got[1] = 0 THEN [s EXCEPT !.failed = TRUE]
         ELSE grow([s EXCEPT !.chunks = Append(@, <<got[1], got[2] + 1>>),
                             !.free = @ \ Run(got[1], got[2] + 1),
                             !.map = [w \in DOMAIN @ |-> IF w \in v..(v + got[2] - 1)
                                                         THEN got[1] + w - v ELSE @[w]]],
                   v + got[2], end)

\* Fault variant: the pages are unmapped and the batches forgotten, not freed.
rolledBackLeak(s) == [s EXCEPT !.map = map, !.chunks = chunks]

\* A failure unmaps every page of this growth and frees its batches.
rolledBack(s) == [s EXCEPT !.map = map, !.chunks = chunks, !.free = free]

process_sbrk(inc) ==
    LET end == PageUp(brk + inc)
        s == grow([map |-> map, chunks |-> chunks, free |-> free, failed |-> FALSE], PageUp(brk), end)
        done == IF s.failed THEN rolledBack(s) ELSE s
    IN IF inc < 0 \/ brk + inc > Limit * Unit
       THEN UNCHANGED sbrkvars
       ELSE \E r \in {done} :
              /\ brk' = IF r.failed THEN brk ELSE brk + inc
              /\ map' = r.map /\ chunks' = r.chunks /\ free' = r.free
              /\ UNCHANGED taken

\* The process is reaped; another one starts with an empty heap.
process_free_heap_chunks ==
    /\ free' = free \cup UNION {Run(chunks[i][1], chunks[i][2]) : i \in DOMAIN chunks}
    /\ chunks' = <<>> /\ brk' = 0 /\ map' = [v \in 0..Limit-1 |-> 0] /\ UNCHANGED taken

\* The rest of the kernel.
Take(p) == /\ p \in free /\ free' = free \ {p} /\ taken' = taken \cup {p}
           /\ UNCHANGED <<brk, map, chunks>>
Return(p) == /\ p \in taken /\ free' = free \cup {p} /\ taken' = taken \ {p}
             /\ UNCHANGED <<brk, map, chunks>>

SbrkNext ==
    \/ \E inc \in Increments : process_sbrk(inc)
    \/ process_free_heap_chunks
    \/ \E p \in Phys : Take(p) \/ Return(p)

-----------------------------------------------------------------------------
\* State is well typed.
SbrkTypeOK ==
    /\ brk \in 0..Limit * Unit /\ map \in [0..Limit-1 -> Phys \cup {0}]
    /\ free \subseteq Phys /\ taken \subseteq Phys

\* The pages below the break are mapped and no others, each to a page of its
\* own that the process has from the kernel heap, and no page is lost or held
\* twice, however fragmented the heap was and wherever a growth failed ("a
\* failed sbrk leaves the address space exactly as it was").
HeapIsMapped ==
    LET owned == UNION {Run(chunks[i][1], chunks[i][2]) : i \in DOMAIN chunks}
    IN  /\ \A v \in 0..Limit-1 : map[v] # 0 <=> v < PageUp(brk)
        /\ \A v, w \in 0..Limit-1 : map[v] # 0 /\ map[v] = map[w] => v = w
        /\ \A v \in 0..Limit-1 : map[v] # 0 => map[v] \in owned
        /\ Phys = owned \cup free \cup taken
        /\ Cardinality(Phys) = Cardinality(owned) + Cardinality(free) + Cardinality(taken)

-----------------------------------------------------------------------------
(***************************************************************************)
(* Loading programs (process_load_image_slot, elf64_validate) into memory  *)
(* from the image heap or, when that heap could not be set up, from the    *)
(* main heap behind the overlap guard (process_kmalloc_no_image_overlap),  *)
(* and the page tables that show each process its own memory               *)
(* (paging_map_user_process, paging_build_process_tables).                 *)
(* Addresses count bytes; physical memory is the heap 0 .. Phys - 1        *)
(* followed by one static stack for every slot.                            *)
(***************************************************************************)
CONSTANTS Slots,        \* 0 .. PROCESS_MAX_COUNT - 1
          Programs,     \* names -> [size, kind, table, segs] of an ELF file
          Heap,         \* bytes of heap
          Page,         \* bytes of a page
          ImageMax,     \* PROCESS_USER_IMAGE_SIZE
          UserPages,    \* pages of the user region; the stack ends it
          StackPages,
          QuarantineCap,
          Bytes         \* values a program writes

VARIABLES mem,          \* physical memory
          proc,         \* slot -> its loaded process or None
          quarantine,   \* blocks the last guarded allocation set aside
          ready,        \* is there an image heap?
          view          \* what each process should see

loadvars == <<mem, proc, quarantine, ready, view>>

None == [loaded |-> FALSE]
StackBytes == StackPages * Page
StackAt(s) == Heap + s * StackBytes
StackBase == (UserPages - StackPages) * Page
Memory == 0..(Heap + Cardinality(Slots) * StackBytes - 1)

align_up(n) == ((n + Page - 1) \div Page) * Page

Live == {s \in Slots : proc[s].loaded}
BlockOf(s) == proc[s].alloc .. (proc[s].alloc + proc[s].size - 1)
ImageOf(s) == proc[s].pages .. (proc[s].pages + proc[s].cap - 1)

LoadInit ==
    /\ mem = [a \in Memory |-> 0] /\ proc = [s \in Slots |-> None]
    /\ quarantine = 0 /\ ready \in BOOLEAN /\ view = [s \in Slots |-> <<>>]

-----------------------------------------------------------------------------
(* The program header table must end within the file.                      *)
elf64_validate(file) == file.kind = "exec" /\ file.table <= file.size

(* A segment: where it goes, its bytes in the file (file offset, data), and *)
(* its size in memory.                                                      *)
Acceptable(size, segs) ==
    \A i \in DOMAIN segs : /\ Len(segs[i].data) <= segs[i].room
                           /\ segs[i].at + segs[i].room <= ImageMax
                           /\ segs[i].off + Len(segs[i].data) <= size

capacity(segs) ==
    LET ends == {segs[i].at + segs[i].room : i \in DOMAIN segs}
    IN  align_up(IF ends = {} THEN 0 ELSE CHOOSE e \in ends : \A f \in ends : f <= e)

(* The blocks an allocator may return: the image heap's are free; the main *)
(* heap is only trusted not to return one it was not given back.           *)
blockSizeTight(cap) == cap

blockSize(cap) == cap + Page

Fits(b, n) == b + n <= Heap
overlaps_live_image(b, n) == \E t \in Live : (b..(b + n - 1)) \cap ImageOf(t) # {}

image_alloc(n) ==
    {b \in 0..(Heap - 1) : Fits(b, n) /\ \A t \in Live : (b..(b + n - 1)) \cap BlockOf(t) = {}}

(* Blocks that overlap a live image are set aside, at most as many as the  *)
(* quarantine holds, and given back by the next guarded allocation: how    *)
(* many there can be before a clear block is found.                        *)
setAside(n) ==
    0..Cardinality({b \in 0..(Heap - 1) : Fits(b, n) /\ overlaps_live_image(b, n)})

guarded_alloc(n) == {b \in 0..(Heap - 1) : Fits(b, n) /\ ~overlaps_live_image(b, n)}

(* The image is zeroed and the segments copied, in order.                  *)
writers(segs, a) == {i \in DOMAIN segs : a >= segs[i].at /\ a < segs[i].at + Len(segs[i].data)}

contents(segs, a) ==
    LET ws == writers(segs, a)
        i == CHOOSE j \in ws : \A k \in ws : k <= j
    IN  IF ws = {} THEN 0 ELSE segs[i].data[a - segs[i].at + 1]

copiedOver(pages, segs, cap, s) ==
    [a \in Memory |-> IF a >= pages /\ a < pages + cap /\ writers(segs, a - pages) # {}
                      THEN contents(segs, a - pages) ELSE mem[a]]

copied(pages, segs, cap, s) ==
    [a \in Memory |->
        IF a >= pages /\ a < pages + cap THEN contents(segs, a - pages)
        ELSE IF a >= StackAt(s) /\ a < StackAt(s) + StackBytes THEN 0
        ELSE mem[a]]

(* paging_map_user_process: the image from the base, the stack at the end; *)
(* everything else is unmapped.                                            *)
paging_map_user_process(pages, cap, s) ==
    [p \in 0..(UserPages - 1) |->
        IF p >= UserPages - StackPages THEN StackAt(s) + (p - (UserPages - StackPages)) * Page
        ELSE IF p < cap \div Page THEN pages + p * Page ELSE -1]

Place(s, p, b, cap) ==
    LET segs == Programs[p].segs
        pages == align_up(b)
    IN  /\ mem' = copied(pages, segs, cap, s)
        /\ proc' = [proc EXCEPT ![s] = [loaded |-> TRUE, alloc |-> b, size |-> blockSize(cap), pages |-> pages,
                                        cap |-> cap, table |-> paging_map_user_process(pages, cap, s)]]
        /\ view' = [view EXCEPT ![s] = [a \in (0..(cap - 1)) \cup (StackBase..(UserPages * Page - 1)) |->
                                          IF a < cap THEN contents(segs, a) ELSE 0]]

process_load_image_slot(s, p) ==
    LET cap == capacity(Programs[p].segs)
    IN  /\ ~proc[s].loaded /\ elf64_validate(Programs[p])
        /\ Acceptable(Programs[p].size, Programs[p].segs) /\ cap > 0
        /\ \/ /\ ready /\ UNCHANGED <<quarantine, ready>>
              /\ \E b \in image_alloc(blockSize(cap)) : Place(s, p, b, cap)
           \/ /\ ~ready /\ UNCHANGED ready
              /\ quarantine' \in {q \in setAside(blockSize(cap)) : q < QuarantineCap}
              /\ \E b \in guarded_alloc(blockSize(cap)) : Place(s, p, b, cap)

(* No block, or every block tried overlapped a live image.                 *)
LoadFails(s, p) ==
    /\ ~proc[s].loaded /\ ~ready
    /\ quarantine' \in {q \in setAside(blockSize(capacity(Programs[p].segs))) : q <= QuarantineCap}
    /\ UNCHANGED <<mem, proc, ready, view>>

translate(s, a) == proc[s].table[a \div Page] + (a % Page)

UserWrite(s, a, v) ==
    /\ proc[s].loaded /\ a \in DOMAIN view[s]
    /\ mem' = [mem EXCEPT ![translate(s, a)] = v] /\ view' = [view EXCEPT ![s][a] = v]
    /\ UNCHANGED <<proc, quarantine, ready>>

(* process_reap frees the image; the bytes stay.                           *)
process_reap(s) ==
    /\ proc[s].loaded /\ proc' = [proc EXCEPT ![s] = None] /\ view' = [view EXCEPT ![s] = <<>>]
    /\ UNCHANGED <<mem, quarantine, ready>>

LoadNext ==
    \E s \in Slots :
        \/ \E p \in DOMAIN Programs : process_load_image_slot(s, p) \/ LoadFails(s, p)
        \/ \E a \in DOMAIN view[s], v \in Bytes : UserWrite(s, a, v)
        \/ process_reap(s)

LoadTypeOK == mem \in [Memory -> Bytes \cup {0}] /\ ready \in BOOLEAN /\ quarantine \in 0..QuarantineCap

(***************************************************************************)
(* Through its page tables every process sees its own memory: the file's   *)
(* bytes and zeros when it starts, then what it wrote, whatever the other  *)
(* processes load, write and free around it, and nothing else is mapped    *)
(* (process_load_image_slot, paging_map_user_process, the overlap guard).  *)
(***************************************************************************)
SeesItsOwnMemory ==
    \A s \in Live :
        /\ \A a \in DOMAIN view[s] : mem[translate(s, a)] = view[s][a]
        /\ \A a \in 0..(UserPages * Page - 1) :
             proc[s].table[a \div Page] # -1 => a \in DOMAIN view[s]
=============================================================================
