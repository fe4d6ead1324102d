-------------------------------- MODULE Ext2 --------------------------------
(***************************************************************************)
(* The file system of kernel/src/ext2_fs.c: the copy of the inode table,   *)
(* the bitmaps and the superblock that it keeps in memory, the disk, and   *)
(* the single block writes by which an operation changes the disk.         *)
(*                                                                         *)
(* Operations run one at a time under the big kernel lock (module Bkl).    *)
(* An action computes what the call does to the memory copy and the list   *)
(* of its disk writes in program order; WriteBlock carries the writes out  *)
(* one by one, and the power may fail between two of them.  Directory      *)
(* blocks and pointer tables are never cached: the code reads them from    *)
(* the disk each time, as do the operators below.                          *)
(*                                                                         *)
(* Sizes are in blocks, names have one length so that a directory block    *)
(* holds a fixed number of entries, and a file has direct blocks and one   *)
(* table of further ones.  File contents, link counts, owners, modes and   *)
(* times, the double table and a full kernel heap are left out.            *)
(***************************************************************************)
EXTENDS Integers, Sequences, FiniteSetsExt

CONSTANTS Names,         \* names of files and directories
          Parents,       \* paths of the directories operations work in
          Journal,       \* the name of /journal.log
          InodesCount,   \* superblock.inodes_count
          FirstInode,    \* first inode number that is given out (12)
          BlocksCount,   \* superblock.blocks_count
          FirstData,     \* superblock.first_data_block
          NDirect,       \* direct block pointers of an inode (12)
          NTable,        \* pointers in a table block
          PerBlock,      \* entries in a directory block
          Writes,        \* the writes that are made: <<first block, number of blocks>>
          CrashOps       \* operations during which the power may fail, once

Root   == 2
Inodes == {Root} \cup FirstInode .. InodesCount
Blocks == FirstData .. BlocksCount - 1
Direct == 0 .. NDirect - 1
Table  == 0 .. NTable - 1
Dots   == {".", ".."}

Operations == {"create", "mkdir", "unlink", "write", "persist"}

ASSUME Ext2Assumption ==
    /\ InodesCount \in Nat /\ InodesCount > Root /\ FirstInode \in Nat /\ FirstInode > Root
    /\ BlocksCount \in Nat /\ FirstData \in Nat \ {0} /\ FirstData < BlocksCount
    /\ NDirect \in Nat \ {0} /\ NTable \in Nat \ {0}
    /\ PerBlock \in Nat /\ PerBlock >= 2
    /\ Names \cap Dots = {}
    /\ Parents \subseteq Seq(Names)
    /\ Journal \in Names
    /\ Writes \subseteq Nat \X Nat
    /\ CrashOps \subseteq Operations

VARIABLES mem,    \* struct ext2_filesystem
          disk,   \* what has reached the disk
          log,    \* block writes the operation in progress still has to do
          op,     \* that operation, or "none"
          clean   \* the power has not failed in the middle of an operation

vars == <<mem, disk, log, op, clean>>

Kinds == {"none", "file", "dir"}

InodeRecord == [mode : Kinds, size : Nat,
                block : [Direct -> Blocks \cup {0}], table : Blocks \cup {0}]

NoTable == [i \in Table |-> 0]

(***************************************************************************)
(* The state an operation works on: m is the memory copy, d the disk with  *)
(* the operation's own writes applied, log these writes.                   *)
(***************************************************************************)
Start == [m |-> mem, d |-> disk, log |-> <<>>]

\* The disk after one block write.
Apply(d, w) ==
    CASE w.kind = "inode"  -> [d EXCEPT !.inode[w.at] = w.to]
      [] w.kind = "super"  -> [d EXCEPT !.free = w.to]
      [] w.kind = "blocks" -> [d EXCEPT !.blocks = w.to]
      [] w.kind = "inodes" -> [d EXCEPT !.inodes = w.to]
      [] w.kind = "dir"    -> [d EXCEPT !.dir[w.at] = w.to, !.table[w.at] = NoTable]
      [] w.kind = "table"  -> [d EXCEPT !.table[w.at] = w.to, !.dir[w.at] = {}]
      [] w.kind = "data"   -> [d EXCEPT !.table[w.at] = NoTable, !.dir[w.at] = {}]

Put(S, kind, at, to) ==
    LET w == [kind |-> kind, at |-> at, to |-> to]
    IN  [S EXCEPT !.d = Apply(@, w), !.log = Append(@, w)]

write_inode(S, n)   == Put(S, "inode", n, S.m.inode[n])
write_superblock(S) == Put(S, "super", 0, S.m.free)
write_bitmaps(S)    == Put(Put(S, "blocks", 0, S.m.blocks), "inodes", 0, S.m.inodes)

-----------------------------------------------------------------------------
(* The bitmaps. *)

\* Fault variant: the scan goes one block too far.
blocks_scannedTooFar == FirstData .. BlocksCount

blocks_scanned == Blocks

\* ext2_alloc_block: the first free block, 0 if there is none.
free_block_number(S) ==
    LET unused == blocks_scanned \ S.m.blocks
    IN  IF unused = {} THEN 0 ELSE Min(unused)

take_block(S, b) == [S EXCEPT !.m.blocks = @ \cup {b}, !.m.free.blocks = @ - 1]

\* Fault variant: the count of free blocks is not kept.
free_blocksUncounted(S, B) == [S EXCEPT !.m.blocks = @ \ B]

\* ext2_free_block for a set of blocks
free_blocks(S, B) ==
    [S EXCEPT !.m.blocks = @ \ B, !.m.free.blocks = @ + Cardinality(B)]

\* ext2_alloc_inode_num: the first free inode, 0 if there is none.
free_inode_number(S) ==
    LET unused == (FirstInode .. InodesCount) \ S.m.inodes
    IN  IF unused = {} THEN 0 ELSE Min(unused)

take_inode(S, n) == [S EXCEPT !.m.inodes = @ \cup {n}, !.m.free.inodes = @ - 1]
free_inode(S, n) == [S EXCEPT !.m.inodes = @ \ {n}, !.m.free.inodes = @ + 1]

-----------------------------------------------------------------------------
(* Directories. *)

IsDir(S, n) == n < InodesCount /\ S.m.inode[n].mode = "dir"

DirectBlocks(S, n) == {S.m.inode[n].block[i] : i \in Direct} \ {0}

\* find_entry_in_dir: the inode a directory has under a name, or 0.  The test
\* of the directory's number leaves out the last inode.  Directories fill their
\* direct blocks in order, so that no block comes after an absent one.
find_entry_in_dir(S, n, name) ==
    LET found == {e \in UNION {S.d.dir[b] : b \in DirectBlocks(S, n)} : e[1] = name}
    IN  IF ~IsDir(S, n) \/ S.m.inode[n].size = 0 \/ found = {} THEN 0
        ELSE (CHOOSE e \in found : TRUE)[2]

\* One component of a path.
step_into(S, n, name) == IF n = 0 THEN 0 ELSE find_entry_in_dir(S, n, name)

\* ext2_lookup_inode, component by component
lookup_inode(S, path) ==
    LET upto[k \in 0 .. Len(path)] == IF k = 0 THEN Root ELSE step_into(S, upto[k - 1], path[k])
    IN  upto[Len(path)]

\* Fault variant: a directory that grows is not written back.
grow_dirInMemory(S, n, i, b, entry) ==
    Put([take_block(S, b) EXCEPT !.m.inode[n].block[i] = b, !.m.inode[n].size = @ + 1],
        "dir", b, {entry})

\* A new block for a directory, with its first entry.
grow_dir(S, n, i, b, entry) ==
    write_inode(
        Put([take_block(S, b) EXCEPT !.m.inode[n].block[i] = b, !.m.inode[n].size = @ + 1],
            "dir", b, {entry}), n)

\* add_entry_to_dir: into the first block with room, or into a new one.
add_entry_to_dir(S, n, ino, name) ==
    LET block == S.m.inode[n].block
        roomy == {i \in Direct : block[i] = 0 \/ Cardinality(S.d.dir[block[i]]) < PerBlock}
        at    == Min(roomy)
        new   == free_block_number(S)
    IN  IF ~IsDir(S, n) \/ roomy = {} \/ (block[at] = 0 /\ new = 0)
        THEN [s |-> S, ok |-> FALSE]
        ELSE IF block[at] = 0
        THEN [s |-> grow_dir(S, n, at, new, <<name, ino>>), ok |-> TRUE]
        ELSE [s |-> Put(S, "dir", block[at], S.d.dir[block[at]] \cup {<<name, ino>>}),
              ok |-> TRUE]

-----------------------------------------------------------------------------
(* The calls of the file system.  Each takes the state it finds and returns  *)
(* the one it leaves.                                                        *)

\* ext2_create; ino is 0 when it fails.  Of the pointers that the last file
\* with this inode left behind only the first is cleared.
ext2_create(S, parent, name) ==
    LET n == free_inode_number(S)
        S1 == [take_inode(S, n) EXCEPT
                 !.m.inode[n].mode = "file", !.m.inode[n].size = 0,
                 !.m.inode[n].block[0] = 0]
        added == add_entry_to_dir(S1, parent, n, name)
    IN  IF n = 0 THEN [s |-> S, ino |-> 0]
        ELSE IF ~added.ok THEN [s |-> free_inode(S1, n), ino |-> 0]
        ELSE [s |-> write_bitmaps(write_superblock(write_inode(added.s, n))), ino |-> n]

\* ext2_mkdir
ext2_mkdir(S, parent, name) ==
    LET n == free_inode_number(S)
        b == free_block_number(S)
        S1 == [take_block(take_inode(S, n), b) EXCEPT
                 !.m.inode[n].mode = "dir", !.m.inode[n].size = 1,
                 !.m.inode[n].block[0] = b]
        S2 == Put(S1, "dir", b, {<<".", n>>, <<"..", parent>>})
        added == add_entry_to_dir(S2, parent, n, name)
    IN  IF n = 0 \/ b = 0 THEN S
        ELSE IF ~added.ok THEN free_inode(free_blocks(S2, {b}), n)
        ELSE write_bitmaps(write_superblock(write_inode(write_inode(added.s, n), parent)))

\* "ensure it is empty (only . and ..)": the entries of the first block.
looks_empty(S, n) ==
    S.m.inode[n].mode = "dir" /\ S.m.inode[n].block[0] # 0
        => Cardinality(S.d.dir[S.m.inode[n].block[0]]) <= 2

\* The direct blocks go back; the table and what hangs on it does not.
release_inode(S, n) ==
    [free_blocks(S, DirectBlocks(S, n)) EXCEPT
       !.m.inode[n].block = [i \in Direct |-> 0],
       !.m.inode[n].size = 0]

\* Fault variant: the bitmaps are written before the inode.
unlink_writesBitmapsFirst(S, n) ==
    write_superblock(write_inode(write_bitmaps(free_inode(S, n)), n))

unlink_writes(S, n) ==
    write_bitmaps(write_superblock(free_inode(write_inode(S, n), n)))

\* The direct blocks of the parent in which ext2_unlink finds the name.
blocks_with(S, parent, name) ==
    {i \in Direct : /\ S.m.inode[parent].block[i] # 0
                    /\ \E e \in S.d.dir[S.m.inode[parent].block[i]] : e[1] = name}

\* ext2_unlink: the entry goes first, then comes the test for an empty
\* directory, then the inode is released.
ext2_unlink(S, parent, name) ==
    LET b == S.m.inode[parent].block[Min(blocks_with(S, parent, name))]
        e == CHOOSE x \in S.d.dir[b] : x[1] = name
        S1 == Put(S, "dir", b, S.d.dir[b] \ {e})
    IN  IF looks_empty(S1, e[2]) THEN unlink_writes(release_inode(S1, e[2]), e[2]) ELSE S1

\* ext2_truncate: the blocks stay for the next write.
ext2_truncate(S, n) ==
    IF n < InodesCount THEN write_inode([S EXCEPT !.m.inode[n].size = 0], n) ELSE S

\* ext2_bmap_alloc: the block behind index bi of file n, 0 on failure, after the
\* allocations on the way.
bmap_direct(S, n, bi) ==
    LET new == free_block_number(S)
        old == S.m.inode[n].block[bi]
    IN  IF old # 0 THEN [s |-> S, b |-> old]
        ELSE IF new = 0 THEN [s |-> S, b |-> 0]
        ELSE [s |-> [take_block(S, new) EXCEPT !.m.inode[n].block[bi] = new], b |-> new]

\* The pointer table of a file, allocated and zeroed when there is none yet.
bmap_table(S, n) ==
    LET new == free_block_number(S)
    IN  IF S.m.inode[n].table # 0 \/ new = 0 THEN S
        ELSE [Put(take_block(S, new), "table", new, NoTable) EXCEPT !.m.inode[n].table = new]

bmap_indirect(S, n, idx) ==
    LET T   == bmap_table(S, n)
        t   == T.m.inode[n].table
        new == free_block_number(T)
    IN  IF t = 0 THEN [s |-> T, b |-> 0]
        ELSE IF T.d.table[t][idx] # 0 THEN [s |-> T, b |-> T.d.table[t][idx]]
        ELSE IF new = 0 THEN [s |-> T, b |-> 0]
        ELSE [s |-> Put(take_block(T, new), "table", t, [T.d.table[t] EXCEPT ![idx] = new]),
              b |-> new]

bmap_alloc(S, n, bi) ==
    CASE bi < NDirect          -> bmap_direct(S, n, bi)
      [] bi \in NDirect .. NDirect + NTable - 1 -> bmap_indirect(S, n, bi - NDirect)
      [] OTHER                 -> [s |-> S, b |-> 0]

\* One block of a write; `to` is the index up to which the file is written, and
\* stays behind when the disk is full.
write_chunk(R, n, bi) ==
    LET mapped == bmap_alloc(R.s, n, bi)
    IN  IF R.to # bi THEN R
        ELSE IF mapped.b = 0 THEN [R EXCEPT !.s = mapped.s]
        ELSE [s |-> Put(mapped.s, "data", mapped.b, 0), to |-> bi + 1]

\* The chunks of a write, block by block.
write_chunks(S, n, from, count) ==
    LET upto[k \in 0 .. count] ==
            IF k = 0 THEN [s |-> S, to |-> from] ELSE write_chunk(upto[k - 1], n, from + k - 1)
    IN  upto[count]

\* ext2_write of `count` blocks at block `from`.
ext2_write(S, n, from, count) ==
    LET W  == write_chunks(S, n, from, count)
        S1 == [W.s EXCEPT !.m.inode[n].size = IF W.to > @ THEN W.to ELSE @]
    IN  IF n >= InodesCount \/ S.m.inode[n].mode = "dir" THEN S
        ELSE write_bitmaps(write_superblock(write_inode(S1, n)))

-----------------------------------------------------------------------------
(* The operations of the layer above, whole. *)

Idle == op = "none"

\* The end of an operation: S.m is the memory copy, and the writes of S.log are
\* started.  Those of an operation during which the power cannot fail (any more)
\* are one step, for nothing looks at the disk before they are done.
Do(name, S) ==
    /\ mem' = S.m
    /\ IF name \in CrashOps /\ clean /\ S.log # <<>>
       THEN log' = S.log /\ op' = name /\ UNCHANGED disk
       ELSE disk' = S.d /\ UNCHANGED <<log, op>>
    /\ UNCHANGED clean

\* Fault variant: the check that the name is free is missing.
vacantUnchecked(S, parent, name) == parent # 0

\* What ext2_create and ext2_mkdir check: the parent is there, the name is not.
vacant(S, parent, name) == parent # 0 /\ find_entry_in_dir(S, parent, name) = 0

\* The inode of a path, after its creation if there was none; ino 0 on failure.
lookup_or_create(S, path, name) ==
    LET n == lookup_inode(S, Append(path, name))
        parent == lookup_inode(S, path)
    IN  IF n # 0 THEN [s |-> S, ino |-> n]
        ELSE IF ~vacant(S, parent, name) THEN [s |-> S, ino |-> 0]
        ELSE ext2_create(S, parent, name)

\* vfs_create
create(path, name) ==
    /\ Idle
    /\ vacant(Start, lookup_inode(Start, path), name)
    /\ Do("create", ext2_create(Start, lookup_inode(Start, path), name).s)

\* vfs_mkdir.  Nobody makes a directory of the journal's name.
mkdir(path, name) ==
    /\ Idle
    /\ Append(path, name) # <<Journal>>
    /\ vacant(Start, lookup_inode(Start, path), name)
    /\ Do("mkdir", ext2_mkdir(Start, lookup_inode(Start, path), name))

\* vfs_unlink
unlink(path, name) ==
    LET parent == lookup_inode(Start, path)
    IN  /\ Idle
        /\ parent # 0 /\ blocks_with(Start, parent, name) # {}
        /\ Do("unlink", ext2_unlink(Start, parent, name))

\* vfs_write, and vfs_write_all with from = 0: the path is looked up each time,
\* and the file made anew if it is gone.
write(path, name, from, count) ==
    LET made == lookup_or_create(Start, path, name)
    IN  /\ Idle
        /\ made.ino # 0
        /\ Do("write", ext2_write(made.s, made.ino, from, count))

\* The main loop saves the journal.
persist(count) ==
    LET made == lookup_or_create(Start, <<>>, Journal)
    IN  /\ Idle
        /\ made.ino # 0
        /\ Do("persist", ext2_write(ext2_truncate(made.s, made.ino), made.ino, 0, count))

-----------------------------------------------------------------------------
(* The disk, and the power. *)

\* ext2_write_block
WriteBlock ==
    /\ log # <<>>
    /\ disk' = Apply(disk, Head(log))
    /\ log' = Tail(log)
    /\ op' = IF Len(log) = 1 THEN "none" ELSE op
    /\ UNCHANGED <<mem, clean>>

\* What ext2_mount reads.
OnDisk(d) == [inode |-> d.inode, blocks |-> d.blocks, inodes |-> d.inodes, free |-> d.free]

\* A restart: between operations, or with the power failing in the middle of one.
mount ==
    /\ Idle \/ (op \in CrashOps /\ clean)
    /\ mem' = OnDisk(disk)
    /\ log' = <<>> /\ op' = "none"
    /\ clean' = (clean /\ Idle)
    /\ UNCHANGED disk

-----------------------------------------------------------------------------
NewInode == [mode |-> "none", size |-> 0, block |-> [i \in Direct |-> 0], table |-> 0]

\* ext2_format: a root directory in the first data block.
Init ==
    LET root == [NewInode EXCEPT !.mode = "dir", !.size = 1, !.block[0] = FirstData]
    IN  /\ mem = [inode  |-> [n \in Inodes |-> IF n = Root THEN root ELSE NewInode],
                  blocks |-> {FirstData},
                  inodes |-> {Root},
                  free   |-> [blocks |-> BlocksCount - FirstData - 1, inodes |-> InodesCount - 1]]
        /\ disk = [inode  |-> mem.inode, blocks |-> mem.blocks,
                   inodes |-> mem.inodes, free |-> mem.free,
                   dir    |-> [b \in Blocks |-> IF b = FirstData
                                                THEN {<<".", Root>>, <<"..", Root>>} ELSE {}],
                   table  |-> [b \in Blocks |-> NoTable]]
        /\ log = <<>> /\ op = "none" /\ clean = TRUE

Next ==
    \/ \E path \in Parents, name \in Names :
        \/ create(path, name) \/ mkdir(path, name)
        \/ unlink(path, name)
        \/ \E w \in Writes : write(path, name, w[1], w[2])
    \/ persist(1)
    \/ WriteBlock
    \/ mount

Spec == Init /\ [][Next]_vars

-----------------------------------------------------------------------------
(* Properties. *)

\* The values of the memory copy and of the disk (struct ext2_filesystem).
TypeOK ==
    /\ mem.inode \in [Inodes -> InodeRecord]
    /\ mem.blocks \subseteq Blocks /\ mem.inodes \subseteq Inodes
    /\ mem.free \in [blocks : Nat, inodes : Nat]
    /\ disk.dir \in [Blocks -> SUBSET ((Names \cup Dots) \X Inodes)]
    /\ disk.table \in [Blocks -> [Table -> Blocks \cup {0}]]
    /\ op \in Operations \cup {"none"}
    /\ clean \in BOOLEAN

\* The places that hold a block number: a direct pointer, the table pointer, or
\* a pointer in the table of a live inode.
Places == mem.inodes \X ({"direct"} \X Direct \cup {"table"} \X {0} \cup {"in"} \X Table)

Held(p) ==
    LET inode == mem.inode[p[1]]
        i     == p[2][2]
    IN  CASE p[2][1] = "direct" -> inode.block[i]
          [] p[2][1] = "table"  -> inode.table
          [] OTHER              -> IF inode.table = 0 THEN 0 ELSE disk.table[inode.table][i]

\* No block belongs to two files, or to one file twice, and every block a file
\* holds is marked in the bitmap, also when the power fails in an unlink, and
\* also when a file inherits the pointer table that unlink leaves in the inode
\* (ext2_alloc_block, ext2_unlink, ext2_bmap_alloc).
BlocksOwnedOnce ==
    Idle => /\ \A p, q \in Places : Held(p) # 0 /\ Held(p) = Held(q) => p = q
            /\ \A p \in Places : Held(p) # 0 => Held(p) \in mem.blocks

Entries(n) ==
    UNION {{<<b, e>> : e \in {x \in disk.dir[b] : x[1] \notin Dots}} :
             b \in {mem.inode[n].block[i] : i \in Direct} \ {0}}

LiveDirs == {n \in mem.inodes : mem.inode[n].mode = "dir"}

\* Every name leads to an inode that is in use, no directory has a name twice
\* and no inode has two names (ext2_create, ext2_mkdir, ext2_unlink).
NamesResolve ==
    Idle => \A m, n \in LiveDirs : \A x \in Entries(m), y \in Entries(n) :
                /\ x[2][2] \in mem.inodes
                /\ x[2][2] = y[2][2] => m = n /\ x = y
                /\ m = n /\ x[2][1] = y[2][1] => x = y

\* Unless the power failed in mid-operation, the free counts of the superblock
\* are those of the bitmaps.
CountsExact ==
    clean => /\ mem.free.blocks = Cardinality(Blocks \ mem.blocks)
             /\ mem.free.inodes = InodesCount - Cardinality(mem.inodes)

\* Between two operations a mount would find what is in memory: every operation
\* has written all that it changed ("without this the directory only existed in
\* RAM and vanished on the next mount", ext2_mkdir).
DiskMatches ==
    Idle => /\ disk.blocks = mem.blocks /\ disk.inodes = mem.inodes /\ disk.free = mem.free
            /\ \A n \in mem.inodes : disk.inode[n] = mem.inode[n]

\* The bitmaps, the counts and the inodes, in memory and on the disk, agree.
DiskExact == TypeOK /\ CountsExact /\ DiskMatches

\* "Refuses to remove non-empty directories" (the comment on ext2_unlink): a
\* directory with entries never loses its own name.
FullDirsStayNamed ==
    Idle => \A n \in LiveDirs \ {Root} :
                Entries(n) # {} => \E m \in LiveDirs : \E x \in Entries(m) : x[2][2] = n

=============================================================================
