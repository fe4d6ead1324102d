---------------------------- MODULE Ext2CallProof ---------------------------
(***************************************************************************)
(* What the calls of module Ext2 do to the state they work on.             *)
(***************************************************************************)
EXTENDS Ext2StepProof

-----------------------------------------------------------------------------
(* The fields of the state after each of the small operations. *)

\* The fields of the state an operation works on.
Shape(S) ==
    /\ DOMAIN S = {"m", "d", "log"}
    /\ DOMAIN S.m = {"inode", "blocks", "inodes", "free"}
    /\ DOMAIN S.d = {"inode", "blocks", "inodes", "free", "dir", "table"}

\* R is S with other contents of memory.
Mem(R, S, I, B, N, F) ==
    /\ Shape(R) /\ R.d = S.d /\ R.log = S.log
    /\ R.m.inode = I /\ R.m.blocks = B /\ R.m.inodes = N /\ R.m.free = F

\* Setting the bit of a block.
LEMMA TakeBlockIs ==
    ASSUME NEW S, Shape(S), NEW b
    PROVE  Mem(take_block(S, b), S, S.m.inode, S.m.blocks \cup {b}, S.m.inodes,
               [S.m.free EXCEPT !.blocks = @ - 1])
BY Zenon DEF take_block, Shape, Mem

\* Clearing the bits of blocks.
LEMMA FreeBlocksIs ==
    ASSUME NEW S, Shape(S), NEW B
    PROVE  Mem(free_blocks(S, B), S, S.m.inode, S.m.blocks \ B, S.m.inodes,
               [S.m.free EXCEPT !.blocks = @ + Cardinality(B)])
BY Zenon DEF free_blocks, Shape, Mem

\* Setting the bit of an inode.
LEMMA TakeInodeIs ==
    ASSUME NEW S, Shape(S), NEW n
    PROVE  Mem(take_inode(S, n), S, S.m.inode, S.m.blocks, S.m.inodes \cup {n},
               [S.m.free EXCEPT !.inodes = @ - 1])
BY Zenon DEF take_inode, Shape, Mem

\* Clearing the bit of an inode.
LEMMA FreeInodeIs ==
    ASSUME NEW S, Shape(S), NEW n
    PROVE  Mem(free_inode(S, n), S, S.m.inode, S.m.blocks, S.m.inodes \ {n},
               [S.m.free EXCEPT !.inodes = @ + 1])
BY Zenon DEF free_inode, Shape, Mem

\* R is S with another inode n in memory.
Inode(R, S, n, mode, size, block, table) ==
    /\ Mem(R, S, R.m.inode, S.m.blocks, S.m.inodes, S.m.free)
    /\ R.m.inode \in [Inodes -> InodeRecord]
    /\ \A k \in Inodes \ {n} : R.m.inode[k] = S.m.inode[k]
    /\ R.m.inode[n].mode = mode /\ R.m.inode[n].size = size
    /\ R.m.inode[n].block = block /\ R.m.inode[n].table = table

\* Assigning inode n in memory.
LEMMA SetInode ==
    ASSUME NEW S, NEW R, S.m.inode \in [Inodes -> InodeRecord],
           Mem(R, S, R.m.inode, S.m.blocks, S.m.inodes, S.m.free),
           NEW n \in Inodes, NEW K \in InodeRecord, Upd(R.m.inode, S.m.inode, n, K)
    PROVE  Inode(R, S, n, K.mode, K.size, K.block, K.table)
<1>1. /\ R.m.inode \in [Inodes -> InodeRecord] /\ R.m.inode[n] = K
      /\ \A k \in Inodes \ {n} : R.m.inode[k] = S.m.inode[k]
  BY Zenon DEF Upd
<1> QED
  BY Zenon, <1>1 DEF Inode

\* ext2_create and ext2_mkdir: mode, size and the first block are set.
SetStart(S, n, mode, size, b) ==
    [S EXCEPT !.m.inode[n].mode = mode, !.m.inode[n].size = size, !.m.inode[n].block[0] = b]

\* The fields ext2_create and ext2_mkdir assign.
LEMMA SetStartIs ==
    ASSUME NEW S, Shape(S), S.m.inode \in [Inodes -> InodeRecord], NEW n \in Inodes,
           NEW mode \in Kinds, NEW size \in Nat, NEW b \in Blocks \cup {0}
    PROVE  Inode(SetStart(S, n, mode, size, b), S, n, mode, size,
                 [S.m.inode[n].block EXCEPT ![0] = b], S.m.inode[n].table)
<1> DEFINE I == S.m.inode
           K == [I[n] EXCEPT !.mode = mode, !.size = size, !.block[0] = b]
           R == SetStart(S, n, mode, size, b)
<1>1. /\ K \in InodeRecord /\ K.mode = mode /\ K.size = size /\ K.table = S.m.inode[n].table
      /\ K.block = [S.m.inode[n].block EXCEPT ![0] = b]
  BY Zenon DEF InodeRecord
<1>2. R.m.inode = [I EXCEPT ![n].mode = mode, ![n].size = size, ![n].block[0] = b]
  BY Zenon DEF Shape, SetStart
<1>3. Mem(R, S, R.m.inode, S.m.blocks, S.m.inodes, S.m.free)
  BY Zenon DEF Shape, Mem, SetStart
<1>4. Upd(R.m.inode, S.m.inode, n, K)
  <2>1. [I EXCEPT ![n].mode = mode, ![n].size = size, ![n].block[0] = b] = [I EXCEPT ![n] = K]
    <3>1. I \in [Inodes -> InodeRecord]
      BY Zenon
    <3> HIDE DEF I
    <3> QED BY Zenon, <3>1
  <2> HIDE DEF R, K
  <2> QED BY Zenon, <1>2, <2>1 DEF Upd
<1> HIDE DEF R, K
<1>5. Inode(R, S, n, K.mode, K.size, K.block, K.table)
  BY Zenon, <1>1, <1>3, <1>4, SetInode
<1> QED BY Zenon, <1>1, <1>5 DEF R

\* grow_dir: a block more.
SetGrown(S, n, i, b) ==
    [S EXCEPT !.m.inode[n].block[i] = b, !.m.inode[n].size = @ + 1]

\* The fields add_entry_to_dir assigns to a directory that grows.
LEMMA SetGrownIs ==
    ASSUME NEW S, Shape(S), S.m.inode \in [Inodes -> InodeRecord], NEW n \in Inodes,
           NEW i \in Direct, NEW b \in Blocks
    PROVE  Inode(SetGrown(S, n, i, b), S, n, S.m.inode[n].mode, S.m.inode[n].size + 1,
                 [S.m.inode[n].block EXCEPT ![i] = b], S.m.inode[n].table)
<1> DEFINE I == S.m.inode
           K == [I[n] EXCEPT !.block[i] = b, !.size = @ + 1]
           R == SetGrown(S, n, i, b)
<1>1. /\ K \in InodeRecord /\ K.mode = S.m.inode[n].mode /\ K.size = S.m.inode[n].size + 1 /\ K.table = S.m.inode[n].table
      /\ K.block = [S.m.inode[n].block EXCEPT ![i] = b]
  <2> DEFINE r == I[n]
  <2>1. r \in InodeRecord
    BY Zenon
  <2> HIDE DEF r
  <2>2. r.size + 1 \in Nat
    BY <2>1 DEF InodeRecord
  <2> DEFINE s == r.size + 1
  <2>3. K = [r EXCEPT !.block[i] = b, !.size = s]
    BY Zenon DEF r
  <2> HIDE DEF K, s
  <2>4. s \in Nat
    BY Zenon, <2>2 DEF s
  <2>5. K \in InodeRecord /\ K.mode = r.mode /\ K.size = s /\ K.table = r.table
        /\ K.block = [r.block EXCEPT ![i] = b]
    BY Zenon, <2>1, <2>3, <2>4 DEF InodeRecord
  <2> QED BY Zenon, <2>5 DEF r, s
<1>2. R.m.inode = [I EXCEPT ![n].block[i] = b, ![n].size = @ + 1]
  BY Zenon DEF Shape, SetGrown
<1>3. Mem(R, S, R.m.inode, S.m.blocks, S.m.inodes, S.m.free)
  BY Zenon DEF Shape, Mem, SetGrown
<1>4. Upd(R.m.inode, S.m.inode, n, K)
  <2>1. [I EXCEPT ![n].block[i] = b, ![n].size = @ + 1] = [I EXCEPT ![n] = K]
    <3>1. I \in [Inodes -> InodeRecord]
      BY Zenon
    <3> HIDE DEF I
    <3> QED BY Zenon, <3>1
  <2> HIDE DEF R, K
  <2> QED BY Zenon, <1>2, <2>1 DEF Upd
<1> HIDE DEF R, K
<1>5. Inode(R, S, n, K.mode, K.size, K.block, K.table)
  BY Zenon, <1>1, <1>3, <1>4, SetInode
<1> QED BY Zenon, <1>1, <1>5 DEF R

\* release_inode: no direct blocks.
SetReleased(S, n) ==
    [S EXCEPT !.m.inode[n].block = [i \in Direct |-> 0], !.m.inode[n].size = 0]

\* The fields ext2_unlink assigns.
LEMMA SetReleasedIs ==
    ASSUME NEW S, Shape(S), S.m.inode \in [Inodes -> InodeRecord], NEW n \in Inodes
    PROVE  Inode(SetReleased(S, n), S, n, S.m.inode[n].mode, 0,
                 [i \in Direct |-> 0], S.m.inode[n].table)
<1> DEFINE I == S.m.inode
           K == [I[n] EXCEPT !.block = [i \in Direct |-> 0], !.size = 0]
           R == SetReleased(S, n)
<1>1. /\ K \in InodeRecord /\ K.mode = S.m.inode[n].mode /\ K.size = 0 /\ K.table = S.m.inode[n].table
      /\ K.block = [i \in Direct |-> 0]
  BY Zenon DEF InodeRecord
<1>2. R.m.inode = [I EXCEPT ![n].block = [i \in Direct |-> 0], ![n].size = 0]
  BY Zenon DEF Shape, SetReleased
<1>3. Mem(R, S, R.m.inode, S.m.blocks, S.m.inodes, S.m.free)
  BY Zenon DEF Shape, Mem, SetReleased
<1>4. Upd(R.m.inode, S.m.inode, n, K)
  <2>1. [I EXCEPT ![n].block = [i \in Direct |-> 0], ![n].size = 0] = [I EXCEPT ![n] = K]
    <3>1. I \in [Inodes -> InodeRecord]
      BY Zenon
    <3> HIDE DEF I
    <3> QED BY Zenon, <3>1
  <2> HIDE DEF R, K
  <2> QED BY Zenon, <1>2, <2>1 DEF Upd
<1> HIDE DEF R, K
<1>5. Inode(R, S, n, K.mode, K.size, K.block, K.table)
  BY Zenon, <1>1, <1>3, <1>4, SetInode
<1> QED BY Zenon, <1>1, <1>5 DEF R

\* ext2_truncate and ext2_write: another size.
SetSize(S, n, size) ==
    [S EXCEPT !.m.inode[n].size = size]

\* The field ext2_truncate and ext2_write assign.
LEMMA SetSizeIs ==
    ASSUME NEW S, Shape(S), S.m.inode \in [Inodes -> InodeRecord], NEW n \in Inodes,
           NEW size \in Nat
    PROVE  Inode(SetSize(S, n, size), S, n, S.m.inode[n].mode, size,
                 S.m.inode[n].block, S.m.inode[n].table)
<1> DEFINE I == S.m.inode
           K == [I[n] EXCEPT !.size = size]
           R == SetSize(S, n, size)
<1>1. /\ K \in InodeRecord /\ K.mode = S.m.inode[n].mode /\ K.size = size /\ K.table = S.m.inode[n].table
      /\ K.block = S.m.inode[n].block
  BY Zenon DEF InodeRecord
<1>2. R.m.inode = [I EXCEPT ![n].size = size]
  BY Zenon DEF Shape, SetSize
<1>3. Mem(R, S, R.m.inode, S.m.blocks, S.m.inodes, S.m.free)
  BY Zenon DEF Shape, Mem, SetSize
<1>4. Upd(R.m.inode, S.m.inode, n, K)
  <2>1. [I EXCEPT ![n].size = size] = [I EXCEPT ![n] = K]
    <3>1. I \in [Inodes -> InodeRecord]
      BY Zenon
    <3> HIDE DEF I
    <3> QED BY Zenon, <3>1
  <2> HIDE DEF R, K
  <2> QED BY Zenon, <1>2, <2>1 DEF Upd
<1> HIDE DEF R, K
<1>5. Inode(R, S, n, K.mode, K.size, K.block, K.table)
  BY Zenon, <1>1, <1>3, <1>4, SetInode
<1> QED BY Zenon, <1>1, <1>5 DEF R

\* bmap_direct: a block.
SetBlock(S, n, i, b) ==
    [S EXCEPT !.m.inode[n].block[i] = b]

\* A direct pointer ext2_bmap_alloc assigns.
LEMMA SetBlockIs ==
    ASSUME NEW S, Shape(S), S.m.inode \in [Inodes -> InodeRecord], NEW n \in Inodes,
           NEW i \in Direct, NEW b \in Blocks
    PROVE  Inode(SetBlock(S, n, i, b), S, n, S.m.inode[n].mode, S.m.inode[n].size,
                 [S.m.inode[n].block EXCEPT ![i] = b], S.m.inode[n].table)
<1> DEFINE I == S.m.inode
           K == [I[n] EXCEPT !.block[i] = b]
           R == SetBlock(S, n, i, b)
<1>1. /\ K \in InodeRecord /\ K.mode = S.m.inode[n].mode /\ K.size = S.m.inode[n].size /\ K.table = S.m.inode[n].table
      /\ K.block = [S.m.inode[n].block EXCEPT ![i] = b]
  BY Zenon DEF InodeRecord
<1>2. R.m.inode = [I EXCEPT ![n].block[i] = b]
  BY Zenon DEF Shape, SetBlock
<1>3. Mem(R, S, R.m.inode, S.m.blocks, S.m.inodes, S.m.free)
  BY Zenon DEF Shape, Mem, SetBlock
<1>4. Upd(R.m.inode, S.m.inode, n, K)
  <2>1. [I EXCEPT ![n].block[i] = b] = [I EXCEPT ![n] = K]
    <3>1. I \in [Inodes -> InodeRecord]
      BY Zenon
    <3> HIDE DEF I
    <3> QED BY Zenon, <3>1
  <2> HIDE DEF R, K
  <2> QED BY Zenon, <1>2, <2>1 DEF Upd
<1> HIDE DEF R, K
<1>5. Inode(R, S, n, K.mode, K.size, K.block, K.table)
  BY Zenon, <1>1, <1>3, <1>4, SetInode
<1> QED BY Zenon, <1>1, <1>5 DEF R

\* bmap_table: a table.
SetTable(S, n, b) ==
    [S EXCEPT !.m.inode[n].table = b]

\* The table pointer ext2_bmap_alloc assigns.
LEMMA SetTableIs ==
    ASSUME NEW S, Shape(S), S.m.inode \in [Inodes -> InodeRecord], NEW n \in Inodes,
           NEW b \in Blocks
    PROVE  Inode(SetTable(S, n, b), S, n, S.m.inode[n].mode, S.m.inode[n].size,
                 S.m.inode[n].block, b)
<1> DEFINE I == S.m.inode
           K == [I[n] EXCEPT !.table = b]
           R == SetTable(S, n, b)
<1>1. /\ K \in InodeRecord /\ K.mode = S.m.inode[n].mode /\ K.size = S.m.inode[n].size /\ K.table = b
      /\ K.block = S.m.inode[n].block
  BY Zenon DEF InodeRecord
<1>2. R.m.inode = [I EXCEPT ![n].table = b]
  BY Zenon DEF Shape, SetTable
<1>3. Mem(R, S, R.m.inode, S.m.blocks, S.m.inodes, S.m.free)
  BY Zenon DEF Shape, Mem, SetTable
<1>4. Upd(R.m.inode, S.m.inode, n, K)
  <2>1. [I EXCEPT ![n].table = b] = [I EXCEPT ![n] = K]
    <3>1. I \in [Inodes -> InodeRecord]
      BY Zenon
    <3> HIDE DEF I
    <3> QED BY Zenon, <3>1
  <2> HIDE DEF R, K
  <2> QED BY Zenon, <1>2, <2>1 DEF Upd
<1> HIDE DEF R, K
<1>5. Inode(R, S, n, K.mode, K.size, K.block, K.table)
  BY Zenon, <1>1, <1>3, <1>4, SetInode
<1> QED BY Zenon, <1>1, <1>5 DEF R

\* R is S after a write: of inode n, of the superblock, of the bitmaps, or of the
\* block b of a directory, of a table or of a file.
InodeWritten(R, S, n, v) ==
    /\ Shape(R) /\ R.m = S.m
    /\ R.d.dir = S.d.dir /\ R.d.table = S.d.table
    /\ R.d.blocks = S.d.blocks /\ R.d.inodes = S.d.inodes /\ R.d.free = S.d.free
    /\ Upd(R.d.inode, S.d.inode, n, v)
    /\ R.log = Append(S.log, [kind |-> "inode", at |-> n, to |-> v])

\* R is S with the superblock written.
SuperWritten(R, S) ==
    /\ Shape(R) /\ R.m = S.m
    /\ R.d.dir = S.d.dir /\ R.d.table = S.d.table /\ R.d.inode = S.d.inode
    /\ R.d.blocks = S.d.blocks /\ R.d.inodes = S.d.inodes
    /\ R.d.free = S.m.free
    /\ R.log = Append(S.log, [kind |-> "super", at |-> 0, to |-> S.m.free])

\* R is S with B written as the bitmap of blocks.
BlocksWritten(R, S, B) ==
    /\ Shape(R) /\ R.m = S.m
    /\ R.d.dir = S.d.dir /\ R.d.table = S.d.table /\ R.d.inode = S.d.inode
    /\ R.d.free = S.d.free /\ R.d.inodes = S.d.inodes
    /\ R.d.blocks = B
    /\ R.log = Append(S.log, [kind |-> "blocks", at |-> 0, to |-> B])

\* R is S with N written as the bitmap of inodes.
InodesWritten(R, S, N) ==
    /\ Shape(R) /\ R.m = S.m
    /\ R.d.dir = S.d.dir /\ R.d.table = S.d.table /\ R.d.inode = S.d.inode
    /\ R.d.free = S.d.free /\ R.d.blocks = S.d.blocks
    /\ R.d.inodes = N
    /\ R.log = Append(S.log, [kind |-> "inodes", at |-> 0, to |-> N])

\* R is S with both bitmaps written.
BitmapsWritten(R, S) ==
    /\ Shape(R) /\ R.m = S.m
    /\ R.d.dir = S.d.dir /\ R.d.table = S.d.table /\ R.d.inode = S.d.inode
    /\ R.d.free = S.d.free /\ R.d.blocks = S.m.blocks /\ R.d.inodes = S.m.inodes
    /\ R.log = Append(Append(S.log, [kind |-> "blocks", at |-> 0, to |-> S.m.blocks]),
                      [kind |-> "inodes", at |-> 0, to |-> S.m.inodes])

\* R is S with block b written.
BlockWritten(R, S, b, es, row) ==
    /\ Shape(R) /\ R.m = S.m
    /\ R.d.inode = S.d.inode /\ R.d.blocks = S.d.blocks
    /\ R.d.inodes = S.d.inodes /\ R.d.free = S.d.free
    /\ Upd(R.d.dir, S.d.dir, b, es) /\ Upd(R.d.table, S.d.table, b, row)

\* ext2_write_inode.
LEMMA WriteInodeIs ==
    ASSUME NEW S, Shape(S), NEW n
    PROVE  InodeWritten(write_inode(S, n), S, n, S.m.inode[n])
<1>1. ASSUME NEW v
      PROVE  InodeWritten(Put(S, "inode", n, v), S, n, v)
  BY Zenon DEF Put, Apply, Shape, Upd, InodeWritten
<1> QED BY Zenon, <1>1 DEF write_inode

\* ext2_write_superblock.
LEMMA WriteSuperIs ==
    ASSUME NEW S, Shape(S)
    PROVE  SuperWritten(write_superblock(S), S)
<1>1. ASSUME NEW v, v = S.m.free
      PROVE  SuperWritten(Put(S, "super", 0, v), S)
  BY Zenon, <1>1 DEF Put, Apply, Shape, SuperWritten
<1> QED BY Zenon, <1>1 DEF write_superblock

\* The bitmap of blocks, written.
LEMMA PutBlocksIs ==
    ASSUME NEW S, Shape(S), NEW B
    PROVE  BlocksWritten(Put(S, "blocks", 0, B), S, B)
BY Zenon DEF Put, Apply, Shape, BlocksWritten

\* The bitmap of inodes, written.
LEMMA PutInodesIs ==
    ASSUME NEW S, Shape(S), NEW N
    PROVE  InodesWritten(Put(S, "inodes", 0, N), S, N)
BY Zenon DEF Put, Apply, Shape, InodesWritten

\* ext2_write_bitmaps.
LEMMA WriteBitmapsIs ==
    ASSUME NEW S, Shape(S)
    PROVE  BitmapsWritten(write_bitmaps(S), S)
<1> DEFINE P == Put(S, "blocks", 0, S.m.blocks)
           Q == Put(P, "inodes", 0, S.m.inodes)
<1>1. BlocksWritten(P, S, S.m.blocks)
  BY PutBlocksIs, Zenon
<1>2. Shape(P)
  BY Zenon, <1>1 DEF BlocksWritten
<1>3. InodesWritten(Q, P, S.m.inodes)
  BY <1>2, PutInodesIs, Zenon
<1>4. write_bitmaps(S) = Q
  BY Zenon DEF write_bitmaps
<1> HIDE DEF P, Q
<1> QED BY Zenon, <1>1, <1>3, <1>4 DEF BlocksWritten, InodesWritten, BitmapsWritten

\* The writes of the three kinds of block a file or a directory is made of.
LEMMA PutDirIs ==
    ASSUME NEW S, Shape(S), NEW b, NEW es
    PROVE  /\ BlockWritten(Put(S, "dir", b, es), S, b, es, NoTable)
           /\ Put(S, "dir", b, es).log = Append(S.log, [kind |-> "dir", at |-> b, to |-> es])
BY Zenon DEF Put, Apply, Shape, Upd, BlockWritten

\* A table of pointers, written.
LEMMA PutTableIs ==
    ASSUME NEW S, Shape(S), NEW b, NEW row
    PROVE  BlockWritten(Put(S, "table", b, row), S, b, {}, row)
BY Zenon DEF Put, Apply, Shape, Upd, BlockWritten

\* A block of a file, written.
LEMMA PutDataIs ==
    ASSUME NEW S, Shape(S), NEW b
    PROVE  BlockWritten(Put(S, "data", b, 0), S, b, {}, NoTable)
BY Zenon DEF Put, Apply, Shape, Upd, BlockWritten

-----------------------------------------------------------------------------
(* The state an operation works on. *)

\* Inode a of memory is inode b of the disk, but for what is left in one that is
\* not in use.
SameInode(a, b, live) ==
    /\ live => a = b
    /\ a.table = b.table
    /\ ~live => \A i \in Direct \ {0} : b.block[i] = 0

\* The inodes of memory are those of the disk, X apart.
Synced(I, N, J, X) ==
    /\ J \in [Inodes -> InodeRecord]
    /\ \A n \in Inodes \ X : SameInode(I[n], J[n], n \in N)

\* A sound file system of which only the inodes of X are still to be written.
Good(S, X, exact) ==
    /\ Shape(S)
    /\ Sane(S.m.inode, S.m.blocks, S.m.inodes, S.d.dir, S.d.table)
    /\ Counts(S.m.blocks, S.m.inodes, S.m.free, exact)
    /\ Synced(S.m.inode, S.m.inodes, S.d.inode, X)

\* The bitmaps and the counts are on the disk.
Saved(S) == S.d.blocks = S.m.blocks /\ S.d.inodes = S.m.inodes /\ S.d.free = S.m.free

\* The entries of the file system.
Found(S) == Filed(S.m.inode, S.m.inodes, S.d.dir)

\* The parts of a good state.
LEMMA GoodIs ==
    ASSUME NEW S, NEW X, NEW ex, Good(S, X, ex)
    PROVE  /\ Shape(S) /\ S.m.inode \in [Inodes -> InodeRecord]
           /\ S.m.blocks \subseteq Blocks /\ S.m.inodes \subseteq Inodes
           /\ S.d.dir \in [Blocks -> SUBSET AllEntries]
           /\ S.d.table \in [Blocks -> [Table -> Blocks \cup {0}]]
           /\ Sane(S.m.inode, S.m.blocks, S.m.inodes, S.d.dir, S.d.table)
           /\ Counts(S.m.blocks, S.m.inodes, S.m.free, ex)
           /\ Synced(S.m.inode, S.m.inodes, S.d.inode, X)
           /\ S.m.free \in Free
BY SaneIs DEF Good, Counts

\* ext2_write_inode leaves one inode fewer to write.
LEMMA WriteInodeGood ==
    ASSUME NEW S, NEW X, NEW ex, Good(S, X, ex), NEW n \in Inodes
    PROVE  Good(write_inode(S, n), X \ {n}, ex)
<1> DEFINE R == write_inode(S, n)
<1>s. /\ Shape(S) /\ S.m.inode \in [Inodes -> InodeRecord]
      /\ Sane(S.m.inode, S.m.blocks, S.m.inodes, S.d.dir, S.d.table)
      /\ Counts(S.m.blocks, S.m.inodes, S.m.free, ex)
      /\ Synced(S.m.inode, S.m.inodes, S.d.inode, X)
  BY Zenon, GoodIs
<1>1. InodeWritten(R, S, n, S.m.inode[n])
  BY Zenon, <1>s, WriteInodeIs
<1> HIDE DEF R
<1>2. DeadClear(S.m.inode, S.m.inodes)
  BY Zenon, <1>s, SaneIs
<1>3. /\ R.d.inode \in [Inodes -> InodeRecord] /\ R.d.inode[n] = S.m.inode[n]
      /\ \A k \in Inodes \ {n} : R.d.inode[k] = S.d.inode[k]
  BY Zenon, <1>s, <1>1 DEF InodeWritten, Upd, Synced
<1>4. SameInode(S.m.inode[n], R.d.inode[n], n \in S.m.inodes)
  BY <1>2, <1>3 DEF SameInode, DeadClear
<1>5. \A k \in Inodes \ (X \ {n}) : SameInode(S.m.inode[k], R.d.inode[k], k \in S.m.inodes)
  BY Zenon, <1>s, <1>3, <1>4 DEF Synced
<1>6. /\ Shape(R) /\ R.m = S.m /\ R.d.dir = S.d.dir /\ R.d.table = S.d.table
  BY Zenon, <1>1 DEF InodeWritten
<1>7. Synced(R.m.inode, R.m.inodes, R.d.inode, X \ {n})
  BY Zenon, <1>3, <1>5, <1>6 DEF Synced
<1>8. /\ Sane(R.m.inode, R.m.blocks, R.m.inodes, R.d.dir, R.d.table)
      /\ Counts(R.m.blocks, R.m.inodes, R.m.free, ex)
  BY Zenon, <1>s, <1>6
<1>9. Good(R, X \ {n}, ex)
  BY Zenon, <1>6, <1>7, <1>8 DEF Good
<1> QED
  BY Zenon, <1>9 DEF R

\* The superblock and the bitmaps save what allocation changed.
LEMMA WriteRestGood ==
    ASSUME NEW S, NEW X, NEW ex, Good(S, X, ex)
    PROVE  LET R == write_bitmaps(write_superblock(S))
           IN  Good(R, X, ex) /\ Saved(R) /\ R.m = S.m
<1> DEFINE P == write_superblock(S)
           R == write_bitmaps(P)
<1>1. SuperWritten(P, S)
  BY Zenon, GoodIs, WriteSuperIs
<1>2. Shape(P)
  BY Zenon, <1>1 DEF SuperWritten
<1>3. BitmapsWritten(R, P)
  <2> HIDE DEF P
  <2> QED BY Zenon, <1>2, WriteBitmapsIs
<1> HIDE DEF P, R
<1>4. /\ Shape(R) /\ R.m = S.m /\ R.d.dir = S.d.dir /\ R.d.table = S.d.table
      /\ R.d.inode = S.d.inode /\ R.d.free = S.m.free
      /\ R.d.blocks = S.m.blocks /\ R.d.inodes = S.m.inodes
  BY Zenon, <1>1, <1>3 DEF SuperWritten, BitmapsWritten
<1>5. Good(R, X, ex) /\ Saved(R) /\ R.m = S.m
  BY Zenon, <1>4 DEF Good, Saved
<1> QED BY Zenon, <1>5 DEF R, P

-----------------------------------------------------------------------------
(* Directories. *)

\* find_entry_in_dir finds a name if and only if the directory has it.
LEMMA FindIs ==
    ASSUME NEW S, NEW X, NEW ex, Good(S, X, ex), NEW n \in S.m.inodes, NEW name \in Names
    PROVE  LET r == find_entry_in_dir(S, n, name)
           IN  /\ r # 0 => r \in Inodes /\ \E b \in Blocks : <<n, b, <<name, r>>>> \in Found(S)
               /\ r = 0 /\ IsDir(S, n) => \A x \in Found(S) : ~(x[1] = n /\ x[3][1] = name)
<1> DEFINE I == S.m.inode
           N == S.m.inodes
           D == S.d.dir
           here == UNION {S.d.dir[b] : b \in DirectBlocks(S, n)}
           found == {e \in here : e[1] = name}
           e0 == CHOOSE e \in found : TRUE
           r == find_entry_in_dir(S, n, name)
<1>s. /\ I \in [Inodes -> InodeRecord] /\ N \subseteq Inodes /\ D \in [Blocks -> SUBSET AllEntries]
      /\ EmptyDirs(I, N)
  BY GoodIs, SaneIs, Zenon
<1>c. /\ \A i \in Direct : I[n].block[i] \in Blocks \cup {0}
      /\ Blocks \subseteq Nat \ {0} /\ Inodes \subseteq Nat \ {0} /\ name \notin Dots
  BY Zenon, <1>s, InodeIs, Consts, Ext2Assumption
<1>1. \A e \in found : \E i \in Direct : /\ I[n].block[i] \in Blocks
                                         /\ e \in D[I[n].block[i]] /\ e[1] = name
  BY Zenon, <1>c DEF DirectBlocks
<1>2. \A i \in Direct : I[n].block[i] # 0 => \A e \in D[I[n].block[i]] : e[1] = name => e \in found
  BY Zenon DEF DirectBlocks
<1>3. r = IF ~IsDir(S, n) \/ I[n].size = 0 \/ found = {} THEN 0 ELSE e0[2]
  BY Zenon DEF find_entry_in_dir
<1>4. Found(S) = Filed(I, N, D)
  BY Zenon DEF Found
<1>5. found # {} => e0 \in found
  BY Zenon
<1> HIDE DEF found, e0, r, I, N, D
<1>6. ASSUME IsDir(S, n), found # {}
      PROVE  e0[2] \in Inodes /\ \E b \in Blocks : <<n, b, <<name, e0[2]>>>> \in Filed(I, N, D)
  <2>1. PICK i \in Direct : I[n].block[i] \in Blocks /\ e0 \in D[I[n].block[i]] /\ e0[1] = name
    BY Zenon, <1>1, <1>5, <1>6
  <2>2. e0 \in AllEntries
    BY Zenon, <2>1, <1>s
  <2>3. e0[2] \in Inodes /\ e0 = <<name, e0[2]>>
    BY <2>1, <2>2 DEF AllEntries
  <2>4. At(I, N, D, n, I[n].block[i], e0)
    BY Zenon, <1>6, <2>1, <1>c DEF At, IsDir, I, N
  <2>5. n \in Inodes
    BY Zenon, <1>s DEF N
  <2>6. <<n, I[n].block[i], e0>> \in Filed(I, N, D)
    BY Zenon, <2>1, <2>2, <2>4, <2>5, FiledIs
  <2> QED BY Zenon, <2>1, <2>3, <2>6
<1>7. ASSUME NEW x \in Filed(I, N, D), x[1] = n, x[3][1] = name
      PROVE  found # {} /\ I[n].size # 0
  <2>1. /\ At(I, N, D, x[1], x[2], x[3]) /\ x[2] \in Blocks
    BY Zenon, FiledIs
  <2>2. PICK i \in Direct : I[n].block[i] = x[2]
    BY Zenon, <1>7, <2>1 DEF At
  <2>3. x[3] \in found /\ I[n].block[i] # 0
    BY Zenon, <1>2, <1>7, <1>c, <2>1, <2>2 DEF At
  <2>4. I[n].mode = "dir" /\ n \in N
    BY Zenon, <1>7, <2>1 DEF At
  <2> QED BY Zenon, <1>s, <2>2, <2>3, <2>4 DEF EmptyDirs
<1>8. r # 0 => r \in Inodes /\ \E b \in Blocks : <<n, b, <<name, r>>>> \in Filed(I, N, D)
  BY Zenon, <1>3, <1>6
<1>9. r = 0 /\ IsDir(S, n) => \A x \in Filed(I, N, D) : ~(x[1] = n /\ x[3][1] = name)
  BY Zenon, <1>3, <1>6, <1>7, <1>c
<1> QED BY Zenon, <1>4, <1>8, <1>9 DEF r

\* One component of a path leads to a live inode or nowhere.
LEMMA StepInto ==
    ASSUME NEW S, NEW X, NEW ex, Good(S, X, ex), NEW n \in S.m.inodes \cup {0}, NEW name \in Names
    PROVE  LET r == step_into(S, n, name)
           IN  /\ r \in (S.m.inodes \ {Root}) \cup {0}
               /\ r # 0 /\ n = Root /\ name = Journal => S.m.inode[r].mode # "dir"
<1> DEFINE I == S.m.inode
           r == step_into(S, n, name)
<1>1. CASE n = 0
  BY Zenon, <1>1, Consts DEF step_into
<1>2. CASE n # 0
  <2>1. r = find_entry_in_dir(S, n, name)
    BY Zenon, <1>2 DEF step_into
  <2> HIDE DEF r
  <2>2. SUFFICES ASSUME r # 0
                 PROVE  r \in S.m.inodes \ {Root} /\ (n = Root /\ name = Journal => I[r].mode # "dir")
    BY Zenon DEF r
  <2>3. PICK b \in Blocks : <<n, b, <<name, r>>>> \in Found(S)
    BY Zenon, <1>2, <2>1, <2>2, FindIs
  <2>4. Named(Found(S), S.m.inodes) /\ JournalPlain(I, Found(S))
    BY GoodIs, SaneIs, Zenon DEF Found
  <2> DEFINE x == <<n, b, <<name, r>>>>
  <2>5. x[1] = n /\ x[3][1] = name /\ x[3][2] = r
    BY Zenon
  <2> HIDE DEF x
  <2>6. x \in Found(S)
    BY Zenon, <2>3 DEF x
  <2> QED BY Zenon, <2>4, <2>5, <2>6 DEF Named, JournalPlain
<1> QED BY Zenon, <1>1, <1>2

\* ext2_lookup_inode as a sequence: f[k] is the inode after k components.
LookupLoop(f, S, path, m) ==
    f = [k \in 0 .. m |-> IF k = 0 THEN Root ELSE step_into(S, f[k - 1], path[k])]

\* The loop of ext2_lookup_inode defines a value for every path.
LEMMA LookupLoopExists ==
    ASSUME NEW S, NEW path, NEW n \in Nat
    PROVE  \E f : LookupLoop(f, S, path, n)
<1> DEFINE Bad == {m \in Nat : ~\E f : LookupLoop(f, S, path, m)}
<1> SUFFICES Bad = {}
  BY Zenon
<1> SUFFICES ASSUME Bad # {} PROVE FALSE
  BY Zenon
<1>1. PICK m \in Bad : \A y \in Bad : m <= y
  <2>1. Bad \in SUBSET Nat
    BY Zenon
  <2> HIDE DEF Bad
  <2> QED
    BY Zenon, <2>1, Least
<1>2. CASE m = 0
  <2> DEFINE f == [k \in 0 .. 0 |-> Root]
  <2>1. LookupLoop(f, S, path, 0)
    BY DEF LookupLoop
  <2> QED
    BY Zenon, <1>2, <2>1
<1>3. CASE m # 0
  <2>1. m - 1 \in Nat /\ m - 1 \notin Bad /\ m \in Nat
    BY <1>1, <1>3
  <2>2. PICK f : LookupLoop(f, S, path, m - 1)
    BY Zenon, <2>1
  <2> DEFINE g == [k \in 0 .. m |-> IF k = m THEN step_into(S, f[m - 1], path[m]) ELSE f[k]]
             h == [k \in 0 .. m |-> IF k = 0 THEN Root ELSE step_into(S, g[k - 1], path[k])]
  <2>3. ASSUME NEW k \in 0 .. m PROVE g[k] = h[k]
    <3>1. CASE k = m
      <4>1. g[k] = step_into(S, f[m - 1], path[m])
        BY Zenon, <3>1
      <4>2. m - 1 \in 0 .. m /\ m - 1 # m /\ k # 0
        BY <2>1, <3>1, <1>3
      <4>3. g[k - 1] = f[m - 1]
        BY Zenon, <3>1, <4>2
      <4> HIDE DEF g
      <4> QED
        BY Zenon, <3>1, <4>1, <4>2, <4>3
    <3>2. CASE k = 0
      <4>1. 0 \in 0 .. m - 1 /\ m # 0
        BY <2>1, <1>3
      <4>2. f[0] = Root
        BY Zenon, <2>2, <4>1 DEF LookupLoop
      <4> QED
        BY Zenon, <3>2, <4>1, <4>2
    <3>3. CASE k # m /\ k # 0
      <4>1. k \in 0 .. m - 1 /\ k - 1 \in 0 .. m /\ k - 1 # m
        BY <2>1, <3>3
      <4>2. f[k] = step_into(S, f[k - 1], path[k])
        BY Zenon, <2>2, <3>3, <4>1 DEF LookupLoop
      <4>3. g[k] = f[k] /\ g[k - 1] = f[k - 1]
        BY Zenon, <3>3, <4>1
      <4> HIDE DEF g
      <4> QED
        BY Zenon, <3>3, <4>2, <4>3
    <3> QED
      BY Zenon, <3>1, <3>2, <3>3
  <2>4. g = h
    <3> DEFINE G(k) == IF k = m THEN step_into(S, f[m - 1], path[m]) ELSE f[k]
               H(k) == IF k = 0 THEN Root ELSE step_into(S, g[k - 1], path[k])
    <3>1. \A k \in 0 .. m : G(k) = H(k)
      BY Zenon, <2>3
    <3>2. g = [k \in 0 .. m |-> G(k)] /\ h = [k \in 0 .. m |-> H(k)]
      BY Zenon
    <3> HIDE DEF G, H, g, h
    <3> QED
      BY Zenon, <3>1, <3>2
  <2>5. LookupLoop(g, S, path, m)
    <3> HIDE DEF g
    <3> QED
      BY <2>4, Zenon DEF LookupLoop
  <2> QED
    BY Zenon, <1>1, <2>5
<1> QED
  BY Zenon, <1>2, <1>3

\* ext2_lookup_inode returns what its loop ends with.
LEMMA LookupLoopIs ==
    ASSUME NEW S, NEW path, Len(path) \in Nat
    PROVE  \E f : LookupLoop(f, S, path, Len(path)) /\ lookup_inode(S, path) = f[Len(path)]
<1> DEFINE upto == CHOOSE f : LookupLoop(f, S, path, Len(path))
<1>1. LookupLoop(upto, S, path, Len(path))
  BY Zenon, LookupLoopExists
<1>2. lookup_inode(S, path) = upto[Len(path)]
  BY Zenon DEF lookup_inode, LookupLoop
<1> HIDE DEF upto
<1> QED
  BY Zenon, <1>1, <1>2

\* ext2_lookup_inode returns a live inode or 0, and the root only for /.
LEMMA LookupIs ==
    ASSUME NEW S, NEW X, NEW ex, Good(S, X, ex), NEW path \in Seq(Names)
    PROVE  LET r == lookup_inode(S, path)
           IN  /\ r \in S.m.inodes \cup {0}
               /\ r = Root => path = <<>>
               /\ path = <<>> => r = Root
               /\ Len(path) = 1 => r = step_into(S, Root, path[1])
<1>1. Len(path) \in Nat /\ \A k \in 1 .. Len(path) : path[k] \in Names
  BY SMTT(60)
<1>2. PICK f : LookupLoop(f, S, path, Len(path)) /\ lookup_inode(S, path) = f[Len(path)]
  BY Zenon, <1>1, LookupLoopIs
<1>3. f[0] = Root /\ \A k \in 1 .. Len(path) : f[k] = step_into(S, f[k - 1], path[k])
  BY <1>1, <1>2 DEF LookupLoop
<1>4. Root \in S.m.inodes
  BY GoodIs, SaneIs, Zenon
<1> DEFINE Bad == {k \in 0 .. Len(path) : f[k] \notin S.m.inodes \cup {0}}
<1>5. Bad = {}
  <2> SUFFICES ASSUME Bad # {} PROVE FALSE
    BY Zenon
  <2>1. PICK k \in Bad : \A y \in Bad : k <= y
    <3>1. Bad \in SUBSET Nat
      BY <1>1
    <3> HIDE DEF Bad
    <3> QED BY Zenon, <3>1, Least
  <2>2. k # 0
    BY Zenon, <1>3, <1>4, <2>1
  <2>3. k \in 1 .. Len(path) /\ k - 1 \in 0 .. Len(path) /\ k - 1 \notin Bad
    BY <1>1, <2>1, <2>2
  <2>4. f[k - 1] \in S.m.inodes \cup {0} /\ path[k] \in Names
    BY Zenon, <1>1, <2>3
  <2>5. step_into(S, f[k - 1], path[k]) \in S.m.inodes \cup {0}
    BY Zenon, <2>4, StepInto
  <2> QED BY Zenon, <1>3, <2>1, <2>3, <2>5
<1>6. ASSUME path # <<>> PROVE f[Len(path)] # Root
  <2>1. Len(path) \in 1 .. Len(path) /\ Len(path) - 1 \in 0 .. Len(path)
    BY <1>1, <1>6
  <2>2. f[Len(path) - 1] \in S.m.inodes \cup {0} /\ path[Len(path)] \in Names
    BY Zenon, <1>1, <1>5, <2>1
  <2>3. step_into(S, f[Len(path) - 1], path[Len(path)]) # Root
    BY Zenon, <2>2, StepInto, Consts
  <2> QED BY Zenon, <1>3, <2>1, <2>3
<1>7. f[Len(path)] \in S.m.inodes \cup {0}
  BY <1>1, <1>5
<1>8. path = <<>> => f[Len(path)] = Root
  BY Zenon, <1>3
<1>9. Len(path) = 1 => f[Len(path)] = step_into(S, Root, path[1])
  BY <1>1, <1>3
<1> QED BY Zenon, <1>2, <1>6, <1>7, <1>8, <1>9

-----------------------------------------------------------------------------
(* Allocation, and a new entry in a directory. *)

\* A block ext2_alloc_block returns was free.
LEMMA FreeBlockIs ==
    ASSUME NEW S, S.m.blocks \subseteq Blocks
    PROVE  LET b == free_block_number(S) IN b # 0 => b \in Blocks \ S.m.blocks
<1> DEFINE U == Blocks \ S.m.blocks
<1>1. free_block_number(S) = IF U = {} THEN 0 ELSE Min(U)
  BY Zenon DEF free_block_number, blocks_scanned
<1>2. U \in SUBSET Nat
  BY Zenon, Consts
<1> HIDE DEF U
<1>3. U # {} => Min(U) \in U
  BY Zenon, <1>2, MinIs
<1> QED BY Zenon, <1>1, <1>3 DEF U

\* An inode ext2_alloc_inode_num returns was free.
LEMMA FreeInodeNumberIs ==
    ASSUME NEW S
    PROVE  LET n == free_inode_number(S) IN n # 0 => n \in Inodes \ S.m.inodes /\ n # Root
<1> DEFINE U == (FirstInode .. InodesCount) \ S.m.inodes
<1>1. free_inode_number(S) = IF U = {} THEN 0 ELSE Min(U)
  BY Zenon DEF free_inode_number
<1>2. U \in SUBSET Nat /\ U \subseteq Inodes /\ Root \notin U
  BY Ext2Assumption DEF Root, Inodes
<1> HIDE DEF U
<1>3. U # {} => Min(U) \in U
  BY Zenon, <1>2, MinIs
<1> QED BY Zenon, <1>1, <1>2, <1>3 DEF U

\* More inodes may be waiting to be written.
LEMMA GoodMore ==
    ASSUME NEW S, NEW X, NEW ex, Good(S, X, ex), NEW Y, X \subseteq Y
    PROVE  Good(S, Y, ex)
BY Zenon DEF Good, Synced

\* R has the inodes of S, all but p unchanged.
Kept(R, S, p) ==
    /\ R.m.inodes = S.m.inodes
    /\ \A k \in Inodes \ {p} : R.m.inode[k] = S.m.inode[k]

\* The name and the inode may be entered in directory p.
Enters(S, p, ino, name) ==
    /\ p \in S.m.inodes /\ ino \in S.m.inodes \ {Root} /\ name \in Names
    /\ Fresh(Found(S), p, name, ino)
    /\ p = Root /\ name = Journal => S.m.inode[ino].mode # "dir"

\* add_entry_to_dir gives a full directory another block.
LEMMA GrowDirGood ==
    ASSUME NEW S, NEW X, NEW ex, Good(S, X, ex), NEW p, NEW ino, NEW name,
           Enters(S, p, ino, name), S.m.inode[p].mode = "dir",
           NEW i \in Direct, S.m.inode[p].block[i] = 0, NEW b \in Blocks \ S.m.blocks
    PROVE  LET R == grow_dir(S, p, i, b, <<name, ino>>)
           IN  Good(R, X, ex) /\ Kept(R, S, p)
<1> DEFINE es == {<<name, ino>>}
           S1 == take_block(S, b)
           S2 == SetGrown(S1, p, i, b)
           S3 == Put(S2, "dir", b, es)
           R  == write_inode(S3, p)
<1>s. /\ Shape(S) /\ S.m.inode \in [Inodes -> InodeRecord] /\ S.m.inodes \subseteq Inodes
      /\ S.m.blocks \subseteq Blocks
      /\ Sane(S.m.inode, S.m.blocks, S.m.inodes, S.d.dir, S.d.table)
      /\ Counts(S.m.blocks, S.m.inodes, S.m.free, ex)
      /\ Synced(S.m.inode, S.m.inodes, S.d.inode, X)
  BY Zenon, GoodIs
<1>n. p \in Inodes /\ S.m.inode[p].size \in Nat
  BY Zenon, <1>s, InodeIs DEF Enters
<1>1. /\ Mem(S1, S, S.m.inode, S.m.blocks \cup {b}, S.m.inodes, [S.m.free EXCEPT !.blocks = @ - 1])
  BY <1>s, TakeBlockIs, Zenon
<1> HIDE DEF S1
<1>2. Shape(S1) /\ S1.m.inode = S.m.inode
  BY Zenon, <1>1 DEF Mem
<1>3. Inode(S2, S1, p, S.m.inode[p].mode, S.m.inode[p].size + 1,
            [S.m.inode[p].block EXCEPT ![i] = b], S.m.inode[p].table)
  <2> HIDE DEF S2
  <2>1. S1.m.inode \in [Inodes -> InodeRecord]
    BY Zenon, <1>s, <1>2
  <2>2. Inode(S2, S1, p, S1.m.inode[p].mode, S1.m.inode[p].size + 1,
            [S1.m.inode[p].block EXCEPT ![i] = b], S1.m.inode[p].table)
    BY <1>2, <1>n, <2>1, SetGrownIs, Zenon DEF S2
  <2> QED BY Zenon, <2>2, <1>2
<1> HIDE DEF S2
<1>4. Shape(S2)
  BY Zenon, <1>3 DEF Inode, Mem
<1>5. BlockWritten(S3, S2, b, es, NoTable)
  BY <1>4, PutDirIs, Zenon
<1>6. R = grow_dir(S, p, i, b, <<name, ino>>)
  BY Zenon DEF grow_dir, S1, S2, SetGrown
<1> HIDE DEF S3
<1>7. /\ Shape(S3) /\ S3.m.inodes = S.m.inodes /\ S3.m.blocks = S.m.blocks \cup {b}
      /\ S3.m.free = [S.m.free EXCEPT !.blocks = @ - 1]
      /\ S3.d.inode = S.d.inode
      /\ S3.m.inode \in [Inodes -> InodeRecord]
      /\ \A k \in Inodes \ {p} : S3.m.inode[k] = S.m.inode[k]
      /\ S3.m.inode[p].mode = S.m.inode[p].mode /\ S3.m.inode[p].size = S.m.inode[p].size + 1
      /\ S3.m.inode[p].table = S.m.inode[p].table
      /\ Upd(S3.m.inode[p].block, S.m.inode[p].block, i, b)
      /\ Upd(S3.d.dir, S.d.dir, b, es) /\ Upd(S3.d.table, S.d.table, b, NoTable)
  BY SMTT(60), <1>1, <1>3, <1>5 DEF Mem, Inode, BlockWritten, Upd
<1>8. ino \in Inodes /\ name \in Names
  BY Zenon, <1>s DEF Enters
<1>9. es \in SUBSET AllEntries
  BY <1>8 DEF AllEntries
<1>10. Takes(S.m.inode, S.m.blocks, S.m.inodes, S.d.dir, S.d.table, p, i, b, es,
             S3.m.inode, S3.m.blocks, S3.d.dir, S3.d.table)
  BY Zenon, <1>7, <1>9 DEF Takes, Grown, Enters
<1>11. Sane(S3.m.inode, S3.m.blocks, S3.m.inodes, S3.d.dir, S3.d.table)
  <2>1. S3.m.inode[p].size # 0
    BY SMTT(60), <1>7, <1>n
  <2>2. Sane(S3.m.inode, S3.m.blocks, S.m.inodes, S3.d.dir, S3.d.table)
    BY <1>s, <1>10, <2>1, GrowDir, Zenon DEF Enters, Found
  <2> QED BY Zenon, <1>7, <2>2
<1>12. Counts(S3.m.blocks, S3.m.inodes, S3.m.free, ex)
  <2>1. S.m.blocks \in SUBSET Blocks
    BY Zenon, <1>s
  <2>2. Counts(S.m.blocks \cup {b}, S.m.inodes, [S.m.free EXCEPT !.blocks = @ - 1], ex)
    BY <1>s, <2>1, CountTakeBlock, Zenon
  <2> QED BY Zenon, <1>7, <2>2
<1>13. Synced(S3.m.inode, S3.m.inodes, S3.d.inode, X \cup {p})
  BY ZenonT(60), <1>s, <1>7 DEF Synced
<1>14. Good(S3, X \cup {p}, ex)
  BY Zenon, <1>7, <1>11, <1>12, <1>13 DEF Good
<1>15. Good(R, (X \cup {p}) \ {p}, ex)
  BY <1>n, <1>14, WriteInodeGood, Zenon
<1>16. Good(R, X, ex)
  BY Zenon, <1>15, GoodMore
<1>17. R.m = S3.m
  BY ZenonT(60), <1>7, WriteInodeIs DEF InodeWritten
<1> HIDE DEF R
<1>18. Kept(R, S, p)
  BY Zenon, <1>7, <1>17 DEF Kept
<1> QED BY Zenon, <1>6, <1>16, <1>18

\* add_entry_to_dir enters the name or changes nothing.
LEMMA AddEntryGood ==
    ASSUME NEW S, NEW X, NEW ex, Good(S, X, ex), NEW p \in S.m.inodes, NEW ino, NEW name,
           IsDir(S, p) => Enters(S, p, ino, name)
    PROVE  LET A == add_entry_to_dir(S, p, ino, name)
           IN  \/ ~A.ok /\ A.s = S
               \/ A.ok /\ Good(A.s, X, ex) /\ Kept(A.s, S, p) /\ IsDir(S, p)
<1> DEFINE block == S.m.inode[p].block
           roomy == {i \in Direct : block[i] = 0 \/ Cardinality(S.d.dir[block[i]]) < PerBlock}
           at    == Min(roomy)
           new   == free_block_number(S)
           A == add_entry_to_dir(S, p, ino, name)
           W == Put(S, "dir", block[at], S.d.dir[block[at]] \cup {<<name, ino>>})
<1>s. /\ Shape(S) /\ S.m.inode \in [Inodes -> InodeRecord] /\ S.m.inodes \subseteq Inodes
      /\ S.m.blocks \subseteq Blocks
      /\ Sane(S.m.inode, S.m.blocks, S.m.inodes, S.d.dir, S.d.table)
      /\ Counts(S.m.blocks, S.m.inodes, S.m.free, ex)
      /\ Synced(S.m.inode, S.m.inodes, S.d.inode, X)
  BY Zenon, GoodIs
<1>1. CASE ~IsDir(S, p) \/ roomy = {} \/ (block[at] = 0 /\ new = 0)
  <2>1. A = [s |-> S, ok |-> FALSE]
    BY Zenon, <1>1 DEF add_entry_to_dir
  <2> HIDE DEF A
  <2>2. ~A.ok /\ A.s = S
    BY Zenon, <2>1
  <2> QED BY Zenon, <2>2 DEF A
<1>2. CASE ~(~IsDir(S, p) \/ roomy = {} \/ (block[at] = 0 /\ new = 0))
  <2>0. IsDir(S, p) /\ Enters(S, p, ino, name) /\ S.m.inode[p].mode = "dir"
    BY Zenon, <1>2 DEF IsDir
  <2>1. at \in roomy
    <3>1. roomy \in SUBSET Nat /\ roomy # {}
      BY Zenon, <1>2, Consts
    <3> HIDE DEF roomy
    <3> QED BY Zenon, <3>1, MinIs
  <2>2. at \in Direct
    BY Zenon, <2>1
  <2>3. CASE block[at] = 0
    <3> DEFINE R == grow_dir(S, p, at, new, <<name, ino>>)
    <3>1. new \in Blocks \ S.m.blocks
      BY Zenon, <1>s, <1>2, <2>3, FreeBlockIs
    <3>2. A = [s |-> R, ok |-> TRUE]
      BY Zenon, <1>2, <2>3 DEF add_entry_to_dir
    <3> HIDE DEF at, new, roomy
    <3>3. Good(R, X, ex) /\ Kept(R, S, p)
      BY Zenon, <2>0, <2>2, <2>3, <3>1, GrowDirGood
    <3> HIDE DEF R, A
    <3>4. A.ok /\ A.s = R
      BY Zenon, <3>2
    <3> QED BY Zenon, <2>0, <3>3, <3>4 DEF A
  <2>4. CASE block[at] # 0
    <3> DEFINE b == block[at]
               es == S.d.dir[b] \cup {<<name, ino>>}
    <3>1. A = [s |-> W, ok |-> TRUE]
      BY Zenon, <1>2, <2>4 DEF add_entry_to_dir
    <3> HIDE DEF at, roomy
    <3>2. BlockWritten(W, S, b, es, NoTable)
      BY <1>s, PutDirIs, Zenon
    <3> HIDE DEF W
    <3>3. Sane(S.m.inode, S.m.blocks, S.m.inodes, W.d.dir, W.d.table)
      <4>1. Upd(W.d.dir, S.d.dir, b, es) /\ Upd(W.d.table, S.d.table, b, NoTable)
        BY Zenon, <3>2 DEF BlockWritten
      <4>2. /\ ino \in S.m.inodes \ {Root} /\ name \in Names
            /\ Fresh(Filed(S.m.inode, S.m.inodes, S.d.dir), p, name, ino)
            /\ p = Root /\ name = Journal => S.m.inode[ino].mode # "dir"
        BY Zenon, <2>0 DEF Enters, Found
      <4> QED BY <1>s, <2>0, <2>2, <2>4, <4>1, <4>2, AddToBlock, Zenon
    <3>4. Good(W, X, ex) /\ Kept(W, S, p)
      BY Zenon, <1>s, <3>2, <3>3 DEF Good, Kept, BlockWritten
    <3> HIDE DEF A
    <3>5. A.ok /\ A.s = W
      BY Zenon, <3>1
    <3> QED BY Zenon, <2>0, <3>4, <3>5 DEF A
  <2> QED BY Zenon, <2>3, <2>4
<1> QED BY ZenonT(60), <1>1, <1>2

-----------------------------------------------------------------------------
(* ext2_create and ext2_mkdir. *)

\* Giving back what was just taken.
LEMMA CountsBack ==
    ASSUME NEW F \in Free
    PROVE  /\ [[F EXCEPT !.inodes = @ - 1] EXCEPT !.inodes = @ + 1] = F
           /\ \A b : [[[[F EXCEPT !.inodes = @ - 1] EXCEPT !.blocks = @ - 1]
                          EXCEPT !.blocks = @ + Cardinality({b})] EXCEPT !.inodes = @ + 1] = F
<1>1. \A b : Cardinality({b}) = 1
  BY Zenon, FS_Singleton
<1>2. F = [blocks |-> F.blocks, inodes |-> F.inodes] /\ F.blocks \in Nat /\ F.inodes \in Nat
  BY Zenon DEF Free
<1> DEFINE F1 == [F EXCEPT !.inodes = @ - 1]
           F2 == [F1 EXCEPT !.blocks = @ - 1]
           F3 == [F2 EXCEPT !.blocks = @ + 1]
<1>a. F1 = [blocks |-> F.blocks, inodes |-> F.inodes - 1]
  BY <1>2
<1>b. F2 = [blocks |-> F.blocks - 1, inodes |-> F.inodes - 1]
  <2> HIDE DEF F1
  <2> QED BY <1>a
<1>c. F3 = [blocks |-> F.blocks - 1 + 1, inodes |-> F.inodes - 1]
  <2> HIDE DEF F2
  <2> QED BY <1>b
<1>d. F.blocks - 1 + 1 = F.blocks /\ F.inodes - 1 + 1 = F.inodes
  BY <1>2
<1>3. [F1 EXCEPT !.inodes = @ + 1] = F
  <2> HIDE DEF F1
  <2>1. [F1 EXCEPT !.inodes = @ + 1] = [blocks |-> F.blocks, inodes |-> F.inodes - 1 + 1]
    BY <1>a
  <2> QED BY Zenon, <1>2, <1>d, <2>1
<1>4. [F3 EXCEPT !.inodes = @ + 1] = F
  <2> HIDE DEF F3
  <2>1. [F3 EXCEPT !.inodes = @ + 1] = [blocks |-> F.blocks - 1 + 1, inodes |-> F.inodes - 1 + 1]
    BY <1>c
  <2> QED BY Zenon, <1>2, <1>d, <2>1
<1> QED BY Zenon, <1>1, <1>3, <1>4

\* S1 is S with a new inode n, which no directory names yet.
Begun(S1, S, n) ==
    /\ n \in Inodes \ S.m.inodes /\ n # Root
    /\ S1.m.inodes = S.m.inodes \cup {n}
    /\ \A k \in Inodes \ {n} : S1.m.inode[k] = S.m.inode[k]
    /\ S1.m.inode[n].table = S.m.inode[n].table
    /\ \A i \in Direct \ {0} : S1.m.inode[n].block[i] = S.m.inode[n].block[i]
    /\ Found(S1) \subseteq Found(S)

\* The new inode of ext2_create and ext2_mkdir may be entered under its name.
LEMMA BegunEnters ==
    ASSUME NEW S, NEW X, NEW ex, Good(S, X, ex), NEW S1, NEW n, Begun(S1, S, n),
           NEW p \in S.m.inodes, NEW name \in Names, vacant(S, p, name),
           p = Root /\ name = Journal => S1.m.inode[n].mode # "dir"
    PROVE  IsDir(S1, p) => Enters(S1, p, n, name)
<1>s. S.m.inodes \subseteq Inodes /\ Named(Found(S), S.m.inodes)
  BY GoodIs, SaneIs, Zenon DEF Found
<1>1. p \in Inodes /\ p # n /\ S1.m.inode[p] = S.m.inode[p]
  BY Zenon, <1>s DEF Begun
<1> SUFFICES ASSUME IsDir(S1, p) PROVE Enters(S1, p, n, name)
  BY Zenon
<1>2. IsDir(S, p)
  BY Zenon, <1>1 DEF IsDir
<1>3. \A x \in Found(S) : ~(x[1] = p /\ x[3][1] = name)
  BY <1>2, FindIs DEF vacant
<1>4. \A x \in Found(S) : x[3][2] # n
  BY Zenon, <1>s DEF Named, Begun
<1>5. Fresh(Found(S1), p, name, n)
  BY Zenon, <1>3, <1>4 DEF Begun, Fresh
<1> QED BY Zenon, <1>5 DEF Enters, Begun

\* A call that fails after taking inode n, and perhaps a block, leaves S with
\* something else in what is free.
LEMMA UndoneGood ==
    ASSUME NEW S, NEW ex, Good(S, {}, ex), Saved(S), NEW S1, NEW n, Begun(S1, S, n), NEW R,
           Shape(R), R.m.inode = S1.m.inode, R.m.inode \in [Inodes -> InodeRecord],
           R.m.blocks = S.m.blocks, R.m.inodes = S.m.inodes, R.m.free = S.m.free,
           R.d.inode = S.d.inode, R.d.blocks = S.d.blocks, R.d.inodes = S.d.inodes,
           R.d.free = S.d.free,
           R.d.dir \in [Blocks -> SUBSET AllEntries],
           R.d.table \in [Blocks -> [Table -> Blocks \cup {0}]],
           \A b \in S.m.blocks : R.d.dir[b] = S.d.dir[b] /\ R.d.table[b] = S.d.table[b]
    PROVE  Good(R, {}, ex) /\ Saved(R)
<1>s. /\ S.m.inode \in [Inodes -> InodeRecord] /\ S.m.inodes \subseteq Inodes
      /\ S.m.blocks \subseteq Blocks
      /\ Sane(S.m.inode, S.m.blocks, S.m.inodes, S.d.dir, S.d.table)
      /\ Counts(S.m.blocks, S.m.inodes, S.m.free, ex)
      /\ Synced(S.m.inode, S.m.inodes, S.d.inode, {})
  BY Zenon, GoodIs
<1>1. DeadClear(S.m.inode, S.m.inodes)
  BY Zenon, <1>s, SaneIs
<1>2. n \in Inodes \ S.m.inodes
  BY Zenon DEF Begun
<1>3. \A k \in S.m.inodes : R.m.inode[k] = S.m.inode[k]
  BY Zenon, <1>s, <1>2 DEF Begun
<1>4. \A k \in Inodes : R.m.inode[k].table = S.m.inode[k].table
  BY SMTT(60), <1>2 DEF Begun
<1>5. \A k \in Inodes \ S.m.inodes : \A i \in Direct \ {0} : R.m.inode[k].block[i] = 0
  BY SMTT(60), <1>1, <1>2 DEF Begun, DeadClear
<1>6. Typed(R.m.inode, S.m.blocks, S.m.inodes, R.d.dir, R.d.table)
  BY Zenon, <1>s DEF Typed
<1>7. Sane(R.m.inode, S.m.blocks, S.m.inodes, R.d.dir, R.d.table)
  <2>1. \A c \in S.m.blocks : R.d.dir[c] = S.d.dir[c] /\ R.d.table[c] = S.d.table[c]
    BY Zenon
  <2>2. Scratched(S.m.inode, S.m.blocks, S.m.inodes, S.d.dir, S.d.table,
                  R.m.inode, R.d.dir, R.d.table)
    BY Zenon, <1>3, <1>4, <1>5, <1>6, <2>1 DEF Scratched
  <2> QED BY ZenonT(60), <1>s, <2>2, Scratch
<1>8. Synced(R.m.inode, R.m.inodes, R.d.inode, {})
  <2>1. R.d.inode \in [Inodes -> InodeRecord]
    BY Zenon, <1>s DEF Synced
  <2>2. ASSUME NEW k \in Inodes
        PROVE  SameInode(R.m.inode[k], R.d.inode[k], k \in R.m.inodes)
    <3>1. SameInode(S.m.inode[k], S.d.inode[k], k \in S.m.inodes)
      BY Zenon, <1>s DEF Synced
    <3> QED BY Zenon, <1>3, <1>4, <3>1 DEF SameInode
  <2> QED BY Zenon, <2>1, <2>2 DEF Synced
<1> QED BY Zenon, <1>s, <1>7, <1>8 DEF Good, Saved

\* The new file of ext2_create before it has a name.
LEMMA NewFileGood ==
    ASSUME NEW S, NEW ex, Good(S, {}, ex), NEW n \in Inodes \ S.m.inodes, n # Root
    PROVE  LET S1 == SetStart(take_inode(S, n), n, "file", 0, 0)
           IN  /\ Good(S1, {n}, ex) /\ Begun(S1, S, n) /\ S1.m.inode[n].mode = "file"
               /\ S1.d = S.d /\ S1.m.blocks = S.m.blocks
               /\ S1.m.free = [S.m.free EXCEPT !.inodes = @ - 1]
<1> DEFINE T == take_inode(S, n)
           S1 == SetStart(T, n, "file", 0, 0)
<1>s. /\ Shape(S) /\ S.m.inode \in [Inodes -> InodeRecord] /\ S.m.inodes \subseteq Inodes
      /\ S.m.blocks \subseteq Blocks
      /\ Sane(S.m.inode, S.m.blocks, S.m.inodes, S.d.dir, S.d.table)
      /\ Counts(S.m.blocks, S.m.inodes, S.m.free, ex)
      /\ Synced(S.m.inode, S.m.inodes, S.d.inode, {})
  BY Zenon, GoodIs
<1>1. Mem(T, S, S.m.inode, S.m.blocks, S.m.inodes \cup {n}, [S.m.free EXCEPT !.inodes = @ - 1])
  BY <1>s, TakeInodeIs, Zenon
<1> HIDE DEF T
<1>2. Shape(T) /\ T.m.inode = S.m.inode /\ T.m.inode \in [Inodes -> InodeRecord]
  BY Zenon, <1>s, <1>1 DEF Mem
<1>3. Inode(S1, T, n, "file", 0, [T.m.inode[n].block EXCEPT ![0] = 0], T.m.inode[n].table)
  <2>1. "file" \in Kinds /\ 0 \in Nat /\ 0 \in Blocks \cup {0} /\ n \in Inodes
    BY Zenon DEF Kinds
  <2> QED BY <1>2, <2>1, SetStartIs, Zenon
<1> HIDE DEF S1
<1>4. /\ Shape(S1) /\ S1.d = S.d /\ S1.m.blocks = S.m.blocks
      /\ S1.m.inodes = S.m.inodes \cup {n} /\ S1.m.free = [S.m.free EXCEPT !.inodes = @ - 1]
      /\ S1.m.inode \in [Inodes -> InodeRecord]
      /\ \A k \in Inodes \ {n} : S1.m.inode[k] = S.m.inode[k]
      /\ S1.m.inode[n].mode = "file" /\ S1.m.inode[n].table = S.m.inode[n].table
      /\ Upd(S1.m.inode[n].block, S.m.inode[n].block, 0, 0)
  BY <1>1, <1>2, <1>3 DEF Mem, Inode, Upd
<1>5. Sane(S1.m.inode, S1.m.blocks, S1.m.inodes, S1.d.dir, S1.d.table)
  <2>1. Grown(S1.m.inodes, S.m.inodes, n)
    BY Zenon, <1>4 DEF Grown
  <2>2. Sane(S1.m.inode, S.m.blocks, S1.m.inodes, S.d.dir, S.d.table)
    <3>1. FileTaken(S.m.inode, S.m.inodes, n, S1.m.inode, S1.m.inodes)
      BY Zenon, <1>4, <2>1 DEF FileTaken
    <3> QED BY ZenonT(60), <1>s, <3>1, NewFile
  <2> QED BY Zenon, <1>4, <2>2
<1>6. Counts(S1.m.blocks, S1.m.inodes, S1.m.free, ex)
  <2>1. S.m.inodes \in SUBSET Inodes
    BY Zenon, <1>s
  <2>2. Counts(S.m.blocks, S.m.inodes \cup {n}, [S.m.free EXCEPT !.inodes = @ - 1], ex)
    BY <1>s, <2>1, CountTakeInode, Zenon
  <2> QED BY Zenon, <1>4, <2>2
<1>7. Synced(S1.m.inode, S1.m.inodes, S1.d.inode, {n})
  BY SMTT(60), <1>s, <1>4 DEF Synced
<1>8. Good(S1, {n}, ex)
  BY Zenon, <1>4, <1>5, <1>6, <1>7 DEF Good
<1>9. Found(S1) \subseteq Found(S)
  <2> DEFINE I == S.m.inode
             N == S.m.inodes
             D == S.d.dir
             J == S1.m.inode
             M == S1.m.inodes
  <2>1. \A k \in Inodes, b \in Blocks, e \in AllEntries :
           At(J, M, D, k, b, e) => At(I, N, D, k, b, e)
    BY Zenon, <1>4 DEF At
  <2> HIDE DEF I, N, D, J, M
  <2>2. Filed(J, M, D) \subseteq Filed(I, N, D)
    <3> SUFFICES ASSUME NEW x \in Filed(J, M, D) PROVE x \in Filed(I, N, D)
      BY Zenon
    <3>1. /\ x = <<x[1], x[2], x[3]>> /\ x[1] \in Inodes /\ x[2] \in Blocks /\ x[3] \in AllEntries
          /\ At(J, M, D, x[1], x[2], x[3])
      BY Zenon, FiledIs
    <3>2. <<x[1], x[2], x[3]>> \in Filed(I, N, D)
      BY Zenon, <2>1, <3>1, FiledIs
    <3> QED BY Zenon, <3>1, <3>2
  <2> QED BY Zenon, <1>4, <2>2 DEF Found, I, N, D, J, M
<1>10. \A i \in Direct \ {0} : S1.m.inode[n].block[i] = S.m.inode[n].block[i]
  <2>1. S.m.inode[n].block \in [Direct -> Blocks \cup {0}]
    BY Zenon, <1>s, InodeIs
  <2> QED BY Zenon, <1>4, <2>1 DEF Upd
<1>11. Begun(S1, S, n)
  BY Zenon, <1>4, <1>9, <1>10 DEF Begun
<1> QED BY Zenon, <1>4, <1>8, <1>11 DEF S1, T

\* ext2_create, also when the directory is full.
LEMMA CreateGood ==
    ASSUME NEW S, NEW ex, Good(S, {}, ex), Saved(S), NEW p \in S.m.inodes, NEW name \in Names,
           vacant(S, p, name)
    PROVE  LET R == ext2_create(S, p, name)
           IN  /\ Good(R.s, {}, ex) /\ Saved(R.s)
               /\ R.ino # 0 => R.ino \in R.s.m.inodes /\ R.s.m.inode[R.ino].mode = "file"
<1> DEFINE n == free_inode_number(S)
           S1 == SetStart(take_inode(S, n), n, "file", 0, 0)
           A == add_entry_to_dir(S1, p, n, name)
           R == ext2_create(S, p, name)
<1>s. /\ S.m.inodes \subseteq Inodes /\ S.m.free \in Free /\ S.m.blocks \subseteq Blocks
      /\ S.d.dir \in [Blocks -> SUBSET AllEntries]
      /\ S.d.table \in [Blocks -> [Table -> Blocks \cup {0}]]
  BY Zenon, GoodIs
<1>r. R = IF n = 0 THEN [s |-> S, ino |-> 0]
          ELSE IF ~A.ok THEN [s |-> free_inode(S1, n), ino |-> 0]
          ELSE [s |-> write_bitmaps(write_superblock(write_inode(A.s, n))), ino |-> n]
  BY Zenon DEF ext2_create, SetStart
<1> HIDE DEF R
<1> SUFFICES /\ Good(R.s, {}, ex) /\ Saved(R.s)
             /\ R.ino # 0 => R.ino \in R.s.m.inodes /\ R.s.m.inode[R.ino].mode = "file"
  BY Zenon DEF R
<1>1. CASE n = 0
  <2>1. R.s = S /\ R.ino = 0
    BY Zenon, <1>1, <1>r
  <2> QED BY Zenon, <2>1
<1>2. CASE n # 0
  <2>1. n \in Inodes \ S.m.inodes /\ n # Root
    BY Zenon, <1>2, FreeInodeNumberIs
  <2> HIDE DEF n
  <2>2. /\ Good(S1, {n}, ex) /\ Begun(S1, S, n) /\ S1.m.inode[n].mode = "file"
        /\ S1.d = S.d /\ S1.m.blocks = S.m.blocks
        /\ S1.m.free = [S.m.free EXCEPT !.inodes = @ - 1]
    BY Zenon, <2>1, NewFileGood
  <2> HIDE DEF S1
  <2>3. p \in S1.m.inodes /\ p # n
    BY Zenon, <2>1, <2>2 DEF Begun
  <2>4. IsDir(S1, p) => Enters(S1, p, n, name)
    BY Zenon, <2>2, BegunEnters
  <2>5. \/ ~A.ok /\ A.s = S1
        \/ A.ok /\ Good(A.s, {n}, ex) /\ Kept(A.s, S1, p) /\ IsDir(S1, p)
    BY SMTT(60), <2>2, <2>3, <2>4, AddEntryGood
  <2> HIDE DEF A
  <2>6. CASE ~A.ok
    <3> DEFINE F == free_inode(S1, n)
    <3>1. R.s = F /\ R.ino = 0
      BY Zenon, <1>2, <1>r, <2>6
    <3>2. Shape(S1) /\ S1.m.inode \in [Inodes -> InodeRecord]
      BY Zenon, <2>2, GoodIs
    <3>3. Mem(F, S1, S1.m.inode, S1.m.blocks, S1.m.inodes \ {n}, [S1.m.free EXCEPT !.inodes = @ + 1])
      BY <3>2, FreeInodeIs, Zenon
    <3> HIDE DEF F
    <3>4. [S1.m.free EXCEPT !.inodes = @ + 1] = S.m.free
      BY Zenon, <1>s, <2>2, CountsBack
    <3>5. S1.m.inodes \ {n} = S.m.inodes
      BY Zenon, <2>1, <2>2 DEF Begun
    <3>6. /\ Shape(F) /\ F.m.inode = S1.m.inode /\ F.m.inode \in [Inodes -> InodeRecord]
          /\ F.m.blocks = S.m.blocks /\ F.m.inodes = S.m.inodes /\ F.m.free = S.m.free
          /\ F.d = S.d
      BY Zenon, <2>2, <3>2, <3>3, <3>4, <3>5 DEF Mem
    <3>7. Good(F, {}, ex) /\ Saved(F)
      BY Zenon, <1>s, <2>2, <3>6, UndoneGood
    <3> QED BY Zenon, <3>1, <3>7
  <2>7. CASE A.ok
    <3> DEFINE W == write_inode(A.s, n)
               Z == write_bitmaps(write_superblock(W))
    <3>1. R.s = Z /\ R.ino = n
      BY Zenon, <1>2, <1>r, <2>7
    <3>2. Good(A.s, {n}, ex) /\ Kept(A.s, S1, p)
      BY Zenon, <2>5, <2>7
    <3>3. Good(W, {n} \ {n}, ex) /\ W.m = A.s.m
      BY Zenon, <2>1, <3>2, WriteInodeGood, WriteInodeIs, GoodIs DEF InodeWritten
    <3> HIDE DEF W
    <3>4. Good(W, {}, ex)
      BY Zenon, <3>3, GoodMore
    <3>5. Good(Z, {}, ex) /\ Saved(Z) /\ Z.m = W.m
      BY Zenon, <3>4, WriteRestGood
    <3> HIDE DEF Z
    <3>6. n \in Z.m.inodes /\ Z.m.inode[n].mode = "file"
      BY SMTT(60), <2>1, <2>2, <2>3, <3>2, <3>3, <3>5 DEF Kept, Begun
    <3> QED BY Zenon, <3>1, <3>5, <3>6
  <2> QED BY Zenon, <2>6, <2>7
<1> QED BY Zenon, <1>1, <1>2

\* The new directory n, with its one block b, before its parent names it.
StartDir(S, n, b, p) ==
    Put(SetStart(take_block(take_inode(S, n), b), n, "dir", 1, b),
        "dir", b, {<<".", n>>, <<"..", p>>})

\* S2 is S with the new directory n in block b, not yet named.
DirBegun(S2, S, n, b, ex) ==
    /\ Good(S2, {n}, ex) /\ Begun(S2, S, n)
    /\ S2.m.blocks = S.m.blocks \cup {b}
    /\ S2.m.free = [[S.m.free EXCEPT !.inodes = @ - 1] EXCEPT !.blocks = @ - 1]
    /\ S2.d.inode = S.d.inode /\ S2.d.blocks = S.d.blocks
    /\ S2.d.inodes = S.d.inodes /\ S2.d.free = S.d.free
    /\ \A c \in S.m.blocks : S2.d.dir[c] = S.d.dir[c] /\ S2.d.table[c] = S.d.table[c]

\* The new directory of ext2_mkdir before it has a name.
LEMMA NewDirGood ==
    ASSUME NEW S, NEW ex, Good(S, {}, ex), NEW n \in Inodes \ S.m.inodes, n # Root,
           NEW b \in Blocks \ S.m.blocks, NEW p \in Inodes
    PROVE  DirBegun(StartDir(S, n, b, p), S, n, b, ex)
<1> DEFINE es == {<<".", n>>, <<"..", p>>}
           T1 == take_inode(S, n)
           T == take_block(T1, b)
           S1 == SetStart(T, n, "dir", 1, b)
           S2 == Put(S1, "dir", b, es)
<1>s. /\ Shape(S) /\ S.m.inode \in [Inodes -> InodeRecord] /\ S.m.inodes \subseteq Inodes
      /\ S.m.blocks \subseteq Blocks
      /\ S.d.dir \in [Blocks -> SUBSET AllEntries]
      /\ S.d.table \in [Blocks -> [Table -> Blocks \cup {0}]]
      /\ Sane(S.m.inode, S.m.blocks, S.m.inodes, S.d.dir, S.d.table)
      /\ Counts(S.m.blocks, S.m.inodes, S.m.free, ex)
      /\ Synced(S.m.inode, S.m.inodes, S.d.inode, {})
  BY Zenon, GoodIs
<1>1. Mem(T1, S, S.m.inode, S.m.blocks, S.m.inodes \cup {n}, [S.m.free EXCEPT !.inodes = @ - 1])
  BY <1>s, TakeInodeIs, Zenon
<1> HIDE DEF T1
<1>2. Shape(T1)
  BY Zenon, <1>1 DEF Mem
<1>3. Mem(T, T1, T1.m.inode, T1.m.blocks \cup {b}, T1.m.inodes, [T1.m.free EXCEPT !.blocks = @ - 1])
  BY <1>2, TakeBlockIs, Zenon
<1> HIDE DEF T
<1>4. Shape(T) /\ T.m.inode = S.m.inode /\ T.m.inode \in [Inodes -> InodeRecord]
  BY Zenon, <1>s, <1>1, <1>3 DEF Mem
<1>5. Inode(S1, T, n, "dir", 1, [T.m.inode[n].block EXCEPT ![0] = b], T.m.inode[n].table)
  <2>1. "dir" \in Kinds /\ 1 \in Nat /\ b \in Blocks \cup {0} /\ n \in Inodes
    BY Zenon DEF Kinds
  <2> QED BY <1>4, <2>1, SetStartIs, Zenon
<1> HIDE DEF S1
<1>6. Shape(S1)
  BY Zenon, <1>5 DEF Inode, Mem
<1>7. BlockWritten(S2, S1, b, es, NoTable)
  BY <1>6, PutDirIs, Zenon
<1> HIDE DEF S2
<1>8. /\ Shape(S2) /\ S2.m.blocks = S.m.blocks \cup {b}
      /\ S2.m.inodes = S.m.inodes \cup {n}
      /\ S2.m.free = [[S.m.free EXCEPT !.inodes = @ - 1] EXCEPT !.blocks = @ - 1]
      /\ S2.m.inode \in [Inodes -> InodeRecord]
      /\ \A k \in Inodes \ {n} : S2.m.inode[k] = S.m.inode[k]
      /\ S2.m.inode[n].mode = "dir" /\ S2.m.inode[n].size = 1
      /\ S2.m.inode[n].table = S.m.inode[n].table
      /\ Upd(S2.m.inode[n].block, S.m.inode[n].block, 0, b)
      /\ S2.d.inode = S.d.inode /\ S2.d.blocks = S.d.blocks
      /\ S2.d.inodes = S.d.inodes /\ S2.d.free = S.d.free
      /\ Upd(S2.d.dir, S.d.dir, b, es) /\ Upd(S2.d.table, S.d.table, b, NoTable)
  <2> HIDE DEF es
  <2>1. T.m.blocks = S.m.blocks \cup {b} /\ T.m.inodes = S.m.inodes \cup {n} /\ T.d = S.d
    BY Zenon, <1>1, <1>3 DEF Mem
  <2>2. T.m.free = [[S.m.free EXCEPT !.inodes = @ - 1] EXCEPT !.blocks = @ - 1]
    BY <1>1, <1>3, Zenon DEF Mem
  <2>3. S2.m = S1.m
    BY Zenon, <1>7 DEF BlockWritten
  <2>4. S1.m.free = T.m.free /\ S1.m.blocks = T.m.blocks /\ S1.m.inodes = T.m.inodes /\ S1.d = T.d
    BY Zenon, <1>5 DEF Inode, Mem
  <2>5. /\ S2.m.inode \in [Inodes -> InodeRecord]
        /\ \A k \in Inodes \ {n} : S2.m.inode[k] = S.m.inode[k]
        /\ S2.m.inode[n].mode = "dir" /\ S2.m.inode[n].size = 1
        /\ S2.m.inode[n].table = S.m.inode[n].table
        /\ Upd(S2.m.inode[n].block, S.m.inode[n].block, 0, b)
    BY Zenon, <1>4, <1>5, <2>3 DEF Inode, Upd
  <2>6. /\ Shape(S2) /\ S2.d.inode = S.d.inode /\ S2.d.blocks = S.d.blocks
        /\ S2.d.inodes = S.d.inodes /\ S2.d.free = S.d.free
        /\ Upd(S2.d.dir, S.d.dir, b, es) /\ Upd(S2.d.table, S.d.table, b, NoTable)
    BY Zenon, <1>7, <2>1, <2>4 DEF BlockWritten
  <2> QED BY ZenonT(60), <2>1, <2>2, <2>3, <2>4, <2>5, <2>6
<1>9. es \in SUBSET AllEntries /\ \A e \in es : e[1] \in Dots
  BY SMTT(60) DEF AllEntries, Dots
<1>10. NoTable \in [Table -> Blocks \cup {0}]
  BY Zenon DEF NoTable
<1>11. /\ S2.d.dir[b] = es /\ S2.m.inode[n].block[0] = b
       /\ \A c \in Blocks \ {b} : S2.d.dir[c] = S.d.dir[c] /\ S2.d.table[c] = S.d.table[c]
       /\ \A i \in Direct \ {0} : S2.m.inode[n].block[i] = S.m.inode[n].block[i]
  <2>1. S.m.inode[n].block \in [Direct -> Blocks \cup {0}] /\ 0 \in Direct
    BY Zenon, <1>s, InodeIs, Consts
  <2> HIDE DEF es
  <2> QED BY Zenon, <1>s, <1>8, <2>1 DEF Upd
<1> HIDE DEF es
<1>12. Sane(S2.m.inode, S2.m.blocks, S2.m.inodes, S2.d.dir, S2.d.table)
  <2>1. Grown(S2.m.inodes, S.m.inodes, n) /\ Grown(S2.m.blocks, S.m.blocks, b)
    BY Zenon, <1>8 DEF Grown
  <2> QED BY <1>s, <1>8, <1>9, <2>1, NewDir, Zenon
<1>13. Counts(S2.m.blocks, S2.m.inodes, S2.m.free, ex)
  <2> DEFINE F1 == [S.m.free EXCEPT !.inodes = @ - 1]
             N1 == S.m.inodes \cup {n}
  <2>1. S.m.inodes \in SUBSET Inodes /\ S.m.blocks \in SUBSET Blocks
    BY Zenon, <1>s
  <2>2. Counts(S.m.blocks, N1, F1, ex)
    BY <1>s, <2>1, CountTakeInode, Zenon
  <2> HIDE DEF F1, N1
  <2>3. Counts(S.m.blocks \cup {b}, N1, [F1 EXCEPT !.blocks = @ - 1], ex)
    BY <2>1, <2>2, CountTakeBlock, Zenon
  <2> QED BY Zenon, <1>8, <2>3 DEF F1, N1
<1>14. Synced(S2.m.inode, S2.m.inodes, S2.d.inode, {n})
  BY SMTT(60), <1>s, <1>8 DEF Synced
<1>15. Good(S2, {n}, ex)
  BY Zenon, <1>8, <1>12, <1>13, <1>14 DEF Good
<1>16. Found(S2) \subseteq Found(S)
  <2> DEFINE I == S.m.inode
             N == S.m.inodes
             D == S.d.dir
             J == S2.m.inode
             M == S2.m.inodes
             D2 == S2.d.dir
  <2>1. \A k \in N : \A i \in Direct : I[k].block[i] # b
    <3>1. \A k \in N : \A i \in Direct : I[k].block[i] # 0 => I[k].block[i] \in S.m.blocks
      BY Zenon, <1>s, Owned DEF Owns
    <3> QED BY Zenon, <3>1, Consts
  <2>2. DeadClear(I, N) /\ Blocks \subseteq Nat \ {0}
    BY <1>s, SaneIs, Consts
  <2>3. ASSUME NEW k \in Inodes, NEW c \in Blocks, NEW e \in AllEntries, At(J, M, D2, k, c, e)
        PROVE  At(I, N, D, k, c, e)
    <3>1. PICK i \in Direct : J[k].block[i] = c
      BY Zenon, <2>3 DEF At
    <3>2. CASE k = n
      <4>1. i = 0
        BY SMTT(60), <1>11, <2>2, <3>1, <3>2 DEF DeadClear
      <4>2. c = b
        BY Zenon, <1>11, <3>1, <3>2, <4>1
      <4>3. e[1] \in Dots
        BY ZenonT(60), <1>9, <1>11, <2>3, <4>2 DEF At
      <4> QED BY Zenon, <2>3, <4>3 DEF At
    <3>3. CASE k # n
      <4>1. k \in N /\ J[k] = I[k]
        BY Zenon, <1>8, <2>3, <3>3 DEF At
      <4>2. c # b
        BY Zenon, <2>1, <3>1, <4>1
      <4>3. D2[c] = D[c]
        BY Zenon, <1>11, <4>2
      <4> QED BY Zenon, <2>3, <4>1, <4>3 DEF At
    <3> QED BY Zenon, <3>2, <3>3
  <2> HIDE DEF I, N, D, J, M, D2
  <2>4. Filed(J, M, D2) \subseteq Filed(I, N, D)
    <3> SUFFICES ASSUME NEW x \in Filed(J, M, D2) PROVE x \in Filed(I, N, D)
      BY Zenon
    <3>1. /\ x = <<x[1], x[2], x[3]>> /\ x[1] \in Inodes /\ x[2] \in Blocks /\ x[3] \in AllEntries
          /\ At(J, M, D2, x[1], x[2], x[3])
      BY Zenon, FiledIs
    <3>2. <<x[1], x[2], x[3]>> \in Filed(I, N, D)
      BY Zenon, <2>3, <3>1, FiledIs
    <3> QED BY Zenon, <3>1, <3>2
  <2> QED BY Zenon, <2>4 DEF Found, I, N, D, J, M, D2
<1>17. Begun(S2, S, n)
  BY Zenon, <1>8, <1>11, <1>16 DEF Begun
<1>18. \A c \in S.m.blocks : S2.d.dir[c] = S.d.dir[c] /\ S2.d.table[c] = S.d.table[c]
  BY Zenon, <1>s, <1>11
<1>19. DirBegun(S2, S, n, b, ex)
  BY ZenonT(60), <1>8, <1>15, <1>17, <1>18 DEF DirBegun
<1>20. StartDir(S, n, b, p) = S2
  BY Zenon DEF StartDir, S2, S1, T, T1, es
<1> QED BY Zenon, <1>19, <1>20

\* ext2_mkdir, also when the directory is full.
LEMMA MkdirGood ==
    ASSUME NEW S, NEW ex, Good(S, {}, ex), Saved(S), NEW p \in S.m.inodes, NEW name \in Names,
           vacant(S, p, name), ~(p = Root /\ name = Journal)
    PROVE  LET R == ext2_mkdir(S, p, name) IN Good(R, {}, ex) /\ Saved(R)
<1> DEFINE n == free_inode_number(S)
           b == free_block_number(S)
           S1 == SetStart(take_block(take_inode(S, n), b), n, "dir", 1, b)
           S2 == Put(S1, "dir", b, {<<".", n>>, <<"..", p>>})
           A == add_entry_to_dir(S2, p, n, name)
           R == ext2_mkdir(S, p, name)
<1>s. /\ S.m.inodes \subseteq Inodes /\ S.m.free \in Free /\ S.m.blocks \subseteq Blocks
      /\ p \in Inodes
  BY Zenon, GoodIs
<1>r. R = IF n = 0 \/ b = 0 THEN S
          ELSE IF ~A.ok THEN free_inode(free_blocks(S2, {b}), n)
          ELSE write_bitmaps(write_superblock(write_inode(write_inode(A.s, n), p)))
  BY Zenon DEF ext2_mkdir, SetStart
<1> HIDE DEF R
<1> SUFFICES Good(R, {}, ex) /\ Saved(R)
  BY Zenon DEF R
<1>1. CASE n = 0 \/ b = 0
  BY Zenon, <1>1, <1>r
<1>2. CASE ~(n = 0 \/ b = 0)
  <2>1. n \in Inodes \ S.m.inodes /\ n # Root /\ b \in Blocks \ S.m.blocks
    BY Zenon, <1>s, <1>2, FreeInodeNumberIs, FreeBlockIs
  <2> HIDE DEF n, b
  <2>2. /\ Good(S2, {n}, ex) /\ Begun(S2, S, n)
        /\ S2.m.blocks = S.m.blocks \cup {b}
        /\ S2.m.free = [[S.m.free EXCEPT !.inodes = @ - 1] EXCEPT !.blocks = @ - 1]
        /\ S2.d.inode = S.d.inode /\ S2.d.blocks = S.d.blocks
        /\ S2.d.inodes = S.d.inodes /\ S2.d.free = S.d.free
        /\ \A c \in S.m.blocks : S2.d.dir[c] = S.d.dir[c] /\ S2.d.table[c] = S.d.table[c]
    <3>1. DirBegun(StartDir(S, n, b, p), S, n, b, ex)
      BY Zenon, <1>s, <2>1, NewDirGood
    <3>2. StartDir(S, n, b, p) = S2
      BY Zenon DEF StartDir
    <3> QED BY ZenonT(60), <3>1, <3>2 DEF DirBegun
  <2> HIDE DEF S2
  <2>3. p \in S2.m.inodes /\ p # n
    BY Zenon, <2>1, <2>2 DEF Begun
  <2>4. IsDir(S2, p) => Enters(S2, p, n, name)
    BY Zenon, <2>2, BegunEnters
  <2>5. \/ ~A.ok /\ A.s = S2
        \/ A.ok /\ Good(A.s, {n}, ex) /\ Kept(A.s, S2, p) /\ IsDir(S2, p)
    BY SMTT(60), <2>2, <2>3, <2>4, AddEntryGood
  <2> HIDE DEF A
  <2>6. CASE ~A.ok
    <3> DEFINE G == free_blocks(S2, {b})
               F == free_inode(G, n)
    <3>1. R = F
      BY Zenon, <1>2, <1>r, <2>6
    <3>2. /\ Shape(S2) /\ S2.m.inode \in [Inodes -> InodeRecord]
          /\ S2.d.dir \in [Blocks -> SUBSET AllEntries]
          /\ S2.d.table \in [Blocks -> [Table -> Blocks \cup {0}]]
      BY Zenon, <2>2, GoodIs
    <3>3. Mem(G, S2, S2.m.inode, S2.m.blocks \ {b}, S2.m.inodes,
              [S2.m.free EXCEPT !.blocks = @ + Cardinality({b})])
      BY <3>2, FreeBlocksIs, Zenon
    <3> HIDE DEF G
    <3>4. Shape(G)
      BY Zenon, <3>3 DEF Mem
    <3>5. Mem(F, G, G.m.inode, G.m.blocks, G.m.inodes \ {n}, [G.m.free EXCEPT !.inodes = @ + 1])
      BY <3>4, FreeInodeIs, Zenon
    <3> HIDE DEF F
    <3>6. F.m.free = S.m.free
      <4>1. F.m.free = [[[[S.m.free EXCEPT !.inodes = @ - 1] EXCEPT !.blocks = @ - 1]
                          EXCEPT !.blocks = @ + Cardinality({b})] EXCEPT !.inodes = @ + 1]
        BY <2>2, <3>3, <3>5, ZenonT(60) DEF Mem
      <4> QED BY <1>s, <4>1, CountsBack, Zenon
    <3>7. S2.m.inodes \ {n} = S.m.inodes /\ S2.m.blocks \ {b} = S.m.blocks
      BY SMTT(60), <2>1, <2>2 DEF Begun
    <3>8. /\ Shape(F) /\ F.m.inode = S2.m.inode /\ F.m.inode \in [Inodes -> InodeRecord]
          /\ F.m.blocks = S.m.blocks /\ F.m.inodes = S.m.inodes /\ F.d = S2.d
      BY ZenonT(60), <3>2, <3>3, <3>5, <3>7 DEF Mem
    <3>9. Good(F, {}, ex) /\ Saved(F)
      BY SMTT(60), <2>2, <3>2, <3>6, <3>8, UndoneGood
    <3> QED BY Zenon, <3>1, <3>9
  <2>7. CASE A.ok
    <3> DEFINE V == write_inode(A.s, n)
               W == write_inode(V, p)
               Z == write_bitmaps(write_superblock(W))
    <3>1. R = Z
      BY Zenon, <1>2, <1>r, <2>7
    <3>2. Good(A.s, {n}, ex)
      BY Zenon, <2>5, <2>7
    <3>3. Good(V, {n} \ {n}, ex)
      BY Zenon, <2>1, <3>2, WriteInodeGood
    <3> HIDE DEF V
    <3>4. Good(W, ({n} \ {n}) \ {p}, ex)
      BY Zenon, <1>s, <3>3, WriteInodeGood
    <3> HIDE DEF W
    <3>5. Good(W, {}, ex)
      BY Zenon, <3>4, GoodMore
    <3>6. Good(Z, {}, ex) /\ Saved(Z)
      BY Zenon, <3>5, WriteRestGood
    <3> QED BY Zenon, <3>1, <3>6
  <2> QED BY Zenon, <2>6, <2>7
<1> QED BY Zenon, <1>1, <1>2

-----------------------------------------------------------------------------
(* ext2_truncate and ext2_write. *)

\* Inode n is a file's.
IsFile(S, n) == n \in S.m.inodes /\ S.m.inode[n].mode # "dir"

\* Another size of a file.
LEMMA ResizeGood ==
    ASSUME NEW S, NEW X, NEW ex, Good(S, X, ex), NEW n, IsFile(S, n), NEW size \in Nat
    PROVE  LET R == SetSize(S, n, size)
           IN  Good(R, X \cup {n}, ex) /\ IsFile(R, n) /\ R.d = S.d /\ (Saved(S) => Saved(R))
<1> DEFINE R == SetSize(S, n, size)
<1>s. /\ Shape(S) /\ S.m.inode \in [Inodes -> InodeRecord] /\ n \in Inodes /\ n \in S.m.inodes
      /\ Sane(S.m.inode, S.m.blocks, S.m.inodes, S.d.dir, S.d.table)
      /\ Counts(S.m.blocks, S.m.inodes, S.m.free, ex)
      /\ Synced(S.m.inode, S.m.inodes, S.d.inode, X)
  BY Zenon, GoodIs DEF IsFile
<1>1. Inode(R, S, n, S.m.inode[n].mode, size, S.m.inode[n].block, S.m.inode[n].table)
  BY <1>s, SetSizeIs, Zenon
<1> HIDE DEF R
<1>2. /\ Shape(R) /\ R.d = S.d /\ R.m.blocks = S.m.blocks /\ R.m.inodes = S.m.inodes
      /\ R.m.free = S.m.free /\ R.m.inode \in [Inodes -> InodeRecord]
      /\ \A k \in Inodes \ {n} : R.m.inode[k] = S.m.inode[k]
      /\ R.m.inode[n].mode = S.m.inode[n].mode /\ R.m.inode[n].block = S.m.inode[n].block
      /\ R.m.inode[n].table = S.m.inode[n].table
  BY Zenon, <1>1 DEF Inode, Mem
<1>3. Sane(R.m.inode, S.m.blocks, S.m.inodes, S.d.dir, S.d.table)
  <2>1. Resized(S.m.inode, S.m.inodes, n, R.m.inode)
    BY Zenon, <1>2 DEF Resized, IsFile
  <2> QED BY ZenonT(60), <1>s, <2>1, Resize
<1>4. Synced(R.m.inode, R.m.inodes, R.d.inode, X \cup {n})
  BY Zenon, <1>s, <1>2 DEF Synced
<1>5. Good(R, X \cup {n}, ex)
  BY Zenon, <1>s, <1>2, <1>3, <1>4 DEF Good
<1>6. IsFile(R, n) /\ (Saved(S) => Saved(R))
  BY Zenon, <1>2 DEF IsFile, Saved
<1> QED BY Zenon, <1>2, <1>5, <1>6 DEF R

\* ext2_truncate keeps the blocks of the file.
LEMMA TruncateGood ==
    ASSUME NEW S, NEW ex, Good(S, {}, ex), Saved(S), NEW n, IsFile(S, n)
    PROVE  LET R == ext2_truncate(S, n)
           IN  Good(R, {}, ex) /\ Saved(R) /\ IsFile(R, n)
<1> DEFINE R == ext2_truncate(S, n)
           P == SetSize(S, n, 0)
           W == write_inode(P, n)
<1>1. R = IF n < InodesCount THEN W ELSE S
  BY Zenon DEF ext2_truncate, SetSize
<1>2. Good(P, {} \cup {n}, ex) /\ IsFile(P, n) /\ Saved(P)
  BY Zenon, ResizeGood
<1>3. n \in Inodes
  BY Zenon, GoodIs DEF IsFile
<1> HIDE DEF P
<1>4. Good(W, ({} \cup {n}) \ {n}, ex)
  BY Zenon, <1>2, <1>3, WriteInodeGood
<1>5. Good(W, {}, ex)
  BY Zenon, <1>4, GoodMore
<1>6. InodeWritten(W, P, n, P.m.inode[n])
  BY Zenon, <1>2, GoodIs, WriteInodeIs
<1> HIDE DEF W, R
<1>7. Saved(W) /\ IsFile(W, n)
  BY Zenon, <1>2, <1>6 DEF InodeWritten, Saved, IsFile
<1>8. Good(R, {}, ex) /\ Saved(R) /\ IsFile(R, n)
  BY Zenon, <1>1, <1>5, <1>7
<1> QED BY Zenon, <1>8 DEF R

\* Data written to a block of a file.
LEMMA DataGood ==
    ASSUME NEW S, NEW X, NEW ex, Good(S, X, ex), NEW b \in S.m.blocks,
           \A k \in Inodes : S.m.inode[k].table # b,
           \A k \in S.m.inodes : S.m.inode[k].mode = "dir" =>
              \A i \in Direct : S.m.inode[k].block[i] # b
    PROVE  LET P == Put(S, "data", b, 0) IN Good(P, X, ex) /\ P.m = S.m
<1> DEFINE P == Put(S, "data", b, 0)
<1>s. /\ Shape(S)
      /\ Sane(S.m.inode, S.m.blocks, S.m.inodes, S.d.dir, S.d.table)
      /\ Counts(S.m.blocks, S.m.inodes, S.m.free, ex)
      /\ Synced(S.m.inode, S.m.inodes, S.d.inode, X)
  BY Zenon, GoodIs
<1>1. BlockWritten(P, S, b, {}, NoTable)
  BY <1>s, PutDataIs, Zenon
<1> HIDE DEF P
<1>2. /\ Shape(P) /\ P.m = S.m /\ P.d.inode = S.d.inode
      /\ Upd(P.d.dir, S.d.dir, b, {}) /\ Upd(P.d.table, S.d.table, b, NoTable)
  BY Zenon, <1>1 DEF BlockWritten
<1>3. Sane(S.m.inode, S.m.blocks, S.m.inodes, P.d.dir, P.d.table)
  BY <1>s, <1>2, DataWrite, Zenon
<1>4. Good(P, X, ex)
  BY Zenon, <1>s, <1>2, <1>3 DEF Good
<1> QED BY Zenon, <1>2, <1>4 DEF P

\* What ext2_bmap_alloc and the write of the block it returns leave.
Mapped(M, n, X, ex) ==
    \/ M.b = 0 /\ Good(M.s, X, ex) /\ IsFile(M.s, n)
    \/ /\ M.b # 0 /\ Good(Put(M.s, "data", M.b, 0), X, ex)
       /\ IsFile(Put(M.s, "data", M.b, 0), n)

\* ext2_bmap_alloc for a direct block.
LEMMA DirectGood ==
    ASSUME NEW S, NEW X, NEW ex, Good(S, X, ex), NEW n \in X, IsFile(S, n), NEW i \in Direct
    PROVE  Mapped(bmap_direct(S, n, i), n, X, ex)
<1> DEFINE new == free_block_number(S)
           old == S.m.inode[n].block[i]
           T == take_block(S, new)
           U == SetBlock(T, n, i, new)
           M == bmap_direct(S, n, i)
<1>s. /\ Shape(S) /\ S.m.inode \in [Inodes -> InodeRecord] /\ n \in Inodes /\ n \in S.m.inodes
      /\ S.m.blocks \subseteq Blocks
      /\ Sane(S.m.inode, S.m.blocks, S.m.inodes, S.d.dir, S.d.table)
      /\ Counts(S.m.blocks, S.m.inodes, S.m.free, ex)
      /\ Synced(S.m.inode, S.m.inodes, S.d.inode, X)
  BY Zenon, GoodIs DEF IsFile
<1>o. Owns(S.m.inode, S.m.blocks, S.m.inodes, S.d.table) /\ n \in S.m.inodes
  BY Zenon, <1>s, Owned DEF IsFile
<1>m. M = IF old # 0 THEN [s |-> S, b |-> old]
          ELSE IF new = 0 THEN [s |-> S, b |-> 0]
          ELSE [s |-> U, b |-> new]
  BY ZenonT(60) DEF bmap_direct, SetBlock
<1> HIDE DEF M
<1> SUFFICES Mapped(M, n, X, ex)
  BY Zenon DEF M
<1>1. CASE old # 0
  <2>1. M.s = S /\ M.b = old
    BY Zenon, <1>m, <1>1
  <2>2. old \in S.m.blocks /\ \A k \in Inodes : S.m.inode[k].table # old
    BY Zenon, <1>1, <1>o DEF Owns
  <2>3. \A k \in S.m.inodes : S.m.inode[k].mode = "dir" => \A j \in Direct : S.m.inode[k].block[j] # old
    <3>1. \A k \in S.m.inodes : \A j \in Direct : S.m.inode[k].block[j] = old => k = n
      <4> SUFFICES ASSUME NEW k \in S.m.inodes, NEW j \in Direct, S.m.inode[k].block[j] = old
                   PROVE  k = n
        BY Zenon
      <4> QED BY SMTT(60), <1>1, <1>o, OwnsOnce
    <3> QED BY Zenon, <3>1 DEF IsFile
  <2> HIDE DEF old
  <2>4. LET P == Put(S, "data", old, 0) IN Good(P, X, ex) /\ P.m = S.m
    BY Zenon, <2>2, <2>3, DataGood
  <2> QED BY Zenon, <1>1, <2>1, <2>4 DEF Mapped, IsFile
<1>2. CASE old = 0 /\ new = 0
  <2>1. M.s = S /\ M.b = 0
    BY Zenon, <1>m, <1>2
  <2> QED BY Zenon, <2>1 DEF Mapped
<1>3. CASE old = 0 /\ new # 0
  <2> DEFINE P == Put(U, "data", new, 0)
  <2>0. M.s = U /\ M.b = new
    BY Zenon, <1>m, <1>3
  <2>1. new \in Blocks \ S.m.blocks
    BY Zenon, <1>s, <1>3, FreeBlockIs
  <2> HIDE DEF new
  <2>2. Mem(T, S, S.m.inode, S.m.blocks \cup {new}, S.m.inodes, [S.m.free EXCEPT !.blocks = @ - 1])
    BY <1>s, TakeBlockIs, Zenon
  <2> HIDE DEF T
  <2>3. Shape(T) /\ T.m.inode = S.m.inode /\ T.m.inode \in [Inodes -> InodeRecord]
    BY Zenon, <1>s, <2>2 DEF Mem
  <2>4. Inode(U, T, n, T.m.inode[n].mode, T.m.inode[n].size,
              [T.m.inode[n].block EXCEPT ![i] = new], T.m.inode[n].table)
    BY <1>s, <2>1, <2>3, SetBlockIs, ZenonT(60)
  <2> HIDE DEF U
  <2>5. Shape(U)
    BY Zenon, <2>4 DEF Inode, Mem
  <2>6. BlockWritten(P, U, new, {}, NoTable)
    BY <2>5, PutDataIs, ZenonT(60)
  <2> HIDE DEF P
  <2>7. /\ Shape(P) /\ P.m.inodes = S.m.inodes /\ P.m.blocks = S.m.blocks \cup {new}
        /\ P.m.free = [S.m.free EXCEPT !.blocks = @ - 1]
        /\ P.d.inode = S.d.inode
        /\ P.m.inode \in [Inodes -> InodeRecord]
        /\ \A k \in Inodes \ {n} : P.m.inode[k] = S.m.inode[k]
        /\ P.m.inode[n].mode = S.m.inode[n].mode
        /\ P.m.inode[n].table = S.m.inode[n].table
        /\ Upd(P.m.inode[n].block, S.m.inode[n].block, i, new)
        /\ Upd(P.d.dir, S.d.dir, new, {}) /\ Upd(P.d.table, S.d.table, new, NoTable)
    BY SMTT(60), <2>2, <2>3, <2>4, <2>6 DEF Mem, Inode, BlockWritten, Upd
  <2>8. Takes(S.m.inode, S.m.blocks, S.m.inodes, S.d.dir, S.d.table, n, i, new, {},
              P.m.inode, P.m.blocks, P.d.dir, P.d.table)
    BY Zenon, <1>s, <1>3, <2>1, <2>7 DEF Takes, Grown
  <2>9. Sane(P.m.inode, P.m.blocks, S.m.inodes, P.d.dir, P.d.table)
    BY <1>s, <2>8, GrowFile, Zenon DEF IsFile
  <2>10. Counts(S.m.blocks \cup {new}, S.m.inodes, [S.m.free EXCEPT !.blocks = @ - 1], ex)
    <3>1. S.m.blocks \in SUBSET Blocks
      BY Zenon, <1>s
    <3> QED BY <1>s, <2>1, <3>1, CountTakeBlock, Zenon
  <2>11. Synced(P.m.inode, P.m.inodes, P.d.inode, X)
    BY Zenon, <1>s, <2>7 DEF Synced
  <2>12. Good(P, X, ex) /\ IsFile(P, n)
    BY Zenon, <2>7, <2>9, <2>10, <2>11 DEF Good, IsFile
  <2> QED BY Zenon, <1>3, <2>0, <2>12 DEF Mapped, P
<1> QED BY Zenon, <1>1, <1>2, <1>3

\* ext2_bmap_alloc gives the file a table.
LEMMA BmapTableGood ==
    ASSUME NEW S, NEW X, NEW ex, Good(S, X, ex), NEW n \in X, IsFile(S, n)
    PROVE  Good(bmap_table(S, n), X, ex) /\ IsFile(bmap_table(S, n), n)
<1> DEFINE new == free_block_number(S)
           Q == take_block(S, new)
           V == Put(Q, "table", new, NoTable)
           R == SetTable(V, n, new)
           M == bmap_table(S, n)
<1>s. /\ Shape(S) /\ S.m.inode \in [Inodes -> InodeRecord] /\ n \in Inodes /\ n \in S.m.inodes
      /\ S.m.blocks \subseteq Blocks
      /\ Sane(S.m.inode, S.m.blocks, S.m.inodes, S.d.dir, S.d.table)
      /\ Counts(S.m.blocks, S.m.inodes, S.m.free, ex)
      /\ Synced(S.m.inode, S.m.inodes, S.d.inode, X)
  BY Zenon, GoodIs DEF IsFile
<1>m. M = IF S.m.inode[n].table # 0 \/ new = 0 THEN S ELSE R
  BY Zenon DEF bmap_table, SetTable
<1> HIDE DEF M
<1> SUFFICES Good(M, X, ex) /\ IsFile(M, n)
  BY Zenon DEF M
<1>1. CASE S.m.inode[n].table # 0 \/ new = 0
  BY Zenon, <1>m, <1>1
<1>2. CASE ~(S.m.inode[n].table # 0 \/ new = 0)
  <2>1. new \in Blocks \ S.m.blocks
    BY Zenon, <1>s, <1>2, FreeBlockIs
  <2> HIDE DEF new
  <2>2. Mem(Q, S, S.m.inode, S.m.blocks \cup {new}, S.m.inodes, [S.m.free EXCEPT !.blocks = @ - 1])
    BY <1>s, TakeBlockIs, Zenon
  <2> HIDE DEF Q
  <2>3. Shape(Q)
    BY Zenon, <2>2 DEF Mem
  <2>4. BlockWritten(V, Q, new, {}, NoTable)
    BY <2>3, PutTableIs, Zenon
  <2> HIDE DEF V
  <2>5. Shape(V) /\ V.m.inode = S.m.inode /\ V.m.inode \in [Inodes -> InodeRecord]
    BY ZenonT(60), <1>s, <2>2, <2>4 DEF Mem, BlockWritten
  <2>6. Inode(R, V, n, V.m.inode[n].mode, V.m.inode[n].size, V.m.inode[n].block, new)
    BY <1>s, <2>1, <2>5, SetTableIs, Zenon
  <2> HIDE DEF R
  <2>7. /\ Shape(R) /\ R.m.inodes = S.m.inodes /\ R.m.blocks = S.m.blocks \cup {new}
        /\ R.m.free = [S.m.free EXCEPT !.blocks = @ - 1]
        /\ R.d.inode = S.d.inode
        /\ R.m.inode \in [Inodes -> InodeRecord]
        /\ \A k \in Inodes \ {n} : R.m.inode[k] = S.m.inode[k]
        /\ R.m.inode[n].mode = S.m.inode[n].mode /\ R.m.inode[n].size = S.m.inode[n].size
        /\ R.m.inode[n].block = S.m.inode[n].block /\ R.m.inode[n].table = new
        /\ Upd(R.d.dir, S.d.dir, new, {}) /\ Upd(R.d.table, S.d.table, new, NoTable)
    BY ZenonT(60), <2>2, <2>4, <2>5, <2>6 DEF Mem, Inode, BlockWritten
  <2>8. Sane(R.m.inode, R.m.blocks, S.m.inodes, R.d.dir, R.d.table)
    <3>1. Grown(R.m.blocks, S.m.blocks, new) /\ S.m.inode[n].table = 0
      BY Zenon, <1>2, <2>7 DEF Grown
    <3>2. TableTaken(S.m.inode, S.m.blocks, S.m.inodes, S.d.dir, S.d.table, n, new,
                     R.m.inode, R.m.blocks, R.d.dir, R.d.table)
      BY ZenonT(60), <1>s, <2>1, <2>7, <3>1 DEF TableTaken, IsFile
    <3> QED BY Zenon, <1>s, <3>2, NewTable
  <2>9. Counts(S.m.blocks \cup {new}, S.m.inodes, [S.m.free EXCEPT !.blocks = @ - 1], ex)
    <3>1. S.m.blocks \in SUBSET Blocks
      BY Zenon, <1>s
    <3> QED BY <1>s, <2>1, <3>1, CountTakeBlock, ZenonT(60)
  <2>10. Synced(R.m.inode, R.m.inodes, R.d.inode, X)
    BY Zenon, <1>s, <2>7 DEF Synced
  <2>11. Good(R, X, ex) /\ IsFile(R, n)
    BY Zenon, <2>7, <2>8, <2>9, <2>10 DEF Good, IsFile
  <2> QED BY Zenon, <1>m, <1>2, <2>11
<1> QED BY Zenon, <1>1, <1>2

\* ext2_bmap_alloc for a block in the table.
LEMMA IndirectGood ==
    ASSUME NEW S, NEW X, NEW ex, Good(S, X, ex), NEW n \in X, IsFile(S, n), NEW j \in Table
    PROVE  Mapped(bmap_indirect(S, n, j), n, X, ex)
<1> DEFINE T == bmap_table(S, n)
           t == T.m.inode[n].table
           old == T.d.table[t][j]
           new == free_block_number(T)
           row == [T.d.table[t] EXCEPT ![j] = new]
           U == take_block(T, new)
           V == Put(U, "table", t, row)
           M == bmap_indirect(S, n, j)
<1>m. M = IF t = 0 THEN [s |-> T, b |-> 0]
          ELSE IF old # 0 THEN [s |-> T, b |-> old]
          ELSE IF new = 0 THEN [s |-> T, b |-> 0]
          ELSE [s |-> V, b |-> new]
  BY ZenonT(60) DEF bmap_indirect
<1>0. Good(T, X, ex) /\ IsFile(T, n)
  BY Zenon, BmapTableGood
<1> HIDE DEF M, T
<1> SUFFICES Mapped(M, n, X, ex)
  BY Zenon DEF M
<1>s. /\ Shape(T) /\ T.m.inode \in [Inodes -> InodeRecord] /\ n \in Inodes /\ n \in T.m.inodes
      /\ T.m.blocks \subseteq Blocks
      /\ Sane(T.m.inode, T.m.blocks, T.m.inodes, T.d.dir, T.d.table)
      /\ Counts(T.m.blocks, T.m.inodes, T.m.free, ex)
      /\ Synced(T.m.inode, T.m.inodes, T.d.inode, X)
  BY Zenon, <1>0, GoodIs DEF IsFile
<1>1. CASE t = 0 \/ (old = 0 /\ new = 0)
  <2>1. M = [s |-> T, b |-> 0]
    BY Zenon, <1>m, <1>1
  <2>2. M.s = T /\ M.b = 0
    BY Zenon, <2>1
  <2> QED BY Zenon, <1>0, <2>2 DEF Mapped
<1>2. CASE t # 0 /\ old # 0
  <2>1. M.s = T /\ M.b = old
    BY Zenon, <1>m, <1>2
  <2>2. /\ old \in T.m.blocks /\ \A k \in Inodes : T.m.inode[k].table # old
        /\ \A k \in T.m.inodes : \A i \in Direct : T.m.inode[k].block[i] # old
    <3>1. Owns(T.m.inode, T.m.blocks, T.m.inodes, T.d.table)
      BY Zenon, <1>s, Owned
    <3> QED BY Zenon, <1>s, <1>2, <3>1 DEF Owns, IsFile
  <2> HIDE DEF old
  <2>3. LET P == Put(T, "data", old, 0) IN Good(P, X, ex) /\ P.m = T.m
    BY Zenon, <1>0, <2>2, DataGood
  <2> QED BY Zenon, <1>0, <1>2, <2>1, <2>3 DEF Mapped, IsFile
<1>3. CASE t # 0 /\ old = 0 /\ new # 0
  <2>0. M.s = V /\ M.b = new
    BY Zenon, <1>m, <1>3
  <2>1. new \in Blocks \ T.m.blocks
    BY Zenon, <1>s, <1>3, FreeBlockIs
  <2> HIDE DEF new
  <2>2. Mem(U, T, T.m.inode, T.m.blocks \cup {new}, T.m.inodes, [T.m.free EXCEPT !.blocks = @ - 1])
    BY <1>s, TakeBlockIs, Zenon
  <2> HIDE DEF U
  <2>3. Shape(U)
    BY Zenon, <2>2 DEF Mem
  <2>4. BlockWritten(V, U, t, {}, row)
    BY <2>3, PutTableIs, Zenon
  <2>5. Upd(row, T.d.table[t], j, new)
    BY Zenon DEF Upd
  <2> HIDE DEF V, row
  <2>6. /\ Shape(V) /\ V.m.inode = T.m.inode /\ V.m.inodes = T.m.inodes
        /\ V.m.blocks = T.m.blocks \cup {new}
        /\ V.m.free = [T.m.free EXCEPT !.blocks = @ - 1]
        /\ V.d.inode = T.d.inode
        /\ Upd(V.d.dir, T.d.dir, t, {}) /\ Upd(V.d.table, T.d.table, t, row)
    BY Zenon, <2>2, <2>4 DEF Mem, BlockWritten
  <2>7. /\ Sane(T.m.inode, V.m.blocks, T.m.inodes, V.d.dir, V.d.table) /\ new \in V.m.blocks
        /\ \A k \in Inodes : T.m.inode[k].table # new
        /\ \A k \in T.m.inodes : \A i \in Direct : T.m.inode[k].block[i] # new
    <3>1. Grown(V.m.blocks, T.m.blocks, new)
      BY Zenon, <2>6 DEF Grown
    <3>2. EntryTaken(T.m.inode, T.m.blocks, T.m.inodes, T.d.dir, T.d.table, n, t, j, new, row,
                     V.m.blocks, V.d.dir, V.d.table)
      BY ZenonT(60), <1>s, <1>3, <2>1, <2>5, <2>6, <3>1 DEF EntryTaken, IsFile
    <3>3. EntryDone(T.m.inode, V.m.blocks, T.m.inodes, V.d.dir, V.d.table, new)
      BY ZenonT(60), <1>s, <3>2, TableEntry
    <3> QED BY Zenon, <3>3 DEF EntryDone
  <2>8. Counts(T.m.blocks \cup {new}, T.m.inodes, [T.m.free EXCEPT !.blocks = @ - 1], ex)
    <3>1. T.m.blocks \in SUBSET Blocks
      BY Zenon, <1>s
    <3> QED BY <1>s, <2>1, <3>1, CountTakeBlock, ZenonT(60)
  <2>9. Good(V, X, ex)
    BY ZenonT(60), <1>s, <2>6, <2>7, <2>8 DEF Good
  <2>10. LET P == Put(V, "data", new, 0) IN Good(P, X, ex) /\ P.m = V.m
    BY SMTT(60), <2>6, <2>7, <2>9, DataGood
  <2> QED BY ZenonT(60), <1>0, <1>3, <2>0, <2>6, <2>10 DEF Mapped, IsFile
<1> QED BY Zenon, <1>1, <1>2, <1>3

\* ext2_bmap_alloc, whichever block is asked for.
LEMMA BmapGood ==
    ASSUME NEW S, NEW X, NEW ex, Good(S, X, ex), NEW n \in X, IsFile(S, n), NEW bi \in Nat
    PROVE  Mapped(bmap_alloc(S, n, bi), n, X, ex)
<1>1. CASE bi < NDirect
  <2>1. bi \in Direct /\ bmap_alloc(S, n, bi) = bmap_direct(S, n, bi)
    BY SMTT(60), <1>1, Ext2Assumption DEF bmap_alloc, Direct
  <2> QED BY Zenon, <2>1, DirectGood
<1>2. CASE bi \in NDirect .. NDirect + NTable - 1
  <2>1. bi - NDirect \in Table /\ bmap_alloc(S, n, bi) = bmap_indirect(S, n, bi - NDirect)
    BY <1>2, Ext2Assumption DEF bmap_alloc, Table
  <2> QED BY Zenon, <2>1, IndirectGood
<1>3. CASE ~(bi < NDirect) /\ bi \notin NDirect .. NDirect + NTable - 1
  <2> DEFINE M == bmap_alloc(S, n, bi)
  <2>1. M = [s |-> S, b |-> 0]
    BY Zenon, <1>3 DEF bmap_alloc
  <2> HIDE DEF M
  <2>2. M.s = S /\ M.b = 0
    BY Zenon, <2>1
  <2> QED BY Zenon, <2>2 DEF Mapped, M
<1> QED BY Zenon, <1>1, <1>2, <1>3

\* The loop of ext2_write, block by block.
Writing(R, n, X, ex) ==
    /\ DOMAIN R = {"s", "to"} /\ R.to \in Nat
    /\ Good(R.s, X, ex) /\ IsFile(R.s, n)

\* One turn of the loop of ext2_write.
LEMMA ChunkGood ==
    ASSUME NEW R, NEW X, NEW ex, NEW n \in X, Writing(R, n, X, ex), NEW bi \in Nat
    PROVE  Writing(write_chunk(R, n, bi), n, X, ex)
<1> DEFINE M == bmap_alloc(R.s, n, bi)
           P == Put(M.s, "data", M.b, 0)
           C == write_chunk(R, n, bi)
<1>1. Mapped(M, n, X, ex)
  BY Zenon, BmapGood DEF Writing
<1>2. C = IF R.to # bi THEN R
          ELSE IF M.b = 0 THEN [R EXCEPT !.s = M.s]
          ELSE [s |-> P, to |-> bi + 1]
  BY Zenon DEF write_chunk
<1>3. M.b # 0 => Good(P, X, ex) /\ IsFile(P, n)
  BY Zenon, <1>1 DEF Mapped
<1>4. M.b = 0 => Good(M.s, X, ex) /\ IsFile(M.s, n)
  BY Zenon, <1>1 DEF Mapped
<1> HIDE DEF M, P, C
<1>5. CASE R.to # bi
  BY Zenon, <1>2, <1>5 DEF C
<1>6. CASE R.to = bi /\ M.b = 0
  <2>1. DOMAIN C = {"s", "to"} /\ C.s = M.s /\ C.to = R.to
    BY Zenon, <1>2, <1>6 DEF Writing
  <2> QED BY Zenon, <1>4, <1>6, <2>1 DEF Writing, C
<1>7. CASE R.to = bi /\ M.b # 0
  <2>1. DOMAIN C = {"s", "to"} /\ C.s = P /\ C.to = bi + 1
    BY Zenon, <1>2, <1>7
  <2> QED BY SMTT(60), <1>3, <1>7, <2>1 DEF Writing, C
<1> QED BY Zenon, <1>5, <1>6, <1>7

\* f[k] is where the write is after k blocks.
ChunkLoop(f, S, n, from, m) ==
    f = [k \in 0 .. m |-> IF k = 0 THEN [s |-> S, to |-> from]
                          ELSE write_chunk(f[k - 1], n, from + k - 1)]

\* The loop of ext2_write defines a value for every count.
LEMMA ChunkLoopExists ==
    ASSUME NEW S, NEW n, NEW from, NEW count \in Nat
    PROVE  \E f : ChunkLoop(f, S, n, from, count)
<1> DEFINE Bad == {m \in Nat : ~\E f : ChunkLoop(f, S, n, from, m)}
<1> SUFFICES Bad = {}
  BY Zenon
<1> SUFFICES ASSUME Bad # {} PROVE FALSE
  BY Zenon
<1>1. PICK m \in Bad : \A y \in Bad : m <= y
  <2>1. Bad \in SUBSET Nat
    BY Zenon
  <2> HIDE DEF Bad
  <2> QED
    BY Zenon, <2>1, Least
<1>2. CASE m = 0
  <2> DEFINE f == [k \in 0 .. 0 |-> [s |-> S, to |-> from]]
  <2>1. ChunkLoop(f, S, n, from, 0)
    BY DEF ChunkLoop
  <2> QED
    BY Zenon, <1>2, <2>1
<1>3. CASE m # 0
  <2>1. m - 1 \in Nat /\ m - 1 \notin Bad /\ m \in Nat
    BY <1>1, <1>3
  <2>2. PICK f : ChunkLoop(f, S, n, from, m - 1)
    BY Zenon, <2>1
  <2> DEFINE g == [k \in 0 .. m |-> IF k = m THEN write_chunk(f[m - 1], n, from + m - 1) ELSE f[k]]
             h == [k \in 0 .. m |-> IF k = 0 THEN [s |-> S, to |-> from] ELSE write_chunk(g[k - 1], n, from + k - 1)]
  <2>3. ASSUME NEW k \in 0 .. m PROVE g[k] = h[k]
    <3>1. CASE k = m
      <4>1. g[k] = write_chunk(f[m - 1], n, from + m - 1)
        BY Zenon, <3>1
      <4>2. m - 1 \in 0 .. m /\ m - 1 # m /\ k # 0
        BY SMTT(60), <2>1, <3>1, <1>3
      <4>3. g[k - 1] = f[m - 1]
        BY Zenon, <3>1, <4>2
      <4> HIDE DEF g
      <4> QED
        BY Zenon, <3>1, <4>1, <4>2, <4>3
    <3>2. CASE k = 0
      <4>1. 0 \in 0 .. m - 1 /\ m # 0
        BY SMTT(60), <2>1, <1>3
      <4>2. f[0] = [s |-> S, to |-> from]
        BY Zenon, <2>2, <4>1 DEF ChunkLoop
      <4> QED
        BY Zenon, <3>2, <4>1, <4>2
    <3>3. CASE k # m /\ k # 0
      <4>1. k \in 0 .. m - 1 /\ k - 1 \in 0 .. m /\ k - 1 # m
        BY SMTT(60), <2>1, <3>3
      <4>2. f[k] = write_chunk(f[k - 1], n, from + k - 1)
        BY Zenon, <2>2, <3>3, <4>1 DEF ChunkLoop
      <4>3. g[k] = f[k] /\ g[k - 1] = f[k - 1]
        BY Zenon, <3>3, <4>1
      <4> HIDE DEF g
      <4> QED
        BY Zenon, <3>3, <4>2, <4>3
    <3> QED
      BY Zenon, <3>1, <3>2, <3>3
  <2>4. g = h
    <3> DEFINE G(k) == IF k = m THEN write_chunk(f[m - 1], n, from + m - 1) ELSE f[k]
               H(k) == IF k = 0 THEN [s |-> S, to |-> from] ELSE write_chunk(g[k - 1], n, from + k - 1)
    <3>1. \A k \in 0 .. m : G(k) = H(k)
      BY Zenon, <2>3
    <3>2. g = [k \in 0 .. m |-> G(k)] /\ h = [k \in 0 .. m |-> H(k)]
      BY Zenon
    <3> HIDE DEF G, H, g, h
    <3> QED
      BY Zenon, <3>1, <3>2
  <2>5. ChunkLoop(g, S, n, from, m)
    <3> HIDE DEF g
    <3> QED
      BY <2>4, Zenon DEF ChunkLoop
  <2> QED
    BY Zenon, <1>1, <2>5
<1> QED
  BY Zenon, <1>2, <1>3

\* What is written is what the loop ends with.
LEMMA ChunkLoopIs ==
    ASSUME NEW S, NEW n, NEW from, NEW count \in Nat
    PROVE  \E f : ChunkLoop(f, S, n, from, count) /\ write_chunks(S, n, from, count) = f[count]
<1> DEFINE upto == CHOOSE f : ChunkLoop(f, S, n, from, count)
<1>1. ChunkLoop(upto, S, n, from, count)
  BY Zenon, ChunkLoopExists
<1>2. write_chunks(S, n, from, count) = upto[count]
  BY Zenon DEF write_chunks, ChunkLoop
<1> HIDE DEF upto
<1> QED
  BY Zenon, <1>1, <1>2

\* The loop of ext2_write, also when the disk fills up.
LEMMA ChunksGood ==
    ASSUME NEW S, NEW X, NEW ex, Good(S, X, ex), NEW n \in X, IsFile(S, n),
           NEW from \in Nat, NEW count \in Nat
    PROVE  Writing(write_chunks(S, n, from, count), n, X, ex)
<1>1. PICK f : ChunkLoop(f, S, n, from, count) /\ write_chunks(S, n, from, count) = f[count]
  BY Zenon, ChunkLoopIs
<1>2. /\ f[0] = [s |-> S, to |-> from]
      /\ \A k \in 1 .. count : f[k] = write_chunk(f[k - 1], n, from + k - 1)
  BY <1>1 DEF ChunkLoop
<1> DEFINE Bad == {k \in 0 .. count : ~Writing(f[k], n, X, ex)}
<1>3. Bad = {}
  <2> SUFFICES ASSUME Bad # {} PROVE FALSE
    BY Zenon
  <2>1. PICK k \in Bad : \A y \in Bad : k <= y
    <3>1. Bad \in SUBSET Nat
      BY SMTT(60)
    <3> HIDE DEF Bad
    <3> QED BY Zenon, <3>1, Least
  <2>2. k # 0
    <3>1. DOMAIN f[0] = {"s", "to"} /\ f[0].s = S /\ f[0].to = from
      BY SMTT(60), <1>2
    <3>2. Writing(f[0], n, X, ex)
      BY Zenon, <3>1 DEF Writing
    <3> QED BY Zenon, <2>1, <3>2
  <2>3. k \in 1 .. count /\ k - 1 \in 0 .. count /\ k - 1 \notin Bad /\ from + k - 1 \in Nat
    BY <2>1, <2>2
  <2>4. Writing(f[k - 1], n, X, ex)
    BY Zenon, <2>3
  <2>5. Writing(write_chunk(f[k - 1], n, from + k - 1), n, X, ex)
    BY Zenon, <2>3, <2>4, ChunkGood
  <2> QED BY Zenon, <1>2, <2>1, <2>3, <2>5
<1> QED BY <1>1, <1>3

\* ext2_write.
LEMMA WriteGood ==
    ASSUME NEW S, NEW ex, Good(S, {}, ex), Saved(S), NEW n \in S.m.inodes,
           NEW from \in Nat, NEW count \in Nat
    PROVE  LET R == ext2_write(S, n, from, count) IN Good(R, {}, ex) /\ Saved(R)
<1> DEFINE W == write_chunks(S, n, from, count)
           size == IF W.to > W.s.m.inode[n].size THEN W.to ELSE W.s.m.inode[n].size
           S1 == SetSize(W.s, n, size)
           V == write_inode(S1, n)
           Z == write_bitmaps(write_superblock(V))
           R == ext2_write(S, n, from, count)
<1>1. R = IF n >= InodesCount \/ S.m.inode[n].mode = "dir" THEN S ELSE Z
  BY Zenon DEF ext2_write, SetSize
<1> HIDE DEF R
<1> SUFFICES Good(R, {}, ex) /\ Saved(R)
  BY Zenon DEF R
<1>2. CASE n >= InodesCount \/ S.m.inode[n].mode = "dir"
  BY Zenon, <1>1, <1>2
<1>3. CASE ~(n >= InodesCount \/ S.m.inode[n].mode = "dir")
  <2>0. n \in Inodes
    BY Zenon, GoodIs
  <2>1. Good(S, {n}, ex) /\ IsFile(S, n)
    BY <1>3, GoodMore DEF IsFile
  <2>2. Writing(W, n, {n}, ex)
    BY Zenon, <2>1, ChunksGood
  <2> HIDE DEF W
  <2>3. size \in Nat
    <3>1. W.s.m.inode \in [Inodes -> InodeRecord]
      BY Zenon, <2>2, GoodIs DEF Writing
    <3>2. W.s.m.inode[n].size \in Nat
      BY Zenon, <2>0, <3>1, InodeIs
    <3> QED BY Zenon, <2>2, <3>2 DEF Writing
  <2> HIDE DEF size
  <2>4. Good(S1, {n} \cup {n}, ex)
    BY Zenon, <2>2, <2>3, ResizeGood DEF Writing
  <2> HIDE DEF S1
  <2>5. Good(V, ({n} \cup {n}) \ {n}, ex)
    BY Zenon, <2>0, <2>4, WriteInodeGood
  <2> HIDE DEF V
  <2>6. Good(V, {}, ex)
    BY ZenonT(60), <2>5, GoodMore
  <2>7. Good(Z, {}, ex) /\ Saved(Z)
    BY Zenon, <2>6, WriteRestGood
  <2> QED BY ZenonT(60), <1>1, <1>3, <2>7
<1> QED BY Zenon, <1>2, <1>3

=============================================================================
