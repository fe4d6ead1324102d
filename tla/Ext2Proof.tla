------------------------------ MODULE Ext2Proof -----------------------------
(***************************************************************************)
(* The file system of module Ext2 keeps blocks, names and counts right,    *)
(* for any disk and any tree, and whatever an unlink the power cuts short  *)
(* has written.                                                            *)
(***************************************************************************)
EXTENDS Ext2CallProof

-----------------------------------------------------------------------------
(* The inductive invariant. *)

\* Memory m and disk d between two operations.
Pair(m, d) == [m |-> m, d |-> d, log |-> <<>>]

\* They are sound and agree.
Whole(m, d, exact) == Good(Pair(m, d), {}, exact) /\ Saved(Pair(m, d))

\* Disk d can be mounted.
Mountable(d) == Whole(OnDisk(d), d, FALSE)

\* The writes ws lead from disk d to disk e, by disks that can be mounted.
Trail(ws, d, e) ==
    \E ds, W :
        /\ ws \in Seq(W) /\ ds[0] = d /\ ds[Len(ws)] = e
        /\ \A k \in 1 .. Len(ws) : ds[k] = Apply(ds[k - 1], ws[k])
        /\ \A k \in 0 .. Len(ws) : Mountable(ds[k])

\* Between operations memory and disk agree; during an unlink the writes to come
\* make them agree.
IInv ==
    /\ clean \in BOOLEAN
    /\ \/ op = "none" /\ log = <<>> /\ Whole(mem, disk, clean)
       \/ /\ op = "unlink" /\ clean /\ log # <<>>
          /\ \E d : Trail(log, disk, d) /\ Whole(mem, d, TRUE)

\* An operation that ends in a good, saved state leaves memory and disk whole.
LEMMA PairGood ==
    ASSUME NEW S, NEW ex
    PROVE  Good(S, {}, ex) /\ Saved(S) => Whole(S.m, S.d, ex)
<1> DEFINE P == Pair(S.m, S.d)
<1>1. P.m = S.m /\ P.d = S.d /\ DOMAIN P = {"m", "d", "log"}
  BY Zenon DEF Pair
<1> HIDE DEF P
<1>2. Good(S, {}, ex) /\ Saved(S) => Good(P, {}, ex) /\ Saved(P)
  BY Zenon, <1>1 DEF Good, Saved, Shape
<1> QED BY Zenon, <1>2 DEF P, Whole

\* The parts of wholeness.
LEMMA WholeIs ==
    ASSUME NEW m, NEW d, NEW ex, Whole(m, d, ex)
    PROVE  /\ Shape(Pair(m, d)) /\ Sane(m.inode, m.blocks, m.inodes, d.dir, d.table)
           /\ Counts(m.blocks, m.inodes, m.free, ex)
           /\ Synced(m.inode, m.inodes, d.inode, {})
           /\ d.blocks = m.blocks /\ d.inodes = m.inodes /\ d.free = m.free
<1> DEFINE P == Pair(m, d)
<1>1. P.m = m /\ P.d = d
  BY Zenon DEF Pair
<1> HIDE DEF P
<1> QED BY Zenon, <1>1 DEF Whole, Good, Saved, P

\* What a mount finds is what was in memory, but for what is left in inodes that
\* are not in use.
LEMMA MountWhole ==
    ASSUME NEW m, NEW d, NEW ex, Whole(m, d, ex)
    PROVE  Whole(OnDisk(d), d, ex) /\ Filed(d.inode, d.inodes, d.dir) = Filed(m.inode, m.inodes, d.dir)
<1> DEFINE o == OnDisk(d)
           P == Pair(o, d)
<1>s. /\ Shape(Pair(m, d)) /\ Sane(m.inode, m.blocks, m.inodes, d.dir, d.table)
      /\ Counts(m.blocks, m.inodes, m.free, ex)
      /\ Synced(m.inode, m.inodes, d.inode, {})
      /\ d.blocks = m.blocks /\ d.inodes = m.inodes /\ d.free = m.free
  BY Zenon, WholeIs
<1>1. /\ DOMAIN o = {"inode", "blocks", "inodes", "free"}
      /\ o.inode = d.inode /\ o.blocks = d.blocks /\ o.inodes = d.inodes /\ o.free = d.free
  BY Zenon DEF OnDisk
<1>2. P.m = o /\ P.d = d /\ DOMAIN P = {"m", "d", "log"}
  BY Zenon DEF Pair
<1>3. DOMAIN d = {"inode", "blocks", "inodes", "free", "dir", "table"}
  BY Zenon, <1>s DEF Shape, Pair
<1> HIDE DEF o, P
<1>t. /\ m.inode \in [Inodes -> InodeRecord] /\ m.blocks \subseteq Blocks /\ m.inodes \subseteq Inodes
      /\ d.dir \in [Blocks -> SUBSET AllEntries] /\ d.table \in [Blocks -> [Table -> Blocks \cup {0}]]
      /\ d.inode \in [Inodes -> InodeRecord]
  BY <1>s, SaneIs DEF Synced
<1>4. /\ \A n \in m.inodes : d.inode[n] = m.inode[n]
      /\ \A n \in Inodes : d.inode[n].table = m.inode[n].table
      /\ \A n \in Inodes \ m.inodes : \A i \in Direct \ {0} : d.inode[n].block[i] = 0
  BY Zenon, <1>s, <1>t DEF Synced, SameInode
<1>5. Sane(d.inode, m.blocks, m.inodes, d.dir, d.table)
  <2>1. Typed(d.inode, m.blocks, m.inodes, d.dir, d.table)
    BY Zenon, <1>t DEF Typed
  <2>2. \A b \in m.blocks : d.dir[b] = d.dir[b] /\ d.table[b] = d.table[b]
    BY Zenon
  <2>3. Scratched(m.inode, m.blocks, m.inodes, d.dir, d.table, d.inode, d.dir, d.table)
    BY Zenon, <1>4, <2>1, <2>2 DEF Scratched
  <2> QED BY Zenon, <1>s, <2>3, Scratch
<1>6. Synced(d.inode, d.inodes, d.inode, {})
  BY Zenon, <1>s, <1>t, <1>4 DEF Synced, SameInode
<1>7. Good(P, {}, ex) /\ Saved(P)
  BY Zenon, <1>s, <1>1, <1>2, <1>3, <1>5, <1>6 DEF Good, Saved, Shape
<1>8. Filed(d.inode, m.inodes, d.dir) = Filed(m.inode, m.inodes, d.dir)
  <2>1. \A n \in Inodes, b \in Blocks, e \in AllEntries :
           At(d.inode, m.inodes, d.dir, n, b, e) <=> At(m.inode, m.inodes, d.dir, n, b, e)
    BY Zenon, <1>4 DEF At
  <2> DEFINE I == m.inode
             J == d.inode
             N == m.inodes
             D == d.dir
  <2>2. \A n \in Inodes, b \in Blocks, e \in AllEntries : At(J, N, D, n, b, e) <=> At(I, N, D, n, b, e)
    BY Zenon, <2>1
  <2> HIDE DEF I, J, N, D
  <2>3. Filed(J, N, D) = Filed(I, N, D)
    BY SMTT(60), <2>2, FiledSame
  <2> QED BY Zenon, <2>3 DEF I, J, N, D
<1> QED BY Zenon, <1>s, <1>7, <1>8 DEF Whole, P, o

\* A disk that agrees with memory can be mounted.
LEMMA WholeMountable ==
    ASSUME NEW m, NEW d, NEW ex, Whole(m, d, ex)
    PROVE  Mountable(d)
<1>1. Whole(m, d, FALSE)
  BY Zenon DEF Whole, Good, Counts
<1> QED BY Zenon, <1>1, MountWhole DEF Mountable

-----------------------------------------------------------------------------
(* The writes of an unlink. *)

\* No writes lead nowhere.
LEMMA TrailStart ==
    ASSUME NEW d, Mountable(d)
    PROVE  Trail(<<>>, d, d)
<1> DEFINE ds == [k \in 0 .. 0 |-> d]
<1>1. <<>> \in Seq({}) /\ Len(<<>>) = 0 /\ ds[0] = d
  OBVIOUS
<1> HIDE DEF ds
<1>2. \A k \in 1 .. 0 : ds[k] = Apply(ds[k - 1], <<>>[k])
  OBVIOUS
<1>3. \A k \in 0 .. 0 : Mountable(ds[k])
  BY <1>1
<1> QED BY Zenon, <1>1, <1>2, <1>3 DEF Trail

\* One more write.
LEMMA TrailAppend ==
    ASSUME NEW ws, NEW d, NEW e, Trail(ws, d, e), NEW w, NEW e2, e2 = Apply(e, w), Mountable(e2)
    PROVE  Trail(Append(ws, w), d, e2)
<1>1. PICK ds, W : /\ ws \in Seq(W) /\ ds[0] = d /\ ds[Len(ws)] = e
                   /\ \A k \in 1 .. Len(ws) : ds[k] = Apply(ds[k - 1], ws[k])
                   /\ \A k \in 0 .. Len(ws) : Mountable(ds[k])
  BY Zenon DEF Trail
<1> DEFINE vs == Append(ws, w)
           n == Len(ws)
           es == [k \in 0 .. n + 1 |-> IF k = n + 1 THEN e2 ELSE ds[k]]
           V == W \cup {w}
<1>2. ws \in Seq(V) /\ w \in V /\ n \in Nat
  BY <1>1
<1>3. vs \in Seq(V) /\ Len(vs) = n + 1 /\ vs[n + 1] = w /\ \A k \in 1 .. n : vs[k] = ws[k]
  BY <1>2
<1>4. es[n + 1] = e2 /\ \A k \in 0 .. n : es[k] = ds[k]
  BY <1>2
<1> HIDE DEF vs, es, V
<1>5. es[0] = d /\ es[Len(vs)] = e2
  BY SMTT(60), <1>1, <1>2, <1>3, <1>4
<1>6. ASSUME NEW k \in 1 .. Len(vs) PROVE es[k] = Apply(es[k - 1], vs[k])
  <2>1. CASE k = n + 1
    <3>1. k - 1 = n /\ n \in 0 .. n
      BY <1>2, <2>1
    <3>2. es[k - 1] = e /\ vs[k] = w /\ es[k] = e2
      BY Zenon, <1>1, <1>3, <1>4, <2>1, <3>1
    <3> QED BY Zenon, <3>2
  <2>2. CASE k # n + 1
    <3>1. k \in 1 .. n /\ k - 1 \in 0 .. n /\ k \in 0 .. n
      BY SMTT(60), <1>2, <1>3, <2>2
    <3> QED BY Zenon, <1>1, <1>3, <1>4, <3>1
  <2> QED BY Zenon, <2>1, <2>2
<1>7. \A k \in 0 .. Len(vs) : Mountable(es[k])
  BY SMTT(60), <1>1, <1>2, <1>3, <1>4
<1>8. Trail(vs, d, e2)
  BY Zenon, <1>3, <1>5, <1>6, <1>7 DEF Trail
<1> QED BY Zenon, <1>8 DEF vs

\* One write fewer.
LEMMA TrailTail ==
    ASSUME NEW ws, NEW d, NEW e, Trail(ws, d, e), ws # <<>>
    PROVE  /\ Trail(Tail(ws), Apply(d, Head(ws)), e) /\ Mountable(d)
           /\ Len(ws) \in Nat /\ Len(ws) # 0
           /\ Len(ws) = 1 => Tail(ws) = <<>> /\ Apply(d, Head(ws)) = e
           /\ Len(ws) # 1 => Tail(ws) # <<>>
<1>1. PICK ds, W : /\ ws \in Seq(W) /\ ds[0] = d /\ ds[Len(ws)] = e
                   /\ \A k \in 1 .. Len(ws) : ds[k] = Apply(ds[k - 1], ws[k])
                   /\ \A k \in 0 .. Len(ws) : Mountable(ds[k])
  BY Zenon DEF Trail
<1> DEFINE n == Len(ws)
           vs == Tail(ws)
           es == [k \in 0 .. n - 1 |-> ds[k + 1]]
<1>2. /\ n \in Nat /\ n # 0 /\ vs \in Seq(W) /\ Len(vs) = n - 1 /\ Head(ws) = ws[1]
      /\ \A k \in 1 .. n - 1 : vs[k] = ws[k + 1]
  BY <1>1
<1>3. \A k \in 0 .. n - 1 : es[k] = ds[k + 1]
  BY Zenon
<1> HIDE DEF n, vs, es
<1>4. ds[1] = Apply(d, Head(ws)) /\ 0 \in 0 .. n - 1 /\ n - 1 \in 0 .. n - 1
  <2>1. 1 \in 1 .. n /\ 1 - 1 = 0
    BY <1>2
  <2> QED BY SMTT(60), <1>1, <1>2, <2>1 DEF n
<1>5. es[0] = Apply(d, Head(ws)) /\ es[Len(vs)] = e
  BY SMTT(60), <1>1, <1>2, <1>3, <1>4 DEF n
<1>6. ASSUME NEW k \in 1 .. Len(vs) PROVE es[k] = Apply(es[k - 1], vs[k])
  <2>1. k \in 1 .. n - 1 /\ k \in 0 .. n - 1 /\ k - 1 \in 0 .. n - 1 /\ k + 1 \in 1 .. n
        /\ (k + 1) - 1 = k /\ (k - 1) + 1 = k
    BY <1>2
  <2>2. ds[k + 1] = Apply(ds[k], ws[k + 1])
    BY Zenon, <1>1, <2>1 DEF n
  <2> QED BY Zenon, <1>2, <1>3, <2>1, <2>2
<1>7. \A k \in 0 .. Len(vs) : Mountable(es[k])
  BY SMTT(60), <1>1, <1>2, <1>3 DEF n
<1>8. Trail(vs, Apply(d, Head(ws)), e)
  BY Zenon, <1>2, <1>5, <1>6, <1>7 DEF Trail
<1>9. Mountable(d)
  BY <1>1, <1>2 DEF n
<1>10. n = 1 => vs = <<>> /\ ds[1] = e
  BY <1>1, <1>2 DEF n
<1>11. n # 1 => vs # <<>>
  BY <1>2
<1> QED BY Zenon, <1>2, <1>4, <1>8, <1>9, <1>10, <1>11 DEF n, vs

\* What an operation writes continues its trail.
LEMMA PutTrail ==
    ASSUME NEW S, Shape(S), NEW d, Trail(S.log, d, S.d), NEW kind, NEW at, NEW to,
           Mountable(Put(S, kind, at, to).d)
    PROVE  Trail(Put(S, kind, at, to).log, d, Put(S, kind, at, to).d)
<1> DEFINE w == [kind |-> kind, at |-> at, to |-> to]
           P == Put(S, kind, at, to)
<1>1. P = [S EXCEPT !.d = Apply(@, w), !.log = Append(@, w)]
  BY Zenon DEF Put
<1> HIDE DEF w
<1>2. P.d = Apply(S.d, w) /\ P.log = Append(S.log, w)
  <2> HIDE DEF P
  <2> QED BY Zenon, <1>1 DEF Shape
<1> HIDE DEF P
<1>3. Trail(Append(S.log, w), d, P.d)
  BY Zenon, <1>2, TrailAppend DEF P
<1> QED BY Zenon, <1>2, <1>3 DEF P

\* A disk on which inode n has been released, and whose bitmaps show all, some
\* or nothing of it.
LEMMA ReleasedMountable ==
    ASSUME NEW S, NEW ex, Good(S, {}, ex), Saved(S), NEW n \in S.m.inodes \ {Root},
           \A x \in Found(S) : x[3][2] # n,
           NEW d, DOMAIN d = {"inode", "blocks", "inodes", "free", "dir", "table"},
           d.dir = S.d.dir, d.table = S.d.table, Frees(S.d.inode, n, d.inode),
           d.blocks \subseteq S.m.blocks,
           \A c \in S.m.blocks \ d.blocks : \E i \in Direct : S.m.inode[n].block[i] = c,
           S.m.inodes \ {n} \subseteq d.inodes, d.inodes \subseteq S.m.inodes,
           Counts(d.blocks, d.inodes, d.free, FALSE)
    PROVE  Mountable(d)
<1>1. Whole(S.m, S.d, ex)
  BY Zenon, PairGood
<1>2. /\ Whole(OnDisk(S.d), S.d, ex)
      /\ Filed(S.d.inode, S.d.inodes, S.d.dir) = Filed(S.m.inode, S.m.inodes, S.d.dir)
  BY Zenon, <1>1, MountWhole
<1>3. /\ S.d.blocks = S.m.blocks /\ S.d.inodes = S.m.inodes
      /\ Synced(S.m.inode, S.m.inodes, S.d.inode, {}) /\ S.m.inodes \subseteq Inodes
  BY Zenon, GoodIs DEF Saved
<1>4. Sane(S.d.inode, S.m.blocks, S.m.inodes, S.d.dir, S.d.table)
  <2> DEFINE o == OnDisk(S.d)
  <2>1. o.inode = S.d.inode /\ o.blocks = S.d.blocks /\ o.inodes = S.d.inodes
    BY Zenon DEF OnDisk
  <2> HIDE DEF o
  <2>2. Sane(o.inode, o.blocks, o.inodes, S.d.dir, S.d.table)
    BY Zenon, <1>2, WholeIs DEF o
  <2> QED BY Zenon, <1>3, <2>1, <2>2
<1>5. S.d.inode[n] = S.m.inode[n]
  BY Zenon, <1>3 DEF Synced, SameInode
<1>6. \A x \in Filed(S.d.inode, S.m.inodes, S.d.dir) : x[3][2] # n
  BY Zenon, <1>2, <1>3 DEF Found
<1>7. \A c \in S.m.blocks \ d.blocks : \E i \in Direct : S.d.inode[n].block[i] = c
  BY <1>5
<1>8. Sane(d.inode, d.blocks, d.inodes, S.d.dir, S.d.table)
  <2>1. Released(S.d.inode, S.m.blocks, S.m.inodes, S.d.dir, n, d.inode, d.blocks, d.inodes)
    BY Zenon, <1>6, <1>7 DEF Released
  <2> QED BY Zenon, <1>4, <2>1, ReleaseIs
<1>9. DeadClear(d.inode, d.inodes) /\ d.inode \in [Inodes -> InodeRecord]
  BY Zenon, <1>8, SaneIs
<1>10. Synced(d.inode, d.inodes, d.inode, {})
  BY Zenon, <1>9 DEF Synced, SameInode, DeadClear
<1> DEFINE o == OnDisk(d)
           P == Pair(o, d)
<1>11. /\ DOMAIN o = {"inode", "blocks", "inodes", "free"}
       /\ o.inode = d.inode /\ o.blocks = d.blocks /\ o.inodes = d.inodes /\ o.free = d.free
  BY Zenon DEF OnDisk
<1>12. P.m = o /\ P.d = d /\ DOMAIN P = {"m", "d", "log"}
  BY Zenon DEF Pair
<1> HIDE DEF o, P
<1>13. Good(P, {}, FALSE) /\ Saved(P)
  BY Zenon, <1>8, <1>10, <1>11, <1>12 DEF Good, Saved, Shape
<1> QED BY Zenon, <1>13 DEF Whole, Mountable, P, o

\* The entry is gone, and with it the only name of inode n.
LEMMA ReleaseGood ==
    ASSUME NEW S, NEW ex, Good(S, {}, ex), Saved(S), NEW n \in S.m.inodes \ {Root},
           \A x \in Found(S) : x[3][2] # n, NEW d, Trail(S.log, d, S.d)
    PROVE  LET R == unlink_writes(release_inode(S, n), n)
           IN  Good(R, {}, ex) /\ Saved(R) /\ Trail(R.log, d, R.d)
<1> DEFINE Y  == DirectBlocks(S, n)
           S1 == free_blocks(S, Y)
           S2 == SetReleased(S1, n)
           S3 == write_inode(S2, n)
           S4 == free_inode(S3, n)
           S5 == write_superblock(S4)
           S6 == Put(S5, "blocks", 0, S5.m.blocks)
           S7 == Put(S6, "inodes", 0, S5.m.inodes)
           R  == unlink_writes(release_inode(S, n), n)
<1>r. R = S7
  BY Zenon DEF unlink_writes, release_inode, write_bitmaps, SetReleased
<1>s. /\ Shape(S) /\ S.m.inode \in [Inodes -> InodeRecord] /\ n \in Inodes
      /\ S.m.inodes \subseteq Inodes
      /\ S.m.blocks \subseteq Blocks
      /\ Sane(S.m.inode, S.m.blocks, S.m.inodes, S.d.dir, S.d.table)
      /\ Counts(S.m.blocks, S.m.inodes, S.m.free, ex)
      /\ Synced(S.m.inode, S.m.inodes, S.d.inode, {})
  BY Zenon, GoodIs
<1>y. Y \subseteq S.m.blocks /\ \A c \in Y : \E i \in Direct : S.m.inode[n].block[i] = c
  <2>1. \A i \in Direct : S.m.inode[n].block[i] # 0 => S.m.inode[n].block[i] \in S.m.blocks
    BY Zenon, <1>s, Owned DEF Owns
  <2> QED BY Zenon, <2>1 DEF DirectBlocks
<1> HIDE DEF Y
<1>1. Mem(S1, S, S.m.inode, S.m.blocks \ Y, S.m.inodes,
          [S.m.free EXCEPT !.blocks = @ + Cardinality(Y)])
  BY <1>s, FreeBlocksIs, Zenon
<1> HIDE DEF S1
<1>2. Shape(S1) /\ S1.m.inode = S.m.inode /\ S1.m.inode \in [Inodes -> InodeRecord]
  BY Zenon, <1>s, <1>1 DEF Mem
<1>3. Inode(S2, S1, n, S1.m.inode[n].mode, 0, [i \in Direct |-> 0], S1.m.inode[n].table)
  BY <1>s, <1>2, SetReleasedIs, Zenon
<1> HIDE DEF S2
<1> DEFINE F2 == [S.m.free EXCEPT !.blocks = @ + Cardinality(Y)]
           F4 == [F2 EXCEPT !.inodes = @ + 1]
           B2 == S.m.blocks \ Y
           N4 == S.m.inodes \ {n}
<1> HIDE DEF F2, F4, B2, N4
<1>4. /\ Shape(S2) /\ S2.d = S.d /\ S2.log = S.log
      /\ S2.m.blocks = B2 /\ S2.m.inodes = S.m.inodes /\ S2.m.free = F2
  BY Zenon, <1>1, <1>3 DEF Mem, Inode, F2, B2
<1>5. Frees(S.m.inode, n, S2.m.inode)
  BY Zenon, <1>2, <1>3 DEF Inode, Frees
<1>6. Counts(B2, S.m.inodes, F2, ex)
  <2>1. S.m.blocks \in SUBSET Blocks /\ Y \in SUBSET S.m.blocks
    BY Zenon, <1>s, <1>y
  <2> QED BY <1>s, <2>1, CountFreeBlocks, Zenon DEF B2, F2
<1>7. Counts(B2, N4, F4, ex)
  <2>1. S.m.inodes \in SUBSET Inodes /\ n \in S.m.inodes
    BY Zenon, <1>s
  <2> QED BY <1>6, <2>1, CountFreeInode, Zenon DEF N4, F4
<1>b. B2 \subseteq S.m.blocks /\ \A c \in S.m.blocks \ B2 : \E i \in Direct : S.m.inode[n].block[i] = c
  BY Zenon, <1>y DEF B2
<1>c. S.m.inodes \ {n} \subseteq N4 /\ N4 \subseteq S.m.inodes /\ S.m.inodes \ {n} \subseteq S.m.inodes
  BY Zenon DEF N4
<1>f. \A x \in Filed(S.m.inode, S.m.inodes, S.d.dir) : x[3][2] # n
  BY Zenon DEF Found
<1>8. /\ Sane(S2.m.inode, B2, S.m.inodes, S.d.dir, S.d.table)
      /\ Sane(S2.m.inode, B2, N4, S.d.dir, S.d.table)
  <2>1. S.m.inodes \subseteq S.m.inodes
    BY Zenon
  <2>2. Sane(S2.m.inode, B2, S.m.inodes, S.d.dir, S.d.table)
    <3>1. Released(S.m.inode, S.m.blocks, S.m.inodes, S.d.dir, n, S2.m.inode, B2, S.m.inodes)
      BY Zenon, <1>5, <1>b, <1>c, <1>f, <2>1 DEF Released
    <3> QED BY Zenon, <1>s, <3>1, ReleaseIs
  <2>3. Sane(S2.m.inode, B2, N4, S.d.dir, S.d.table)
    <3>1. Released(S.m.inode, S.m.blocks, S.m.inodes, S.d.dir, n, S2.m.inode, B2, N4)
      BY Zenon, <1>5, <1>b, <1>c, <1>f DEF Released
    <3> QED BY ZenonT(60), <1>s, <3>1, ReleaseIs
  <2> QED BY Zenon, <2>2, <2>3
<1>9. InodeWritten(S3, S2, n, S2.m.inode[n])
  BY Zenon, <1>4, WriteInodeIs
<1> HIDE DEF S3
<1>10. /\ Shape(S3) /\ S3.m = S2.m /\ S3.d.dir = S.d.dir /\ S3.d.table = S.d.table
       /\ S3.d.blocks = S.m.blocks /\ S3.d.inodes = S.m.inodes /\ S3.d.free = S.m.free
       /\ Upd(S3.d.inode, S.d.inode, n, S2.m.inode[n])
  BY Zenon, <1>4, <1>9 DEF InodeWritten, Saved
<1>11. Mem(S4, S3, S3.m.inode, S3.m.blocks, S3.m.inodes \ {n}, [S3.m.free EXCEPT !.inodes = @ + 1])
  BY <1>10, FreeInodeIs, Zenon
<1> HIDE DEF S4
<1>12. /\ Shape(S4) /\ S4.d = S3.d /\ S4.log = S3.log
       /\ S4.m.inode = S2.m.inode /\ S4.m.blocks = B2 /\ S4.m.inodes = N4 /\ S4.m.free = F4
  BY Zenon, <1>4, <1>10, <1>11 DEF Mem, N4, F4
<1>13. SuperWritten(S5, S4)
  BY Zenon, <1>12, WriteSuperIs
<1> HIDE DEF S5
<1>14. Shape(S5) /\ S5.m = S4.m
  BY Zenon, <1>13 DEF SuperWritten
<1>15. BlocksWritten(S6, S5, B2)
  BY Zenon, <1>12, <1>14, PutBlocksIs
<1> HIDE DEF S6
<1>16. Shape(S6) /\ S6.m = S5.m
  BY ZenonT(60), <1>15 DEF BlocksWritten
<1>17. InodesWritten(S7, S6, N4)
  BY Zenon, <1>12, <1>14, <1>16, PutInodesIs
<1> HIDE DEF S7
<1>18. /\ Shape(S7) /\ S7.m = S4.m
       /\ S7.d.inode = S3.d.inode /\ S7.d.dir = S.d.dir /\ S7.d.table = S.d.table
       /\ S7.d.free = F4 /\ S7.d.blocks = B2 /\ S7.d.inodes = N4
  BY SMTT(60), <1>10, <1>12, <1>13, <1>15, <1>16, <1>17 DEF SuperWritten, BlocksWritten, InodesWritten
<1>19. /\ S3.d.inode \in [Inodes -> InodeRecord] /\ S3.d.inode[n] = S2.m.inode[n]
       /\ \A k \in Inodes \ {n} : S3.d.inode[k] = S.d.inode[k]
  <2>1. S2.m.inode[n] \in InodeRecord
    BY Zenon, <1>s, <1>5, InodeIs DEF Frees
  <2> QED BY ZenonT(60), <1>s, <1>10, <2>1 DEF Synced, Upd
<1>20. Good(R, {}, ex) /\ Saved(R)
  <2>1. DeadClear(S2.m.inode, N4)
    BY Zenon, <1>8, SaneIs
  <2>2. ASSUME NEW k \in Inodes
        PROVE  SameInode(S2.m.inode[k], S3.d.inode[k], k \in N4)
    <3>1. CASE k = n
      BY SMTT(60), <1>19, <2>1, <3>1 DEF SameInode, DeadClear, N4
    <3>2. CASE k # n
      <4>1. SameInode(S.m.inode[k], S.d.inode[k], k \in S.m.inodes)
        BY Zenon, <1>s DEF Synced
      <4> QED BY SMTT(60), <1>5, <1>19, <3>2, <4>1 DEF Frees, N4
    <3> QED BY Zenon, <3>1, <3>2
  <2>3. Synced(S2.m.inode, N4, S3.d.inode, {})
    BY ZenonT(60), <1>19, <2>2 DEF Synced
  <2>4. Good(S7, {}, ex) /\ Saved(S7)
    BY Zenon, <1>7, <1>8, <1>12, <1>18, <2>3 DEF Good, Saved
  <2> QED BY Zenon, <1>r, <2>4
<1>21. Frees(S.d.inode, n, S3.d.inode)
  <2>1. S.d.inode[n] = S.m.inode[n]
    BY Zenon, <1>s DEF Synced, SameInode
  <2> QED BY Zenon, <1>5, <1>19, <2>1 DEF Frees
<1>22. Counts(S.m.blocks, S.m.inodes, S.m.free, FALSE) /\ Counts(S.m.blocks, S.m.inodes, F4, FALSE)
       /\ Counts(B2, S.m.inodes, F4, FALSE) /\ Counts(B2, N4, F4, FALSE)
  <2>1. IsFiniteSet(S.m.blocks) /\ IsFiniteSet(Blocks) /\ Cardinality(Y) \in Nat
    <3>1. IsFiniteSet(S.m.blocks) /\ IsFiniteSet(Y)
      BY Zenon, <1>s, <1>y, Consts, FS_Subset
    <3> QED BY Zenon, <3>1, Consts, FS_CardinalityType
  <2>2. S.m.free \in Free
    BY Zenon, <1>s DEF Counts
  <2>3. /\ F4 \in Free /\ F4.blocks = S.m.free.blocks + Cardinality(Y)
        /\ F4.inodes = S.m.free.inodes + 1 /\ F2.blocks = F4.blocks /\ F2.inodes = S.m.free.inodes
    <3>1. F2 \in Free /\ F2.blocks = S.m.free.blocks + Cardinality(Y) /\ F2.inodes = S.m.free.inodes
      BY SMTT(60), <2>1, <2>2 DEF F2, Free
    <3> QED BY SMTT(60), <3>1 DEF F4, Free
  <2>4. Cardinality(S.m.inodes) \in Nat /\ Cardinality(Blocks \ S.m.blocks) \in Nat
    <3>1. IsFiniteSet(S.m.inodes) /\ IsFiniteSet(Blocks \ S.m.blocks)
      BY Zenon, <1>s, Consts, FS_Subset
    <3> QED BY Zenon, <3>1, FS_CardinalityType
  <2>5. InodesCount \in Nat
    BY Zenon, Ext2Assumption
  <2>6. Counts(S.m.blocks, S.m.inodes, S.m.free, FALSE)
    BY ZenonT(60), <1>s DEF Counts
  <2>7. Counts(S.m.blocks, S.m.inodes, F4, FALSE)
    BY SMTT(60), <2>1, <2>2, <2>3, <2>4, <2>5, <2>6 DEF Counts, Free
  <2>8. Counts(B2, S.m.inodes, F4, FALSE)
    BY SMTT(60), <1>6, <2>2, <2>3, <2>4, <2>5 DEF Counts, Free
  <2>9. Counts(B2, N4, F4, FALSE)
    BY Zenon, <1>7 DEF Counts
  <2> QED BY Zenon, <2>6, <2>7, <2>8, <2>9
<1>23. Mountable(S3.d)
  <2>1. DOMAIN S3.d = {"inode", "blocks", "inodes", "free", "dir", "table"}
    BY Zenon, <1>10 DEF Shape
  <2> QED BY Zenon, <1>10, <1>21, <1>22, <1>c, <2>1, ReleasedMountable
<1>24. Mountable(S5.d)
  <2>1. DOMAIN S5.d = {"inode", "blocks", "inodes", "free", "dir", "table"}
    BY Zenon, <1>14 DEF Shape
  <2>2. /\ S5.d.inode = S3.d.inode /\ S5.d.dir = S.d.dir /\ S5.d.table = S.d.table
        /\ S5.d.blocks = S.m.blocks /\ S5.d.inodes = S.m.inodes /\ S5.d.free = F4
    BY Zenon, <1>10, <1>12, <1>13 DEF SuperWritten
  <2> QED BY Zenon, <1>21, <1>22, <1>c, <2>1, <2>2, ReleasedMountable
<1>25. Mountable(S6.d)
  <2>1. DOMAIN S6.d = {"inode", "blocks", "inodes", "free", "dir", "table"}
    BY Zenon, <1>16 DEF Shape
  <2>2. /\ S6.d.inode = S3.d.inode /\ S6.d.dir = S.d.dir /\ S6.d.table = S.d.table
        /\ S6.d.blocks = B2 /\ S6.d.inodes = S.m.inodes /\ S6.d.free = F4
    BY ZenonT(60), <1>10, <1>12, <1>13, <1>15 DEF SuperWritten, BlocksWritten
  <2> QED BY Zenon, <1>21, <1>22, <1>b, <1>c, <2>1, <2>2, ReleasedMountable
<1>26. Mountable(S7.d)
  <2>1. DOMAIN S7.d = {"inode", "blocks", "inodes", "free", "dir", "table"}
    BY Zenon, <1>18 DEF Shape
  <2> QED BY Zenon, <1>18, <1>21, <1>22, <1>b, <1>c, <2>1, ReleasedMountable
<1>27. Trail(S3.log, d, S3.d)
  <2>1. S3 = Put(S2, "inode", n, S2.m.inode[n])
    BY Zenon DEF S3, write_inode
  <2> QED BY Zenon, <1>4, <1>23, <2>1, PutTrail
<1>28. Trail(S5.log, d, S5.d)
  <2>1. S5 = Put(S4, "super", 0, S4.m.free)
    BY Zenon DEF S5, write_superblock
  <2> QED BY Zenon, <1>12, <1>24, <1>27, <2>1, PutTrail
<1>29. Trail(S6.log, d, S6.d)
  BY Zenon, <1>14, <1>25, <1>28, PutTrail DEF S6
<1>30. Trail(S7.log, d, S7.d)
  BY Zenon, <1>16, <1>26, <1>29, PutTrail DEF S7
<1> QED BY Zenon, <1>r, <1>20, <1>30

\* ext2_unlink, and every prefix of its writes.
LEMMA UnlinkGood ==
    ASSUME NEW S, NEW ex, Good(S, {}, ex), Saved(S), S.log = <<>>, NEW p \in S.m.inodes,
           NEW name \in Names, blocks_with(S, p, name) # {}
    PROVE  LET R == ext2_unlink(S, p, name)
           IN  Good(R, {}, ex) /\ Saved(R) /\ Trail(R.log, S.d, R.d)
<1> DEFINE at == Min(blocks_with(S, p, name))
           b == S.m.inode[p].block[at]
           e == CHOOSE x \in S.d.dir[b] : x[1] = name
           S1 == Put(S, "dir", b, S.d.dir[b] \ {e})
           R == ext2_unlink(S, p, name)
<1>s. /\ Shape(S) /\ S.m.inode \in [Inodes -> InodeRecord] /\ p \in Inodes
      /\ S.m.blocks \subseteq Blocks
      /\ Sane(S.m.inode, S.m.blocks, S.m.inodes, S.d.dir, S.d.table)
      /\ Counts(S.m.blocks, S.m.inodes, S.m.free, ex)
      /\ Synced(S.m.inode, S.m.inodes, S.d.inode, {})
  BY Zenon, GoodIs
<1>r. R = IF looks_empty(S1, e[2]) THEN unlink_writes(release_inode(S1, e[2]), e[2]) ELSE S1
  BY Zenon DEF ext2_unlink
<1>1. at \in blocks_with(S, p, name)
  <2>1. blocks_with(S, p, name) \in SUBSET Nat
    BY Zenon, Consts DEF blocks_with
  <2> QED BY Zenon, <2>1, MinIs
<1> HIDE DEF at
<1>2. at \in Direct /\ b # 0 /\ \E x \in S.d.dir[b] : x[1] = name
  BY Zenon, <1>1 DEF blocks_with
<1> HIDE DEF b
<1>3. e \in S.d.dir[b] /\ e[1] = name
  BY Zenon, <1>2
<1> HIDE DEF e
<1>4. S.m.inode[p].mode = "dir"
  <2>1. FilesPlain(S.m.inode, S.m.inodes, S.d.dir)
    BY Zenon, <1>s, SaneIs
  <2> QED BY Zenon, <1>2, <1>3, <2>1 DEF FilesPlain, b
<1>5. e[1] \notin Dots
  BY Zenon, <1>3, Ext2Assumption
<1> DEFINE es == S.d.dir[b] \ {e}
<1>6. BlockWritten(S1, S, b, es, NoTable)
  BY <1>s, PutDirIs, Zenon
<1> HIDE DEF S1
<1>7. /\ Shape(S1) /\ S1.m = S.m /\ S1.d.inode = S.d.inode /\ S1.d.blocks = S.d.blocks
      /\ S1.d.inodes = S.d.inodes /\ S1.d.free = S.d.free
      /\ Upd(S1.d.dir, S.d.dir, b, es) /\ Upd(S1.d.table, S.d.table, b, NoTable)
  BY Zenon, <1>6 DEF BlockWritten
<1>8. /\ Sane(S.m.inode, S.m.blocks, S.m.inodes, S1.d.dir, S1.d.table)
      /\ \A x \in Filed(S.m.inode, S.m.inodes, S1.d.dir) : x[3][2] # e[2]
      /\ e[2] \in S.m.inodes \ {Root}
  <2>1. Removes(S.m.inode, S.m.inodes, S.d.dir, S.d.table, p, at, b, e, S1.d.dir, S1.d.table)
    BY Zenon, <1>2, <1>3, <1>4, <1>5, <1>7 DEF b, Removes
  <2>2. Removed(S.m.inode, S.m.blocks, S.m.inodes, S.d.dir, e, S1.d.dir, S1.d.table)
    BY Zenon, <1>s, <2>1, RemoveEntry
  <2> QED BY Zenon, <2>2 DEF Removed
<1>9. Good(S1, {}, ex) /\ Saved(S1)
  BY Zenon, <1>s, <1>7, <1>8 DEF Good, Saved
<1>10. Trail(S1.log, S.d, S1.d)
  <2>1. Mountable(S.d) /\ Mountable(S1.d)
    BY Zenon, <1>9, PairGood, WholeMountable
  <2>2. Trail(S.log, S.d, S.d)
    BY Zenon, <2>1, TrailStart
  <2> QED BY Zenon, <1>s, <2>1, <2>2, PutTrail DEF S1
<1> DEFINE Q == unlink_writes(release_inode(S1, e[2]), e[2])
<1>11. Good(Q, {}, ex) /\ Saved(Q) /\ Trail(Q.log, S.d, Q.d)
  <2>1. \A x \in Found(S1) : x[3][2] # e[2]
    BY Zenon, <1>7, <1>8 DEF Found
  <2>2. e[2] \in S1.m.inodes \ {Root}
    BY Zenon, <1>7, <1>8
  <2> QED BY Zenon, <1>9, <1>10, <2>1, <2>2, ReleaseGood
<1> HIDE DEF Q, R
<1>12. Good(R, {}, ex) /\ Saved(R) /\ Trail(R.log, S.d, R.d)
  BY Zenon, <1>r, <1>9, <1>10, <1>11 DEF Q
<1> QED BY Zenon, <1>12 DEF R

-----------------------------------------------------------------------------
(* The actions. *)

\* Start is a good state whenever no operation is in progress.
LEMMA StartGood ==
    ASSUME IInv, Idle
    PROVE  /\ Good(Start, {}, clean) /\ Saved(Start)
           /\ Start.log = <<>> /\ Start.d = disk /\ Start.m = mem
           /\ clean \in BOOLEAN /\ log = <<>> /\ op = "none"
<1>1. clean \in BOOLEAN /\ op = "none" /\ log = <<>> /\ Whole(mem, disk, clean)
  BY Zenon DEF IInv, Idle
<1>2. Good(Start, {}, clean) /\ Saved(Start)
  BY Zenon, <1>1 DEF Whole, Pair, Start
<1> QED BY Zenon, <1>1, <1>2 DEF Start

\* An operation during which the power does not fail ends with memory and disk
\* in agreement.
LEMMA DoWhole ==
    ASSUME IInv, Idle, NEW S, Good(S, {}, clean), Saved(S), mem' = S.m, disk' = S.d,
           UNCHANGED <<log, op, clean>>
    PROVE  IInv'
<1>1. clean \in BOOLEAN /\ log = <<>> /\ op = "none"
  BY Zenon, StartGood
<1>2. Whole(S.m, S.d, clean)
  BY Zenon, PairGood
<1>3. Whole(mem', disk', clean')
  BY Zenon, <1>2
<1> QED BY Zenon, <1>1, <1>3 DEF IInv

\* An operation the power does not cut short.
LEMMA DoGood ==
    ASSUME CrashOps \subseteq {"unlink"}, IInv, Idle, NEW name, name # "unlink", NEW S,
           Good(S, {}, clean), Saved(S), Do(name, S)
    PROVE  IInv'
<1>1. /\ mem' = S.m /\ disk' = S.d /\ UNCHANGED <<log, op, clean>>
  BY Zenon DEF Do
<1> QED BY Zenon, <1>1, DoWhole

\* What lookup_inode finds, by way of a path that is used.
LEMMA ParentIs ==
    ASSUME NEW S, NEW ex, Good(S, {}, ex), NEW path \in Parents, NEW name \in Names
    PROVE  /\ path \in Seq(Names) /\ Append(path, name) \in Seq(Names)
           /\ lookup_inode(S, path) \in S.m.inodes \cup {0}
           /\ lookup_inode(S, path) = Root => path = <<>>
<1>1. path \in Seq(Names)
  BY Zenon, Ext2Assumption
<1>2. Append(path, name) \in Seq(Names)
  BY <1>1
<1>3. /\ lookup_inode(S, path) \in S.m.inodes \cup {0}
      /\ lookup_inode(S, path) = Root => path = <<>>
  BY Zenon, <1>1, LookupIs
<1> QED BY Zenon, <1>1, <1>2, <1>3

\* The action of ext2_create.
LEMMA CreateStep ==
    ASSUME CrashOps \subseteq {"unlink"}, IInv, NEW path \in Parents, NEW name \in Names,
           create(path, name)
    PROVE  IInv'
<1> DEFINE p == lookup_inode(Start, path)
           R == ext2_create(Start, p, name)
<1>1. Idle /\ vacant(Start, p, name) /\ Do("create", R.s)
  BY Zenon DEF create
<1>2. Good(Start, {}, clean) /\ Saved(Start)
  BY Zenon, <1>1, StartGood
<1>3. p \in Start.m.inodes \cup {0}
  BY Zenon, <1>2, ParentIs
<1> HIDE DEF p
<1>4. p \in Start.m.inodes
  BY Zenon, <1>1, <1>3 DEF vacant
<1>5. Good(R.s, {}, clean) /\ Saved(R.s)
  BY Zenon, <1>1, <1>2, <1>4, CreateGood
<1> HIDE DEF R
<1>6. "create" # "unlink"
  BY Zenon
<1> QED BY Zenon, <1>1, <1>5, <1>6, DoGood

\* The action of ext2_mkdir.
LEMMA MkdirStep ==
    ASSUME CrashOps \subseteq {"unlink"}, IInv, NEW path \in Parents, NEW name \in Names,
           mkdir(path, name)
    PROVE  IInv'
<1> DEFINE p == lookup_inode(Start, path)
           R == ext2_mkdir(Start, p, name)
<1>1. Idle /\ Append(path, name) # <<Journal>> /\ vacant(Start, p, name) /\ Do("mkdir", R)
  BY Zenon DEF mkdir
<1>2. Good(Start, {}, clean) /\ Saved(Start)
  BY Zenon, <1>1, StartGood
<1>3. p \in Start.m.inodes \cup {0} /\ (p = Root => path = <<>>)
  BY Zenon, <1>2, ParentIs
<1> HIDE DEF p
<1>4. p \in Start.m.inodes
  BY Zenon, <1>1, <1>3 DEF vacant
<1>5. ~(p = Root /\ name = Journal)
  <2>1. Append(<<>>, Journal) = <<Journal>>
    OBVIOUS
  <2> QED BY Zenon, <1>1, <1>3, <2>1
<1>6. Good(R, {}, clean) /\ Saved(R)
  BY Zenon, <1>1, <1>2, <1>4, <1>5, MkdirGood
<1> HIDE DEF R
<1>7. "mkdir" # "unlink"
  BY Zenon
<1> QED BY Zenon, <1>1, <1>6, <1>7, DoGood

\* The action of ext2_unlink.
LEMMA UnlinkStep ==
    ASSUME CrashOps \subseteq {"unlink"}, IInv, NEW path \in Parents, NEW name \in Names,
           unlink(path, name)
    PROVE  IInv'
<1> DEFINE p == lookup_inode(Start, path)
           R == ext2_unlink(Start, p, name)
<1>1. Idle /\ p # 0 /\ blocks_with(Start, p, name) # {} /\ Do("unlink", R)
  BY Zenon DEF unlink
<1>2. /\ Good(Start, {}, clean) /\ Saved(Start) /\ Start.log = <<>> /\ Start.d = disk
      /\ clean \in BOOLEAN
  BY Zenon, <1>1, StartGood
<1>3. p \in Start.m.inodes \cup {0}
  BY Zenon, <1>2, ParentIs
<1> HIDE DEF p
<1>4. p \in Start.m.inodes
  BY Zenon, <1>1, <1>3
<1>5. Good(R, {}, clean) /\ Saved(R) /\ Trail(R.log, Start.d, R.d)
  BY Zenon, <1>1, <1>2, <1>4, UnlinkGood
<1> HIDE DEF R
<1>6. CASE "unlink" \in CrashOps /\ clean /\ R.log # <<>>
  <2>1. mem' = R.m /\ log' = R.log /\ op' = "unlink" /\ disk' = disk /\ clean' = clean
    BY Zenon, <1>1, <1>6 DEF Do
  <2>2. clean = TRUE
    BY Zenon, <1>2, <1>6
  <2>3. Whole(R.m, R.d, TRUE)
    BY Zenon, <1>5, <2>2, PairGood
  <2>4. Trail(log', disk', R.d) /\ Whole(mem', R.d, TRUE)
    BY Zenon, <1>2, <1>5, <2>1, <2>3
  <2>5. clean' \in BOOLEAN /\ op' = "unlink" /\ clean' /\ log' # <<>>
    BY Zenon, <1>2, <1>6, <2>1
  <2> QED BY Zenon, <2>4, <2>5 DEF IInv
<1>7. CASE ~("unlink" \in CrashOps /\ clean /\ R.log # <<>>)
  <2>1. mem' = R.m /\ disk' = R.d /\ UNCHANGED <<log, op, clean>>
    BY Zenon, <1>1, <1>7 DEF Do
  <2> QED BY Zenon, <1>1, <1>5, <2>1, DoWhole
<1> QED BY Zenon, <1>6, <1>7

\* The file that is written is there, and the journal is no directory.
LEMMA MadeGood ==
    ASSUME NEW S, NEW ex, Good(S, {}, ex), Saved(S), NEW path \in Seq(Names), NEW name \in Names,
           lookup_or_create(S, path, name).ino # 0
    PROVE  LET M == lookup_or_create(S, path, name)
           IN  /\ Good(M.s, {}, ex) /\ Saved(M.s) /\ M.ino \in M.s.m.inodes
               /\ path = <<>> /\ name = Journal => IsFile(M.s, M.ino)
<1> DEFINE q == Append(path, name)
           n == lookup_inode(S, q)
           p == lookup_inode(S, path)
           C == ext2_create(S, p, name)
           M == lookup_or_create(S, path, name)
<1>m. M = IF n # 0 THEN [s |-> S, ino |-> n]
          ELSE IF ~vacant(S, p, name) THEN [s |-> S, ino |-> 0] ELSE C
  BY Zenon DEF lookup_or_create
<1>0. M.ino # 0
  BY Zenon
<1> HIDE DEF M
<1> SUFFICES /\ Good(M.s, {}, ex) /\ Saved(M.s) /\ M.ino \in M.s.m.inodes
             /\ path = <<>> /\ name = Journal => IsFile(M.s, M.ino)
  BY Zenon DEF M
<1>1. q \in Seq(Names) /\ (path = <<>> => Len(q) = 1 /\ q[1] = name)
  OBVIOUS
<1> HIDE DEF q
<1>2. /\ n \in S.m.inodes \cup {0} /\ (Len(q) = 1 => n = step_into(S, Root, q[1]))
      /\ p \in S.m.inodes \cup {0}
  BY Zenon, <1>1, LookupIs
<1> HIDE DEF n, p
<1>3. CASE n # 0
  <2>1. M.s = S /\ M.ino = n /\ n \in S.m.inodes
    BY Zenon, <1>m, <1>2, <1>3
  <2>2. ASSUME path = <<>>, name = Journal PROVE S.m.inode[n].mode # "dir"
    <3>1. n = step_into(S, Root, Journal)
      BY Zenon, <1>1, <1>2, <2>2
    <3>2. Root \in S.m.inodes \cup {0} /\ Journal \in Names
      BY Zenon, GoodIs, SaneIs, Ext2Assumption
    <3>3. step_into(S, Root, Journal) # 0 => S.m.inode[step_into(S, Root, Journal)].mode # "dir"
      BY Zenon, <3>2, StepInto
    <3> QED BY Zenon, <1>3, <3>1, <3>3
  <2> QED BY Zenon, <2>1, <2>2 DEF IsFile
<1>4. CASE n = 0
  <2>1. vacant(S, p, name) /\ M = C
    BY Zenon, <1>m, <1>0, <1>4
  <2>2. p \in S.m.inodes
    BY Zenon, <1>2, <2>1 DEF vacant
  <2>3. /\ Good(C.s, {}, ex) /\ Saved(C.s)
        /\ C.ino # 0 => C.ino \in C.s.m.inodes /\ C.s.m.inode[C.ino].mode = "file"
    BY Zenon, <2>1, <2>2, CreateGood
  <2> HIDE DEF C
  <2>4. C.ino \in C.s.m.inodes /\ C.s.m.inode[C.ino].mode = "file"
    BY Zenon, <1>0, <2>1, <2>3
  <2>5. IsFile(C.s, C.ino)
    BY Zenon, <2>4 DEF IsFile
  <2> QED BY Zenon, <2>1, <2>3, <2>4, <2>5
<1> QED BY Zenon, <1>3, <1>4

\* A write, which creates a file that does not exist.
LEMMA WriteStep ==
    ASSUME CrashOps \subseteq {"unlink"}, IInv, NEW path \in Parents, NEW name \in Names,
           NEW w \in Writes, write(path, name, w[1], w[2])
    PROVE  IInv'
<1> DEFINE M == lookup_or_create(Start, path, name)
           R == ext2_write(M.s, M.ino, w[1], w[2])
<1>1. Idle /\ M.ino # 0 /\ Do("write", R)
  BY Zenon DEF write
<1>2. Good(Start, {}, clean) /\ Saved(Start)
  BY Zenon, <1>1, StartGood
<1>3. path \in Seq(Names) /\ w[1] \in Nat /\ w[2] \in Nat
  BY Zenon, Ext2Assumption
<1>4. Good(M.s, {}, clean) /\ Saved(M.s) /\ M.ino \in M.s.m.inodes
  BY Zenon, <1>1, <1>2, <1>3, MadeGood
<1> HIDE DEF M
<1>5. Good(R, {}, clean) /\ Saved(R)
  BY Zenon, <1>3, <1>4, WriteGood
<1> HIDE DEF R
<1>6. "write" # "unlink"
  BY Zenon
<1> QED BY Zenon, <1>1, <1>5, <1>6, DoGood

\* The journal is truncated and written.
LEMMA PersistStep ==
    ASSUME CrashOps \subseteq {"unlink"}, IInv, persist(1)
    PROVE  IInv'
<1> DEFINE M == lookup_or_create(Start, <<>>, Journal)
           U == ext2_truncate(M.s, M.ino)
           R == ext2_write(U, M.ino, 0, 1)
<1>1. Idle /\ M.ino # 0 /\ Do("persist", R)
  BY Zenon DEF persist
<1>2. Good(Start, {}, clean) /\ Saved(Start)
  BY Zenon, <1>1, StartGood
<1>3. <<>> \in Seq(Names) /\ Journal \in Names /\ 0 \in Nat /\ 1 \in Nat
  BY Ext2Assumption
<1>4. Good(M.s, {}, clean) /\ Saved(M.s) /\ IsFile(M.s, M.ino)
  BY Zenon, <1>1, <1>2, <1>3, MadeGood
<1> HIDE DEF M
<1>5. Good(U, {}, clean) /\ Saved(U) /\ IsFile(U, M.ino)
  BY Zenon, <1>4, TruncateGood
<1> HIDE DEF U
<1>6. M.ino \in U.m.inodes
  BY Zenon, <1>5 DEF IsFile
<1>7. Good(R, {}, clean) /\ Saved(R)
  BY Zenon, <1>3, <1>5, <1>6, WriteGood
<1> HIDE DEF R
<1>8. "persist" # "unlink"
  BY Zenon
<1> QED BY Zenon, <1>1, <1>7, <1>8, DoGood

\* One more block of an unlink reaches the disk.
LEMMA WriteBlockStep ==
    ASSUME IInv, WriteBlock
    PROVE  IInv'
<1>1. /\ log # <<>> /\ disk' = Apply(disk, Head(log)) /\ log' = Tail(log)
      /\ op' = IF Len(log) = 1 THEN "none" ELSE op
      /\ mem' = mem /\ clean' = clean
  BY Zenon DEF WriteBlock
<1>2. /\ clean \in BOOLEAN /\ op = "unlink" /\ clean
      /\ \E d : Trail(log, disk, d) /\ Whole(mem, d, TRUE)
  BY Zenon, <1>1 DEF IInv
<1>3. PICK d : Trail(log, disk, d) /\ Whole(mem, d, TRUE)
  BY Zenon, <1>2
<1>4. /\ Trail(log', disk', d)
      /\ Len(log) = 1 => log' = <<>> /\ disk' = d
      /\ Len(log) # 1 => log' # <<>>
  <2>1. /\ Trail(Tail(log), Apply(disk, Head(log)), d)
        /\ Len(log) = 1 => Tail(log) = <<>> /\ Apply(disk, Head(log)) = d
        /\ Len(log) # 1 => Tail(log) # <<>>
    BY Zenon, <1>1, <1>3, TrailTail
  <2> QED BY Zenon, <1>1, <2>1
<1>5. clean' = TRUE
  BY Zenon, <1>1, <1>2
<1>6. CASE Len(log) = 1
  <2>1. op' = "none" /\ log' = <<>> /\ Whole(mem', disk', clean') /\ clean' \in BOOLEAN
    BY Zenon, <1>1, <1>3, <1>4, <1>5, <1>6
  <2> QED BY Zenon, <2>1 DEF IInv
<1>7. CASE Len(log) # 1
  <2>1. op' = "unlink" /\ clean' /\ log' # <<>> /\ Whole(mem', d, TRUE) /\ clean' \in BOOLEAN
    BY Zenon, <1>1, <1>2, <1>3, <1>4, <1>5, <1>7
  <2> QED BY Zenon, <1>4, <2>1 DEF IInv
<1> QED BY Zenon, <1>6, <1>7

\* A mount, after a power failure or without one.
LEMMA MountStep ==
    ASSUME CrashOps \subseteq {"unlink"}, IInv, mount
    PROVE  IInv'
<1>1. /\ mem' = OnDisk(disk) /\ log' = <<>> /\ op' = "none" /\ disk' = disk
      /\ clean' = (clean /\ Idle)
  BY Zenon DEF mount
<1>2. CASE op = "none"
  <2>1. Whole(mem, disk, clean) /\ clean \in BOOLEAN
    BY Zenon, <1>2 DEF IInv
  <2>2. clean' = clean
    BY Zenon, <1>1, <1>2, <2>1 DEF Idle
  <2>3. Whole(OnDisk(disk), disk, clean)
    BY Zenon, <2>1, MountWhole
  <2>4. Whole(mem', disk', clean') /\ clean' \in BOOLEAN
    BY Zenon, <1>1, <2>1, <2>2, <2>3
  <2> QED BY Zenon, <1>1, <2>4 DEF IInv
<1>3. CASE op # "none"
  <2>1. log # <<>> /\ \E d : Trail(log, disk, d)
    BY ZenonT(60), <1>3 DEF IInv
  <2>2. Mountable(disk)
    BY Zenon, <2>1, TrailTail
  <2>3. clean' = FALSE
    BY Zenon, <1>1, <1>3 DEF Idle
  <2>4. Whole(mem', disk', clean') /\ clean' \in BOOLEAN
    BY Zenon, <1>1, <2>2, <2>3 DEF Mountable
  <2> QED BY Zenon, <1>1, <2>4 DEF IInv
<1> QED BY Zenon, <1>2, <1>3
-----------------------------------------------------------------------------
(* The formatted disk. *)

\* The first data block is the root's only block and nothing else has one.
FirstOnly(I, N) ==
    /\ N = {Root}
    /\ I[Root].block[0] = FirstData /\ \A i \in Direct \ {0} : I[Root].block[i] = 0
    /\ \A n \in Inodes : I[n].table = 0

\* The block of the new root has one owner.
LEMMA FormatUnique ==
    ASSUME NEW I, NEW N, NEW T, FirstOnly(I, N)
    PROVE  Unique(Holding(I, N, T), {FirstData})
<1> DEFINE f == Holding(I, N, T)
<1>0. /\ \A n \in Inodes, i \in Direct : f[DP(n, i)] = IF n \in N THEN I[n].block[i] ELSE 0
      /\ \A n \in Inodes : f[TP(n)] = I[n].table
      /\ \A n \in Inodes, j \in Table :
           f[IP(n, j)] = IF I[n].table = 0 THEN 0 ELSE T[I[n].table][j]
  BY PlaceIs, Zenon DEF Holding, DP, TP, IP
<1> HIDE DEF f
<1>1. ASSUME NEW p \in AllPlaces, f[p] # 0 PROVE p = DP(Root, 0) /\ f[p] = FirstData
  <2>1. CASE \E n \in Inodes, i \in Direct : p = DP(n, i)
    <3>1. PICK n \in Inodes, i \in Direct : p = DP(n, i)
      BY Zenon, <2>1
    <3>2. f[p] = IF n \in N THEN I[n].block[i] ELSE 0
      BY Zenon, <3>1, <1>0
    <3>3. n = Root
      BY Zenon, <1>1, <3>2 DEF FirstOnly
    <3>4. f[p] = I[Root].block[i]
      BY Zenon, <3>2, <3>3 DEF FirstOnly
    <3>5. i = 0
      BY Zenon, <1>1, <3>4 DEF FirstOnly
    <3> QED BY Zenon, <3>1, <3>3, <3>4, <3>5 DEF FirstOnly
  <2>2. CASE \E n \in Inodes : p = TP(n)
    <3>1. PICK n \in Inodes : p = TP(n)
      BY Zenon, <2>2
    <3>2. f[p] = I[n].table
      BY Zenon, <3>1, <1>0
    <3> QED BY Zenon, <1>1, <3>2 DEF FirstOnly
  <2>3. CASE \E n \in Inodes, j \in Table : p = IP(n, j)
    <3>1. PICK n \in Inodes, j \in Table : p = IP(n, j)
      BY Zenon, <2>3
    <3>2. f[p] = IF I[n].table = 0 THEN 0 ELSE T[I[n].table][j]
      BY Zenon, <3>1, <1>0
    <3> QED BY Zenon, <1>1, <3>2 DEF FirstOnly
  <2> QED BY Zenon, <2>1, <2>2, <2>3, PlaceIs
<1> QED BY Zenon, <1>1 DEF Unique, f

\* A formatted disk is sound.
LEMMA FormatSane ==
    ASSUME NEW I, I = [n \in Inodes |-> IF n = Root
                         THEN [NewInode EXCEPT !.mode = "dir", !.size = 1, !.block[0] = FirstData]
                         ELSE NewInode],
           NEW D, D = [b \in Blocks |-> IF b = FirstData
                                        THEN {<<".", Root>>, <<"..", Root>>} ELSE {}],
           NEW T, T = [b \in Blocks |-> NoTable]
    PROVE  Sane(I, {FirstData}, {Root}, D, T)
<1> DEFINE root == [NewInode EXCEPT !.mode = "dir", !.size = 1, !.block[0] = FirstData]
           zero == [i \in Direct |-> 0]
<1>c. /\ Root \in Inodes /\ FirstData \in Blocks /\ 0 \in Direct
      /\ Blocks \subseteq Nat \ {0}
  BY Zenon, Consts
<1>1. /\ NewInode \in InodeRecord /\ NewInode.mode = "none" /\ NewInode.table = 0
      /\ NewInode.block = zero /\ NewInode.size = 0
  BY Zenon DEF NewInode, InodeRecord, Kinds
<1>2. /\ root \in InodeRecord /\ root.mode = "dir" /\ root.table = 0 /\ root.size = 1
      /\ root.block = [zero EXCEPT ![0] = FirstData]
  BY Zenon, <1>c DEF NewInode, InodeRecord, Kinds
<1> HIDE DEF root
<1>3. I \in [Inodes -> InodeRecord] /\ I[Root] = root /\ \A n \in Inodes \ {Root} : I[n] = NewInode
  <2>1. I = [n \in Inodes |-> IF n = Root THEN root ELSE NewInode]
    BY Zenon DEF root
  <2> QED BY Zenon, <1>c, <1>1, <1>2, <2>1
<1>4. /\ I[Root].block[0] = FirstData /\ \A i \in Direct \ {0} : I[Root].block[i] = 0
      /\ \A n \in Inodes \ {Root} : \A i \in Direct : I[n].block[i] = 0
      /\ \A n \in Inodes : I[n].table = 0
      /\ I[Root].mode = "dir" /\ I[Root].size = 1
  BY SMTT(60), <1>c, <1>1, <1>2, <1>3
<1>5. D \in [Blocks -> SUBSET AllEntries] /\ \A b \in Blocks : \A e \in D[b] : e[1] \in Dots
  BY SMTT(60), <1>c DEF AllEntries, Dots
<1>6. T \in [Blocks -> [Table -> Blocks \cup {0}]]
  BY Zenon DEF NoTable
<1> HIDE DEF zero
<1>7. Typed(I, {FirstData}, {Root}, D, T)
  BY Zenon, <1>c, <1>3, <1>5, <1>6 DEF Typed
<1>8. Unique(Holding(I, {Root}, T), {FirstData})
  BY Zenon, <1>4, FormatUnique DEF FirstOnly
<1>9. Filed(I, {Root}, D) = {}
  BY Zenon, <1>5 DEF Filed
<1>10. Named(Filed(I, {Root}, D), {Root}) /\ JournalPlain(I, Filed(I, {Root}, D))
  BY Zenon, <1>9 DEF Named, JournalPlain
<1>11. DeadClear(I, {Root}) /\ EmptyDirs(I, {Root})
  BY <1>4 DEF DeadClear, EmptyDirs
<1>12. FilesPlain(I, {Root}, D)
  BY Zenon, <1>4 DEF FilesPlain
<1>13. Shaped(I, {Root}, D)
  BY Zenon, <1>4, <1>10, <1>11, <1>12 DEF Shaped
<1> QED BY Zenon, <1>7, <1>8, <1>10, <1>13 DEF Sane

\* Its counts are exact.
LEMMA FormatCounts ==
    Counts({FirstData}, {Root},
           [blocks |-> BlocksCount - FirstData - 1, inodes |-> InodesCount - 1], TRUE)
<1> USE Ext2Assumption
<1> DEFINE F == [blocks |-> BlocksCount - FirstData - 1, inodes |-> InodesCount - 1]
<1>1. F \in Free /\ F.blocks = BlocksCount - FirstData - 1 /\ F.inodes = InodesCount - 1
  BY DEF Free, Root
<1>2. FirstData \in Int /\ BlocksCount - 1 \in Int /\ ~(FirstData > BlocksCount - 1)
  OBVIOUS
<1>3. IsFiniteSet(Blocks) /\ Cardinality(Blocks) = BlocksCount - 1 - FirstData + 1
  BY Zenon, <1>2, FS_Interval DEF Blocks
<1>4. FirstData \in Blocks
  BY Zenon, Consts
<1>5. Cardinality(Blocks \ {FirstData}) = Cardinality(Blocks) - 1
  BY Zenon, <1>3, <1>4, FS_RemoveElement
<1>6. Cardinality({Root}) = 1
  BY Zenon, FS_Singleton
<1>7. Cardinality(Blocks \ {FirstData}) = BlocksCount - FirstData - 1
  BY <1>3, <1>5
<1> HIDE DEF F
<1>8. Counts({FirstData}, {Root}, F, TRUE)
  BY SMTT(60), <1>1, <1>6, <1>7 DEF Counts
<1> QED BY ZenonT(60), <1>8 DEF F

\* The invariant holds after formatting.
LEMMA InitGood ==
    ASSUME Init
    PROVE  IInv
<1> DEFINE I == mem.inode
           D == disk.dir
           T == disk.table
           P == Pair(mem, disk)
<1>1. /\ I = [n \in Inodes |-> IF n = Root
                THEN [NewInode EXCEPT !.mode = "dir", !.size = 1, !.block[0] = FirstData]
                ELSE NewInode]
      /\ DOMAIN mem = {"inode", "blocks", "inodes", "free"}
      /\ mem.blocks = {FirstData} /\ mem.inodes = {Root}
      /\ mem.free = [blocks |-> BlocksCount - FirstData - 1, inodes |-> InodesCount - 1]
  BY Zenon DEF Init
<1>2. /\ D = [b \in Blocks |-> IF b = FirstData THEN {<<".", Root>>, <<"..", Root>>} ELSE {}]
      /\ T = [b \in Blocks |-> NoTable]
      /\ DOMAIN disk = {"inode", "blocks", "inodes", "free", "dir", "table"}
      /\ disk.inode = mem.inode /\ disk.blocks = mem.blocks
      /\ disk.inodes = mem.inodes /\ disk.free = mem.free
  BY Zenon DEF Init
<1>3. log = <<>> /\ op = "none" /\ clean = TRUE
  BY Zenon DEF Init
<1>4. Sane(I, {FirstData}, {Root}, D, T)
  <2> HIDE DEF I, D, T
  <2> QED BY Zenon, <1>1, <1>2, FormatSane
<1>5. P.m = mem /\ P.d = disk /\ DOMAIN P = {"m", "d", "log"}
  BY Zenon DEF Pair
<1> HIDE DEF P
<1>6. Counts(mem.blocks, mem.inodes, mem.free, TRUE)
  BY Zenon, <1>1, FormatCounts
<1>7. DeadClear(I, {Root}) /\ I \in [Inodes -> InodeRecord]
  BY Zenon, <1>4, SaneIs
<1>8. Synced(mem.inode, mem.inodes, disk.inode, {})
  <2> HIDE DEF I
  <2>1. \A n \in Inodes : SameInode(I[n], I[n], n \in {Root})
    BY Zenon, <1>7 DEF SameInode, DeadClear
  <2>2. Synced(I, {Root}, I, {})
    BY Zenon, <1>7, <2>1 DEF Synced
  <2> QED BY Zenon, <1>1, <1>2, <2>2 DEF I
<1>9. Shape(P)
  BY Zenon, <1>1, <1>2, <1>5 DEF Shape
<1>10. Sane(P.m.inode, P.m.blocks, P.m.inodes, P.d.dir, P.d.table)
  BY Zenon, <1>1, <1>4, <1>5
<1>11. Good(P, {}, TRUE) /\ Saved(P)
  BY Zenon, <1>2, <1>5, <1>6, <1>8, <1>9, <1>10 DEF Good, Saved
<1>12. Whole(mem, disk, TRUE)
  BY Zenon, <1>11 DEF Whole, P
<1> QED BY Zenon, <1>3, <1>12 DEF IInv

\* Every step keeps the invariant.
LEMMA StepGood ==
    ASSUME CrashOps \subseteq {"unlink"}, IInv, [Next]_vars
    PROVE  IInv'
<1>1. CASE \E path \in Parents, name \in Names : create(path, name)
  BY ZenonT(60), <1>1, CreateStep
<1>2. CASE \E path \in Parents, name \in Names : mkdir(path, name)
  BY Zenon, <1>2, MkdirStep
<1>3. CASE \E path \in Parents, name \in Names : unlink(path, name)
  BY Zenon, <1>3, UnlinkStep
<1>4. CASE \E path \in Parents, name \in Names : \E w \in Writes : write(path, name, w[1], w[2])
  BY ZenonT(60), <1>4, WriteStep
<1>5. CASE persist(1)
  BY Zenon, <1>5, PersistStep
<1>6. CASE WriteBlock
  BY Zenon, <1>6, WriteBlockStep
<1>7. CASE mount
  BY Zenon, <1>7, MountStep
<1>8. CASE UNCHANGED vars
  <2>1. mem' = mem /\ disk' = disk /\ log' = log /\ op' = op /\ clean' = clean
    BY Zenon, <1>8 DEF vars
  <2> QED BY Zenon, <2>1 DEF IInv
<1> QED BY Zenon, <1>1, <1>2, <1>3, <1>4, <1>5, <1>6, <1>7, <1>8 DEF Next

-----------------------------------------------------------------------------
(* What the invariant says. *)

\* The invariant says that blocks have one owner.
LEMMA OwnedOnce ==
    ASSUME IInv
    PROVE  BlocksOwnedOnce
<1> SUFFICES ASSUME Idle
             PROVE  /\ \A p, q \in Places : Held(p) # 0 /\ Held(p) = Held(q) => p = q
                    /\ \A p \in Places : Held(p) # 0 => Held(p) \in mem.blocks
  BY Zenon DEF BlocksOwnedOnce
<1> DEFINE f == Holding(mem.inode, mem.inodes, disk.table)
<1>1. Whole(mem, disk, clean)
  BY Zenon DEF IInv, Idle
<1>2. Sane(mem.inode, mem.blocks, mem.inodes, disk.dir, disk.table)
  BY Zenon, <1>1, WholeIs
<1>3. Unique(f, mem.blocks) /\ mem.inodes \subseteq Inodes
  BY ZenonT(60), <1>2, SaneIs
<1>4. ASSUME NEW p \in Places PROVE p \in AllPlaces /\ Held(p) = f[p]
  <2>1. p \in AllPlaces /\ p[1] \in mem.inodes
    BY Zenon, <1>3 DEF Places, AllPlaces
  <2>2. p[2][1] \in {"direct", "table", "in"}
    BY Zenon, <2>1 DEF AllPlaces
  <2>3. f[p] = IF p[2][1] = "direct" THEN IF p[1] \in mem.inodes THEN mem.inode[p[1]].block[p[2][2]] ELSE 0
               ELSE IF p[2][1] = "table" THEN mem.inode[p[1]].table
               ELSE IF mem.inode[p[1]].table = 0 THEN 0 ELSE disk.table[mem.inode[p[1]].table][p[2][2]]
    BY Zenon, <2>1 DEF Holding
  <2> HIDE DEF f
  <2>4. Held(p) = f[p]
    BY Zenon, <2>1, <2>2, <2>3 DEF Held
  <2> QED BY Zenon, <2>1, <2>4
<1> HIDE DEF f
<1> QED BY Zenon, <1>3, <1>4 DEF Unique

\* The invariant says that names lead to inodes.
LEMMA Resolves ==
    ASSUME IInv
    PROVE  NamesResolve
<1> DEFINE E == Filed(mem.inode, mem.inodes, disk.dir)
<1> SUFFICES ASSUME Idle, NEW m \in LiveDirs, NEW n \in LiveDirs,
                    NEW x \in Entries(m), NEW y \in Entries(n)
             PROVE  /\ x[2][2] \in mem.inodes
                    /\ x[2][2] = y[2][2] => m = n /\ x = y
                    /\ m = n /\ x[2][1] = y[2][1] => x = y
  BY Zenon DEF NamesResolve
<1>1. Whole(mem, disk, clean)
  BY Zenon DEF IInv, Idle
<1>2. Sane(mem.inode, mem.blocks, mem.inodes, disk.dir, disk.table)
  BY Zenon, <1>1, WholeIs
<1>3. /\ mem.inode \in [Inodes -> InodeRecord] /\ mem.inodes \subseteq Inodes
      /\ disk.dir \in [Blocks -> SUBSET AllEntries] /\ Named(E, mem.inodes)
  BY Zenon, <1>2 DEF Sane, Typed
<1>4. ASSUME NEW k \in LiveDirs, NEW z \in Entries(k)
      PROVE  z = <<z[1], z[2]>> /\ <<k, z[1], z[2]>> \in E
  <2>1. k \in mem.inodes /\ mem.inode[k].mode = "dir" /\ k \in Inodes
    BY Zenon, <1>3 DEF LiveDirs
  <2>2. PICK i \in Direct : /\ mem.inode[k].block[i] # 0
                            /\ \E e \in disk.dir[mem.inode[k].block[i]] :
                                  e[1] \notin Dots /\ z = <<mem.inode[k].block[i], e>>
    BY DEF Entries
  <2>3. PICK e \in disk.dir[mem.inode[k].block[i]] :
           e[1] \notin Dots /\ z = <<mem.inode[k].block[i], e>>
    BY Zenon, <2>2
  <2>4. mem.inode[k].block[i] \in Blocks
    BY Zenon, <1>3, <2>1, <2>2, InodeIs
  <2>5. z[1] = mem.inode[k].block[i] /\ z[2] = e /\ z = <<z[1], z[2]>>
    BY Zenon, <2>3
  <2>6. e \in AllEntries
    BY Zenon, <1>3, <2>3, <2>4
  <2>7. At(mem.inode, mem.inodes, disk.dir, k, mem.inode[k].block[i], e)
    BY Zenon, <2>1, <2>3 DEF At
  <2>8. <<k, mem.inode[k].block[i], e>> \in E
    BY Zenon, <2>1, <2>4, <2>6, <2>7, FiledIs
  <2> QED BY Zenon, <2>5, <2>8
<1> DEFINE u == <<m, x[1], x[2]>>
           v == <<n, y[1], y[2]>>
<1>5. u \in E /\ v \in E /\ x = <<x[1], x[2]>> /\ y = <<y[1], y[2]>>
  BY Zenon, <1>4
<1>6. /\ u[1] = m /\ u[2] = x[1] /\ u[3] = x[2] /\ v[1] = n /\ v[2] = y[1] /\ v[3] = y[2]
  BY Zenon
<1> HIDE DEF u, v, E
<1>7. /\ u[3][2] \in mem.inodes \ {Root}
      /\ u[3][2] = v[3][2] => u = v
      /\ u[1] = v[1] /\ u[3][1] = v[3][1] => u = v
  BY Zenon, <1>3, <1>5 DEF Named
<1>8. u = v => m = n /\ x = y
  <2> SUFFICES ASSUME u = v PROVE m = n /\ x = y
    BY Zenon
  <2>1. m = n /\ x[1] = y[1] /\ x[2] = y[2]
    BY Zenon, <1>6
  <2> QED BY Zenon, <1>5, <2>1
<1> QED BY Zenon, <1>6, <1>7, <1>8

\* The invariant says that the disk agrees with memory.
LEMMA Agrees ==
    ASSUME IInv
    PROVE  DiskExact
<1>1. PICK d : /\ Whole(mem, d, clean) /\ clean \in BOOLEAN
               /\ op = "none" => d = disk
               /\ op \in {"none", "unlink"}
  <2>1. CASE op = "none"
    BY Zenon, <2>1 DEF IInv
  <2>2. CASE op # "none"
    BY Zenon, <2>2 DEF IInv
  <2> QED BY Zenon, <2>1, <2>2
<1>2. Mountable(disk)
  <2>1. CASE op = "none"
    BY Zenon, <1>1, <2>1, WholeMountable
  <2>2. CASE op # "none"
    BY Zenon, <2>2, TrailTail DEF IInv
  <2> QED BY Zenon, <2>1, <2>2
<1>3. /\ Sane(mem.inode, mem.blocks, mem.inodes, d.dir, d.table)
      /\ Counts(mem.blocks, mem.inodes, mem.free, clean)
      /\ Synced(mem.inode, mem.inodes, d.inode, {})
      /\ d.blocks = mem.blocks /\ d.inodes = mem.inodes /\ d.free = mem.free
  BY Zenon, <1>1, WholeIs
<1>4. disk.dir \in [Blocks -> SUBSET AllEntries] /\ disk.table \in [Blocks -> [Table -> Blocks \cup {0}]]
  <2> DEFINE o == OnDisk(disk)
  <2>1. Sane(o.inode, o.blocks, o.inodes, disk.dir, disk.table)
    BY Zenon, <1>2, WholeIs DEF Mountable
  <2> HIDE DEF o
  <2> QED BY Zenon, <2>1, SaneIs
<1>5. mem.inode \in [Inodes -> InodeRecord] /\ mem.blocks \subseteq Blocks /\ mem.inodes \subseteq Inodes
  BY SMTT(60), <1>3, SaneIs
<1>6. TypeOK
  <2>1. mem.free \in [blocks : Nat, inodes : Nat]
    BY Zenon, <1>3 DEF Counts, Free
  <2>2. op \in Operations \cup {"none"}
    BY Zenon, <1>1 DEF Operations
  <2> QED BY Zenon, <1>1, <1>4, <1>5, <2>1, <2>2 DEF TypeOK, AllEntries
<1>7. CountsExact
  BY Zenon, <1>3 DEF CountsExact, Counts
<1>8. DiskMatches
  <2> SUFFICES ASSUME Idle
               PROVE  /\ disk.blocks = mem.blocks /\ disk.inodes = mem.inodes /\ disk.free = mem.free
                      /\ \A n \in mem.inodes : disk.inode[n] = mem.inode[n]
    BY Zenon DEF DiskMatches
  <2>1. d = disk
    BY Zenon, <1>1 DEF Idle
  <2>2. \A n \in mem.inodes : d.inode[n] = mem.inode[n]
    BY Zenon, <1>3, <1>5 DEF Synced, SameInode
  <2> QED BY Zenon, <1>3, <2>1, <2>2
<1> QED BY Zenon, <1>6, <1>7, <1>8 DEF DiskExact

-----------------------------------------------------------------------------
(* The theorems.  CrashOps holds at most unlink: after a power failure in    *)
(* another operation a directory can name an inode that was never written.   *)

\* Memory and disk describe one sound file system between operations, and every
\* prefix of the writes of ext2_unlink leaves a disk that can be mounted.
THEOREM InvariantHolds ==
    ASSUME CrashOps \subseteq {"unlink"}
    PROVE  Spec => []IInv
<1>1. Init => IInv
  BY Zenon, InitGood
<1>2. IInv /\ [Next]_vars => IInv'
  BY Zenon, StepGood
<1> QED BY <1>1, <1>2, PTL DEF Spec

\* No block has two owners or is held without its bit in the bitmap: what
\* ext2_alloc_block, ext2_bmap_alloc and ext2_unlink together keep, for a disk of
\* any size, also across a power failure in the middle of ext2_unlink.
THEOREM BlocksHaveOneOwner ==
    ASSUME CrashOps \subseteq {"unlink"}
    PROVE  Spec => []BlocksOwnedOnce
<1>1. IInv => BlocksOwnedOnce
  BY Zenon, OwnedOnce
<1> QED BY <1>1, InvariantHolds, PTL

\* Every name leads to a live inode, and none has two names: ext2_create,
\* ext2_mkdir and ext2_unlink on a tree of any depth.
THEOREM NamesLeadSomewhere ==
    ASSUME CrashOps \subseteq {"unlink"}
    PROVE  Spec => []NamesResolve
<1>1. IInv => NamesResolve
  BY Zenon, Resolves
<1> QED BY <1>1, InvariantHolds, PTL

\* Every operation of ext2_fs.c has written what it changed when it returns, and
\* the free counts are those of the bitmaps until the power fails.
THEOREM DiskAgrees ==
    ASSUME CrashOps \subseteq {"unlink"}
    PROVE  Spec => []DiskExact
<1>1. IInv => DiskExact
  BY Zenon, Agrees
<1> QED BY <1>1, InvariantHolds, PTL

=============================================================================
