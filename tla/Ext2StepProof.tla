----------------------------- MODULE Ext2StepProof -------------------------
(***************************************************************************)
(* What each step of an ext2 operation does to block ownership, directory  *)
(* entries and the free counts: taking and freeing a block or an inode,    *)
(* adding and removing an entry, growing and truncating a file.            *)
(***************************************************************************)
EXTENDS Ext2, FiniteSetTheorems, WellFoundedInduction, TLAPS

-----------------------------------------------------------------------------
(* The inductive invariant.  I is a table of inodes, B and N are the bitmaps *)
(* of blocks and of inodes, D and T what the blocks hold as directories and  *)
(* as pointer tables.                                                        *)

\* The places of all inodes that can hold a block number.
AllPlaces == Inodes \X (({"direct"} \X Direct) \cup ({"table"} \X {0}) \cup ({"in"} \X Table))

\* What they hold.  The direct pointers of an inode that is not in use do not
\* count; its table does, since the next file with the inode inherits it.
Holding(I, N, T) ==
    [p \in AllPlaces |->
        IF p[2][1] = "direct" THEN IF p[1] \in N THEN I[p[1]].block[p[2][2]] ELSE 0
        ELSE IF p[2][1] = "table" THEN I[p[1]].table
        ELSE IF I[p[1]].table = 0 THEN 0 ELSE T[I[p[1]].table][p[2][2]]]

\* No two places hold the same block, and every block held has its bit in B.
Unique(f, B) ==
    /\ \A p, q \in AllPlaces : f[p] # 0 /\ f[p] = f[q] => p = q
    /\ \A p \in AllPlaces : f[p] # 0 => f[p] \in B

\* The entries of live directories but for . and .., with directory and block.
AllEntries == (Names \cup Dots) \X Inodes

Filed(I, N, D) ==
    {x \in Inodes \X Blocks \X AllEntries :
        /\ x[1] \in N /\ I[x[1]].mode = "dir"
        /\ \E i \in Direct : I[x[1]].block[i] = x[2]
        /\ x[3] \in D[x[2]] /\ x[3][1] \notin Dots}

\* Every entry leads to a live inode that is not the root, no inode has two
\* entries, and no directory has two entries of one name.
Named(E, N) ==
    /\ \A x \in E : x[3][2] \in N \ {Root}
    /\ \A x, y \in E : x[3][2] = y[3][2] => x = y
    /\ \A x, y \in E : x[1] = y[1] /\ x[3][1] = y[3][1] => x = y

\* The types of the five parts.
Typed(I, B, N, D, T) ==
    /\ I \in [Inodes -> InodeRecord] /\ B \in SUBSET Blocks /\ N \in SUBSET Inodes
    /\ D \in [Blocks -> SUBSET AllEntries] /\ T \in [Blocks -> [Table -> Blocks \cup {0}]]

\* The pointers of a dead inode that ext2_create does not clear are clear.
DeadClear(I, N) == \A n \in Inodes \ N : \A i \in Direct \ {0} : I[n].block[i] = 0

\* A directory of size 0, in which find_entry_in_dir does not look, has no blocks.
EmptyDirs(I, N) ==
    \A n \in N : I[n].mode = "dir" /\ I[n].size = 0 => \A i \in Direct : I[n].block[i] = 0

\* A file's blocks are no directories.
FilesPlain(I, N, D) ==
    \A n \in N : I[n].mode # "dir" =>
        \A i \in Direct : I[n].block[i] # 0 => D[I[n].block[i]] = {}

\* The journal is a file.
JournalPlain(I, E) ==
    \A x \in E : x[1] = Root /\ x[3][1] = Journal => I[x[3][2]].mode # "dir"

\* What else the functions of ext2_fs.c rely on.
Shaped(I, N, D) ==
    /\ Root \in N /\ I[Root].mode = "dir"
    /\ DeadClear(I, N) /\ EmptyDirs(I, N) /\ FilesPlain(I, N, D)
    /\ JournalPlain(I, Filed(I, N, D))

\* A sound file system.
Sane(I, B, N, D, T) ==
    /\ Typed(I, B, N, D, T)
    /\ Unique(Holding(I, N, T), B)
    /\ Named(Filed(I, N, D), N)
    /\ Shaped(I, N, D)

\* The two counts of the superblock.
Free == [blocks : Nat, inodes : Nat]

\* The counts of the superblock allow for every clear bit; they are exact until a
\* power failure cuts an operation short.
Counts(B, N, free, exact) ==
    /\ free \in Free
    /\ free.blocks >= Cardinality(Blocks \ B)
    /\ free.inodes >= InodesCount - Cardinality(N)
    /\ exact => /\ free.blocks = Cardinality(Blocks \ B)
                /\ free.inodes = InodesCount - Cardinality(N)

-----------------------------------------------------------------------------
(* The constants. *)

\* The order of the natural numbers as a relation.
Less == {x \in Nat \X Nat : x[1] < x[2]}

\* A set of natural numbers that is not empty has a least member.
LEMMA Least ==
    ASSUME NEW S \in SUBSET Nat, S # {}
    PROVE  \E x \in S : \A y \in S : x <= y
<1>1. OpToRel(<, Nat) = Less
  BY Zenon DEF OpToRel, Less
<1>2. IsWellFoundedOn(Less, Nat)
  BY <1>1, NatLessThanWellFounded, Zenon
<1>3. PICK x \in S : \A y \in S : ~(<<y, x>> \in Less)
  BY <1>2, WFMin, Zenon
<1>4. \A y \in S : ~(y < x)
  BY <1>3, Zenon DEF Less
<1> QED
  BY <1>4

\* The first clear bit that ext2_alloc_block or ext2_alloc_inode_num finds is one.
LEMMA MinIs ==
    ASSUME NEW S \in SUBSET Nat, S # {}
    PROVE  Min(S) \in S
<1>1. \E x \in S : \A y \in S : x <= y
  BY Zenon, Least
<1> QED
  BY <1>1, Zenon DEF Min

\* What the constants give: no block and no inode has number 0.
LEMMA Consts ==
    /\ Inodes \subseteq Nat \ {0} /\ Root \in Inodes /\ IsFiniteSet(Inodes)
    /\ Cardinality(Inodes) <= InodesCount
    /\ Blocks \subseteq Nat \ {0} /\ FirstData \in Blocks /\ IsFiniteSet(Blocks)
    /\ Direct \subseteq Nat /\ 0 \in Direct
<1> USE Ext2Assumption
<1>1. Inodes \subseteq Nat \ {0} /\ Root \in Inodes
  BY DEF Inodes, Root
<1>2. Blocks \subseteq Nat \ {0} /\ FirstData \in Blocks
  BY DEF Blocks
<1>3. Direct \subseteq Nat /\ 0 \in Direct
  BY DEF Direct
<1>4. IsFiniteSet(Blocks)
  <2>1. FirstData \in Int /\ BlocksCount - 1 \in Int
    OBVIOUS
  <2> QED
    BY Zenon, <2>1, FS_Interval DEF Blocks
<1>5. IsFiniteSet(Inodes) /\ Cardinality(Inodes) <= InodesCount
  <2> DEFINE J == FirstInode .. InodesCount
  <2>1. IsFiniteSet(J) /\ Cardinality(J) = IF FirstInode > InodesCount THEN 0 ELSE InodesCount - FirstInode + 1
    BY FS_Interval
  <2>2. Inodes = J \cup {Root}
    BY Zenon DEF Inodes
  <2> HIDE DEF J
  <2>3. IsFiniteSet(J \cup {Root}) /\ Cardinality(J \cup {Root}) = IF Root \in J THEN Cardinality(J) ELSE Cardinality(J) + 1
    BY Zenon, <2>1, FS_AddElement
  <2> QED
    BY <2>1, <2>2, <2>3 DEF Root
<1> QED
  BY Zenon, <1>1, <1>2, <1>3, <1>4, <1>5

\* What a table of inodes holds.
LEMMA InodeIs ==
    ASSUME NEW I \in [Inodes -> InodeRecord], NEW n \in Inodes
    PROVE  /\ I[n] \in InodeRecord /\ I[n].mode \in Kinds /\ I[n].size \in Nat
           /\ I[n].block \in [Direct -> Blocks \cup {0}]
           /\ \A i \in Direct : I[n].block[i] \in Blocks \cup {0}
           /\ I[n].table \in Blocks \cup {0}
BY Zenon DEF InodeRecord

-----------------------------------------------------------------------------
(* Places, what they hold, and what uniqueness says. *)

\* The three kinds of places.
DP(n, i) == <<n, <<"direct", i>>>>
TP(n)    == <<n, <<"table", 0>>>>
IP(n, j) == <<n, <<"in", j>>>>

\* There are no other places.
LEMMA PlaceIs ==
    /\ \A n \in Inodes, i \in Direct : DP(n, i) \in AllPlaces
    /\ \A n \in Inodes : TP(n) \in AllPlaces
    /\ \A n \in Inodes, j \in Table : IP(n, j) \in AllPlaces
    /\ \A p \in AllPlaces : \/ \E n \in Inodes, i \in Direct : p = DP(n, i)
                            \/ \E n \in Inodes : p = TP(n)
                            \/ \E n \in Inodes, j \in Table : p = IP(n, j)
BY DEF AllPlaces, DP, TP, IP

\* Places that are written differently are different.
LEMMA PlacesDiffer ==
    /\ \A n, i, k, j : DP(n, i) = DP(k, j) => n = k /\ i = j
    /\ \A n, i, k, j : IP(n, i) = IP(k, j) => n = k /\ i = j
    /\ \A n, k : TP(n) = TP(k) => n = k
    /\ \A n, i, k, j : DP(n, i) # IP(k, j)
    /\ \A n, i, k : DP(n, i) # TP(k) /\ IP(n, i) # TP(k)
BY Zenon DEF DP, TP, IP

\* What a table pointer of inode k holds.
InTable(I, T, k, j) == IF I[k].table = 0 THEN 0 ELSE T[I[k].table][j]

\* What a direct pointer of inode k holds for as long as k is in use.
InUse(I, N, k, i) == IF k \in N THEN I[k].block[i] ELSE 0

\* What each kind of place holds.
LEMMA HoldingAt ==
    ASSUME NEW I, NEW N, NEW T
    PROVE  /\ \A n \in Inodes, i \in Direct :
                Holding(I, N, T)[DP(n, i)] = IF n \in N THEN I[n].block[i] ELSE 0
           /\ \A n \in Inodes : Holding(I, N, T)[TP(n)] = I[n].table
           /\ \A n \in Inodes, j \in Table :
                Holding(I, N, T)[IP(n, j)] = IF I[n].table = 0 THEN 0 ELSE T[I[n].table][j]
BY PlaceIs, Zenon DEF Holding, DP, TP, IP

\* What a direct pointer holds.
LEMMA HeldDirect ==
    ASSUME NEW I, NEW N, NEW T, NEW n \in Inodes, NEW i \in Direct
    PROVE  DP(n, i) \in AllPlaces /\ Holding(I, N, T)[DP(n, i)] = InUse(I, N, n, i)
BY PlaceIs, Zenon DEF Holding, DP, InUse

\* What the pointer to the table holds.
LEMMA HeldTable ==
    ASSUME NEW I, NEW N, NEW T, NEW n \in Inodes
    PROVE  TP(n) \in AllPlaces /\ Holding(I, N, T)[TP(n)] = I[n].table
BY PlaceIs, Zenon DEF Holding, TP

\* What a pointer of the table holds.
LEMMA HeldInTable ==
    ASSUME NEW I, NEW N, NEW T, NEW n \in Inodes, NEW j \in Table
    PROVE  IP(n, j) \in AllPlaces /\ Holding(I, N, T)[IP(n, j)] = InTable(I, T, n, j)
BY PlaceIs, Zenon DEF Holding, IP, InTable

\* A change that leaves every pointer alone leaves what is held alone.
LEMMA HoldingSame ==
    ASSUME NEW I, NEW N, NEW T, NEW I2, NEW N2, NEW T2,
           \A n \in Inodes, i \in Direct :
              (IF n \in N2 THEN I2[n].block[i] ELSE 0) = (IF n \in N THEN I[n].block[i] ELSE 0),
           \A n \in Inodes : /\ I2[n].table = I[n].table
                             /\ I[n].table # 0 => T2[I[n].table] = T[I[n].table]
    PROVE  Holding(I2, N2, T2) = Holding(I, N, T)
<1> DEFINE f == Holding(I, N, T)
           g == Holding(I2, N2, T2)
<1>1. f = [p \in AllPlaces |-> f[p]] /\ g = [p \in AllPlaces |-> g[p]]
  BY Zenon DEF Holding
<1> SUFFICES ASSUME NEW p \in AllPlaces PROVE g[p] = f[p]
  BY <1>1, Zenon
<1> HIDE DEF f, g
<1>2. CASE \E n \in Inodes, i \in Direct : p = DP(n, i)
  BY <1>2, HoldingAt DEF f, g
<1>3. CASE \E n \in Inodes : p = TP(n)
  BY <1>3, HoldingAt DEF f, g
<1>4. CASE \E n \in Inodes, j \in Table : p = IP(n, j)
  <2>1. PICK n \in Inodes, j \in Table : p = IP(n, j)
    BY Zenon, <1>4
  <2>2. /\ g[p] = IF I2[n].table = 0 THEN 0 ELSE T2[I2[n].table][j]
        /\ f[p] = IF I[n].table = 0 THEN 0 ELSE T[I[n].table][j]
    BY <2>1, HoldingAt DEF f, g
  <2> QED
    BY <2>2, Zenon
<1> QED
  BY <1>2, <1>3, <1>4, PlaceIs, Zenon

\* X2 is X with x, and f2 is f with v at x.
Grown(X2, X, x) == X2 = X \cup {x}
Upd(f2, f, x, v) == f2 = [f EXCEPT ![x] = v]

\* What is in the larger set.
LEMMA GrownIs ==
    ASSUME NEW X2, NEW X, NEW x, Grown(X2, X, x)
    PROVE  x \in X2 /\ X \subseteq X2 /\ \A y : y \in X2 /\ y # x => y \in X
BY Zenon DEF Grown

\* One place gets a new block.
LEMMA UniqueAdd ==
    ASSUME NEW f, NEW g, NEW B, Unique(f, B), NEW b, b \notin B, b # 0,
           NEW p0 \in AllPlaces, g[p0] = b,
           \A p \in AllPlaces : p # p0 => g[p] = f[p],
           NEW B2, Grown(B2, B, b)
    PROVE  Unique(g, B2)
BY Zenon DEF Unique, Grown

\* Some places give up their blocks.
LEMMA UniqueLess ==
    ASSUME NEW f, NEW g, NEW B, Unique(f, B), NEW B2,
           \A p \in AllPlaces : g[p] # 0 => g[p] = f[p] /\ g[p] \in B2
    PROVE  Unique(g, B2)
BY Zenon DEF Unique

\* Place p0 now holds the free block b, and the other places what they held.
PlaceTaken(I, B, N, T, I2, B2, N2, T2, b, p0) ==
    /\ Unique(Holding(I, N, T), B) /\ b \notin B /\ b # 0 /\ Grown(B2, B, b)
    /\ p0 \in AllPlaces /\ Holding(I2, N2, T2)[p0] = b
    /\ \A k \in Inodes, i \in Direct : DP(k, i) # p0 => InUse(I2, N2, k, i) = InUse(I, N, k, i)
    /\ \A k \in Inodes : TP(k) # p0 => I2[k].table = I[k].table
    /\ \A k \in Inodes, j \in Table : IP(k, j) # p0 => InTable(I2, T2, k, j) = InTable(I, T, k, j)

\* A free block that one place takes has one owner.
LEMMA UniqueTake ==
    ASSUME NEW I, NEW B, NEW N, NEW T, NEW I2, NEW B2, NEW N2, NEW T2, NEW b, NEW p0,
           PlaceTaken(I, B, N, T, I2, B2, N2, T2, b, p0)
    PROVE  Unique(Holding(I2, N2, T2), B2)
<1> USE DEF PlaceTaken
<1> DEFINE f == Holding(I, N, T)
           g == Holding(I2, N2, T2)
<1>1. ASSUME NEW p \in AllPlaces, p # p0 PROVE g[p] = f[p]
  <2>1. CASE \E k \in Inodes, i \in Direct : p = DP(k, i)
    BY <1>1, <2>1, HoldingAt DEF InUse
  <2>2. CASE \E k \in Inodes : p = TP(k)
    BY <1>1, <2>2, HoldingAt
  <2>3. CASE \E k \in Inodes, j \in Table : p = IP(k, j)
    BY <1>1, <2>3, HoldingAt DEF InTable
  <2> QED
    BY Zenon, <2>1, <2>2, <2>3, PlaceIs
<1> HIDE DEF f, g
<1>2. Unique(f, B) /\ g[p0] = b
  BY Zenon DEF f, g
<1>3. Unique(g, B2)
  BY Zenon, <1>1, <1>2, UniqueAdd
<1> QED
  BY Zenon, <1>3 DEF g

\* No block has two owners.
Owns(I, B, N, T) ==
    /\ \A n, k \in N : \A i, j \in Direct :
         I[n].block[i] # 0 /\ I[n].block[i] = I[k].block[j] => n = k /\ i = j
    /\ \A n \in N : \A i \in Direct : I[n].block[i] # 0 => I[n].block[i] \in B
    /\ \A n \in N : \A i \in Direct : I[n].block[i] # 0 =>
         \A k \in Inodes : I[k].table # I[n].block[i]
    /\ \A n, k \in Inodes : I[n].table # 0 /\ I[n].table = I[k].table => n = k
    /\ \A n \in Inodes : I[n].table # 0 => I[n].table \in B
    /\ \A n \in Inodes : \A j \in Table : I[n].table # 0 /\ T[I[n].table][j] # 0 =>
         /\ T[I[n].table][j] \in B
         /\ \A k \in Inodes : I[k].table # T[I[n].table][j]
         /\ \A k \in N : \A i \in Direct : I[k].block[i] # T[I[n].table][j]

\* A sound file system keeps blocks apart: data, tables and pointers.
LEMMA Owned ==
    ASSUME NEW I, NEW B, NEW N, NEW D, NEW T, Sane(I, B, N, D, T)
    PROVE  Owns(I, B, N, T)
<1> DEFINE f == Holding(I, N, T)
<1>1. /\ \A p, q \in AllPlaces : f[p] # 0 /\ f[p] = f[q] => p = q
      /\ \A p \in AllPlaces : f[p] # 0 => f[p] \in B
  BY Zenon DEF Sane, Unique
<1>2. N \subseteq Inodes
  BY Zenon DEF Sane, Typed
<1> HIDE DEF f
<1>3. \A n \in N, i \in Direct : DP(n, i) \in AllPlaces /\ f[DP(n, i)] = I[n].block[i]
  BY <1>2, PlaceIs, HoldingAt DEF f
<1>4. \A n \in Inodes : TP(n) \in AllPlaces /\ f[TP(n)] = I[n].table
  BY PlaceIs, HoldingAt DEF f
<1>5. \A n \in Inodes, j \in Table : I[n].table # 0 =>
         IP(n, j) \in AllPlaces /\ f[IP(n, j)] = T[I[n].table][j]
  BY PlaceIs, HoldingAt DEF f
<1>6. \A n, k \in N : \A i, j \in Direct :
         I[n].block[i] # 0 /\ I[n].block[i] = I[k].block[j] => n = k /\ i = j
  BY <1>1, <1>3, PlacesDiffer
<1>7. \A n \in N : \A i \in Direct : I[n].block[i] # 0 => I[n].block[i] \in B
  BY ZenonT(60), <1>1, <1>3
<1>8. \A n \in N : \A i \in Direct : I[n].block[i] # 0 =>
         \A k \in Inodes : I[k].table # I[n].block[i]
  BY <1>1, <1>3, <1>4, PlacesDiffer
<1>9. \A n, k \in Inodes : I[n].table # 0 /\ I[n].table = I[k].table => n = k
  BY <1>1, <1>4, PlacesDiffer
<1>10. \A n \in Inodes : I[n].table # 0 => I[n].table \in B
  BY <1>1, <1>4, Zenon
<1>11. \A n \in Inodes : \A j \in Table : I[n].table # 0 /\ T[I[n].table][j] # 0 =>
                /\ T[I[n].table][j] \in B
                /\ \A k \in Inodes : I[k].table # T[I[n].table][j]
                /\ \A k \in N : \A i \in Direct : I[k].block[i] # T[I[n].table][j]
  <2> TAKE n \in Inodes
  <2> TAKE j \in Table
  <2> HAVE I[n].table # 0 /\ T[I[n].table][j] # 0
  <2>1. IP(n, j) \in AllPlaces /\ f[IP(n, j)] = T[I[n].table][j] /\ f[IP(n, j)] # 0
    BY Zenon, <1>5
  <2>2. T[I[n].table][j] \in B
    BY Zenon, <1>1, <2>1
  <2>3. \A k \in Inodes : I[k].table # T[I[n].table][j]
    BY <1>1, <1>4, <2>1, PlacesDiffer
  <2>4. \A k \in N : \A i \in Direct : I[k].block[i] # T[I[n].table][j]
    BY SMTT(60), <1>1, <1>3, <2>1, PlacesDiffer
  <2> QED
    BY Zenon, <2>2, <2>3, <2>4
<1> QED
  BY <1>6, <1>7, <1>8, <1>9, <1>10, <1>11, Zenon DEF Owns

\* Two inodes with one direct block are one inode.
LEMMA OwnsOnce ==
    ASSUME NEW I, NEW B, NEW N, NEW T, Owns(I, B, N, T), NEW n \in N, NEW k \in N,
           NEW i \in Direct, NEW j \in Direct, I[n].block[i] # 0, I[k].block[j] = I[n].block[i]
    PROVE  k = n
<1>1. \A a, c \in N : \A h, m \in Direct :
         I[a].block[h] # 0 /\ I[a].block[h] = I[c].block[m] => a = c /\ h = m
  BY Zenon DEF Owns
<1> QED BY SMTT(60), <1>1

-----------------------------------------------------------------------------
(* Entries. *)

\* Nothing is called `name` in directory p, and nothing leads to inode ino.
Fresh(E, p, name, ino) == \A x \in E : x[3][2] # ino /\ ~(x[1] = p /\ x[3][1] = name)

\* An entry <<n, b, e>> of a live directory.
At(I, N, D, n, b, e) ==
    /\ n \in N /\ I[n].mode = "dir"
    /\ \E i \in Direct : I[n].block[i] = b
    /\ e \in D[b] /\ e[1] \notin Dots

\* What is filed is what live directories hold.
LEMMA FiledIs ==
    ASSUME NEW I, NEW N, NEW D
    PROVE  /\ \A x \in Filed(I, N, D) : /\ x \in Inodes \X Blocks \X AllEntries
                                        /\ x = <<x[1], x[2], x[3]>>
                                        /\ x[1] \in Inodes /\ x[2] \in Blocks /\ x[3] \in AllEntries
                                        /\ At(I, N, D, x[1], x[2], x[3])
           /\ \A n \in Inodes, b \in Blocks, e \in AllEntries :
                At(I, N, D, n, b, e) => <<n, b, e>> \in Filed(I, N, D)
BY DEF Filed, At

\* A change outside the blocks of live directories leaves the entries alone.
LEMMA FiledSame ==
    ASSUME NEW I, NEW N, NEW D, NEW I2, NEW N2, NEW D2,
           \A n \in Inodes, b \in Blocks, e \in AllEntries :
              At(I2, N2, D2, n, b, e) <=> At(I, N, D, n, b, e)
    PROVE  Filed(I2, N2, D2) = Filed(I, N, D)
BY DEF Filed, At

\* Fewer entries, of which none leads to an inode that is gone.
LEMMA NamedLess ==
    ASSUME NEW E, NEW N, Named(E, N), NEW E2, NEW N2, E2 \subseteq E,
           \A x \in E2 : x[3][2] \in N2
    PROVE  Named(E2, N2)
BY Zenon DEF Named

\* One more entry.
LEMMA NamedAdd ==
    ASSUME NEW E, NEW N, Named(E, N), NEW E2, NEW x0, x0[3][2] \in N \ {Root},
           Fresh(E, x0[1], x0[3][1], x0[3][2]),
           \A x \in E2 : x \in E \/ x = x0
    PROVE  Named(E2, N)
BY Zenon DEF Named, Fresh

\* The parts of a sane file system.
LEMMA SaneIs ==
    ASSUME NEW I, NEW B, NEW N, NEW D, NEW T, Sane(I, B, N, D, T)
    PROVE  /\ I \in [Inodes -> InodeRecord] /\ B \subseteq Blocks /\ N \subseteq Inodes
           /\ D \in [Blocks -> SUBSET AllEntries] /\ T \in [Blocks -> [Table -> Blocks \cup {0}]]
           /\ Unique(Holding(I, N, T), B) /\ Named(Filed(I, N, D), N)
           /\ Root \in N /\ I[Root].mode = "dir"
           /\ DeadClear(I, N) /\ EmptyDirs(I, N) /\ FilesPlain(I, N, D)
           /\ JournalPlain(I, Filed(I, N, D))
BY Zenon DEF Sane, Typed, Shaped

-----------------------------------------------------------------------------
(* What the steps of an operation do to a sane file system. *)

\* Only what is free may differ.
Scratched(I, B, N, D, T, I2, D2, T2) ==
    /\ Typed(I2, B, N, D2, T2)
    /\ \A n \in N : I2[n] = I[n]
    /\ \A n \in Inodes : I2[n].table = I[n].table
    /\ \A n \in Inodes \ N : \A i \in Direct \ {0} : I2[n].block[i] = 0
    /\ \A b \in B : D2[b] = D[b] /\ T2[b] = T[b]

\* Inodes that are not in use, and blocks that are not, do not matter.
LEMMA Scratch ==
    ASSUME NEW I, NEW B, NEW N, NEW D, NEW T, Sane(I, B, N, D, T),
           NEW I2, NEW D2, NEW T2,
           Scratched(I, B, N, D, T, I2, D2, T2)
    PROVE  Sane(I2, B, N, D2, T2)
<1> SUFFICES ASSUME Typed(I2, B, N, D2, T2),
                       \A n \in N : I2[n] = I[n],
                       \A n \in Inodes : I2[n].table = I[n].table,
                       \A n \in Inodes \ N : \A i \in Direct \ {0} : I2[n].block[i] = 0,
                       \A b \in B : D2[b] = D[b] /\ T2[b] = T[b]
             PROVE  Sane(I2, B, N, D2, T2)
  BY Zenon DEF Scratched
<1>o. Owns(I, B, N, T)
  BY Zenon, Owned
<1>1. Holding(I2, N, T2) = Holding(I, N, T)
  <2>1. \A n \in Inodes : I[n].table # 0 => I[n].table \in B
    BY Zenon, <1>o DEF Owns
  <2>2. \A n \in Inodes, i \in Direct :
            (IF n \in N THEN I2[n].block[i] ELSE 0) = (IF n \in N THEN I[n].block[i] ELSE 0)
    BY Zenon
  <2>3. \A n \in Inodes : /\ I2[n].table = I[n].table
                          /\ I[n].table # 0 => T2[I[n].table] = T[I[n].table]
    BY <2>1, Zenon
  <2> QED
    BY SMTT(60), <2>2, <2>3, HoldingSame
<1>2. \A n \in N, i \in Direct : I[n].block[i] # 0 => I[n].block[i] \in B
  BY Zenon, <1>o DEF Owns
<1>3. Filed(I2, N, D2) = Filed(I, N, D)
  <2>1. \A n \in Inodes, b \in Blocks, e \in AllEntries :
           At(I2, N, D2, n, b, e) <=> At(I, N, D, n, b, e)
    BY ZenonT(60), <1>2, Consts DEF At
  <2> QED
    BY SMTT(60), <2>1, FiledSame
<1>4. /\ DeadClear(I2, N) /\ EmptyDirs(I2, N) /\ FilesPlain(I2, N, D2)
      /\ JournalPlain(I2, Filed(I, N, D))
  <2>1. DeadClear(I2, N)
    BY Zenon DEF DeadClear
  <2>2. EmptyDirs(I2, N)
    BY SaneIs DEF EmptyDirs
  <2>3. FilesPlain(I2, N, D2)
    BY SMTT(60), SaneIs, <1>2 DEF FilesPlain
  <2>4. JournalPlain(I2, Filed(I, N, D))
    BY SaneIs DEF JournalPlain, Named
  <2> QED
    BY Zenon, <2>1, <2>2, <2>3, <2>4
<1> QED
  BY Zenon, SaneIs, <1>1, <1>3, <1>4 DEF Sane, Shaped

\* Inode n becomes an empty file.
FileTaken(I, N, n, I2, N2) ==
    /\ n \in Inodes \ N
    /\ I2 \in [Inodes -> InodeRecord]
    /\ \A k \in Inodes \ {n} : I2[k] = I[k]
    /\ I2[n].mode = "file"
    /\ I2[n].table = I[n].table
    /\ Upd(I2[n].block, I[n].block, 0, 0)
    /\ Grown(N2, N, n)

\* An inode is taken for an empty file.
LEMMA NewFile ==
    ASSUME NEW I, NEW B, NEW N, NEW D, NEW T, Sane(I, B, N, D, T),
           NEW n, NEW I2, NEW N2,
           FileTaken(I, N, n, I2, N2)
    PROVE  Sane(I2, B, N2, D, T)
<1> SUFFICES ASSUME n \in Inodes \ N,
                       I2 \in [Inodes -> InodeRecord],
                       \A k \in Inodes \ {n} : I2[k] = I[k],
                       I2[n].mode = "file",
                       I2[n].table = I[n].table,
                       Upd(I2[n].block, I[n].block, 0, 0),
                       Grown(N2, N, n)
             PROVE  Sane(I2, B, N2, D, T)
  BY Zenon DEF FileTaken
<1>n. n \in N2 /\ N \subseteq N2 /\ \A k : k \in N2 /\ k # n => k \in N
  BY GrownIs, Zenon
<1>s. /\ I \in [Inodes -> InodeRecord] /\ B \subseteq Blocks /\ N \subseteq Inodes
      /\ D \in [Blocks -> SUBSET AllEntries] /\ T \in [Blocks -> [Table -> Blocks \cup {0}]]
      /\ Unique(Holding(I, N, T), B) /\ Named(Filed(I, N, D), N)
      /\ Root \in N /\ I[Root].mode = "dir"
      /\ DeadClear(I, N) /\ EmptyDirs(I, N) /\ FilesPlain(I, N, D)
      /\ JournalPlain(I, Filed(I, N, D))
  BY Zenon, SaneIs
<1>i. \A k \in Inodes : /\ I[k].table \in Blocks \cup {0}
                         /\ I[k].block \in [Direct -> Blocks \cup {0}]
                         /\ \A m \in Direct : I[k].block[m] \in Blocks \cup {0}
  BY Zenon, <1>s, InodeIs
<1>0. \A i \in Direct : I2[n].block[i] = 0
  BY <1>s, <1>i, Consts DEF DeadClear, Upd
<1>1. Holding(I2, N2, T) = Holding(I, N, T)
  <2>1. \A k \in Inodes, i \in Direct :
           (IF k \in N2 THEN I2[k].block[i] ELSE 0) = (IF k \in N THEN I[k].block[i] ELSE 0)
    BY Zenon, <1>s, <1>n, <1>0
  <2>2. \A k \in Inodes : /\ I2[k].table = I[k].table
                          /\ I[k].table # 0 => T[I[k].table] = T[I[k].table]
    BY Zenon
  <2> QED
    BY SMTT(60), <2>1, <2>2, HoldingSame
<1>2. Filed(I2, N2, D) = Filed(I, N, D)
  <2>1. \A k \in Inodes, b \in Blocks, e \in AllEntries :
           At(I2, N2, D, k, b, e) <=> At(I, N, D, k, b, e)
    BY Zenon, <1>s, <1>n DEF At
  <2> QED
    BY SMTT(60), <2>1, FiledSame
<1>3. \A x \in Filed(I, N, D) : x[3][2] \in N
  BY Zenon, <1>s DEF Named
<1>4. Named(Filed(I, N, D), N2)
  BY Zenon, <1>n, <1>3, <1>s, NamedLess
<1>5. DeadClear(I2, N2)
  BY SMTT(60), <1>s, <1>n DEF DeadClear
<1>6. EmptyDirs(I2, N2)
  BY SMTT(60), <1>s, <1>n DEF EmptyDirs
<1>7. FilesPlain(I2, N2, D)
  <2> SUFFICES ASSUME NEW k \in N2, I2[k].mode # "dir", NEW i \in Direct, I2[k].block[i] # 0
               PROVE  D[I2[k].block[i]] = {}
    BY Zenon DEF FilesPlain
  <2>1. k # n
    BY Zenon, <1>0
  <2> QED
    BY Zenon, <1>s, <1>n, <2>1 DEF FilesPlain
<1>8. JournalPlain(I2, Filed(I, N, D))
  BY Zenon, <1>3, <1>s DEF JournalPlain
<1> QED
  BY Zenon, <1>s, <1>n, <1>1, <1>2, <1>4, <1>5, <1>6, <1>7, <1>8 DEF Sane, Typed, Shaped

\* An inode and a block are taken for a directory with the entries . and ..
LEMMA NewDir ==
    ASSUME NEW I, NEW B, NEW N, NEW D, NEW T, Sane(I, B, N, D, T),
           NEW n \in Inodes \ N, NEW I2 \in [Inodes -> InodeRecord],
           \A k \in Inodes \ {n} : I2[k] = I[k],
           I2[n].mode = "dir", I2[n].size = 1, I2[n].table = I[n].table,
           NEW b \in Blocks \ B, Upd(I2[n].block, I[n].block, 0, b),
           NEW es \in SUBSET AllEntries, \A e \in es : e[1] \in Dots,
           NEW B2, Grown(B2, B, b), NEW N2, Grown(N2, N, n),
           NEW D2, Upd(D2, D, b, es), NEW T2, Upd(T2, T, b, NoTable)
    PROVE  Sane(I2, B2, N2, D2, T2)
<1>o. Owns(I, B, N, T)
  BY Zenon, Owned
<1>n. n \in N2 /\ N \subseteq N2 /\ \A k : k \in N2 /\ k # n => k \in N
  BY GrownIs, Zenon
<1>b. B2 \subseteq B \cup {b}
  BY Zenon DEF Grown
<1>s. /\ I \in [Inodes -> InodeRecord] /\ B \subseteq Blocks /\ N \subseteq Inodes
      /\ D \in [Blocks -> SUBSET AllEntries] /\ T \in [Blocks -> [Table -> Blocks \cup {0}]]
      /\ Unique(Holding(I, N, T), B) /\ Named(Filed(I, N, D), N)
      /\ Root \in N /\ I[Root].mode = "dir"
      /\ DeadClear(I, N) /\ EmptyDirs(I, N) /\ FilesPlain(I, N, D)
      /\ JournalPlain(I, Filed(I, N, D))
  BY Zenon, SaneIs
<1>i. \A k \in Inodes : /\ I[k].table \in Blocks \cup {0}
                         /\ I[k].block \in [Direct -> Blocks \cup {0}]
                         /\ \A m \in Direct : I[k].block[m] \in Blocks \cup {0}
  BY Zenon, <1>s, InodeIs
<1>0. /\ \A i \in Direct \ {0} : I2[n].block[i] = 0
      /\ I2[n].block[0] = b /\ b # 0 /\ 0 \in Direct
  <2>1. b # 0 /\ 0 \in Direct
    BY Zenon, Consts
  <2>2. DOMAIN I[n].block = Direct
    BY Zenon, <1>i
  <2>3. \A i \in Direct \ {0} : I[n].block[i] = 0
    BY Zenon, <1>s DEF DeadClear
  <2>4. I2[n].block = [I[n].block EXCEPT ![0] = b]
    BY Zenon DEF Upd
  <2> QED BY Zenon, <2>1, <2>2, <2>3, <2>4
<1>1. /\ D2 \in [Blocks -> SUBSET AllEntries] /\ T2 \in [Blocks -> [Table -> Blocks \cup {0}]]
      /\ D2[b] = es /\ \A c \in Blocks \ {b} : D2[c] = D[c] /\ T2[c] = T[c]
  BY Zenon, <1>s DEF NoTable, Upd
<1>2. Unique(Holding(I2, N2, T2), B2)
  <2>1. DP(n, 0) \in AllPlaces /\ Holding(I2, N2, T2)[DP(n, 0)] = b
    BY SMTT(60), <1>n, <1>0, HeldDirect DEF InUse
  <2>2. \A k \in Inodes, i \in Direct :
           DP(k, i) # DP(n, 0) => InUse(I2, N2, k, i) = InUse(I, N, k, i)
    BY Zenon, <1>s, <1>n, <1>0 DEF InUse
  <2>3. \A k \in Inodes : I2[k].table = I[k].table
    BY Zenon
  <2>4. \A k \in Inodes : I[k].table # 0 => T2[I[k].table] = T[I[k].table]
    BY SMTT(60), <1>s, <1>1, <1>i, <1>o DEF Owns
  <2>5. \A k \in Inodes, j \in Table : InTable(I2, T2, k, j) = InTable(I, T, k, j)
    BY Zenon, <2>3, <2>4 DEF InTable
  <2> QED
    <3>1. PlaceTaken(I, B, N, T, I2, B2, N2, T2, b, DP(n, 0))
      BY Zenon, <1>s, <1>0, <2>1, <2>2, <2>3, <2>5 DEF PlaceTaken
    <3> QED BY Zenon, <3>1, UniqueTake
<1>3. Filed(I2, N2, D2) = Filed(I, N, D)
  <2>1. ASSUME NEW k \in Inodes, NEW c \in Blocks, NEW e \in AllEntries
        PROVE  At(I2, N2, D2, k, c, e) <=> At(I, N, D, k, c, e)
    <3>1. CASE k = n
      BY SMTT(60), <1>s, <1>0, <1>1, <3>1, <1>n, Consts DEF At
    <3>2. CASE k # n /\ c = b
      BY SMTT(60), <1>s, <1>n, <1>0, <3>2, <1>o DEF Owns, At
    <3>3. CASE k # n /\ c # b
      BY SMTT(60), <1>s, <1>n, <1>1, <3>3 DEF At
    <3> QED
      BY Zenon, <3>1, <3>2, <3>3
  <2> QED
    BY <2>1, FiledSame
<1>4. \A x \in Filed(I, N, D) : x[3][2] \in N
  BY Zenon, <1>s DEF Named
<1>5. Named(Filed(I, N, D), N2)
  BY Zenon, <1>n, <1>4, <1>s, NamedLess
<1>6. DeadClear(I2, N2) /\ EmptyDirs(I2, N2)
  BY SMTT(60), <1>s, <1>n DEF DeadClear, EmptyDirs
<1>7. FilesPlain(I2, N2, D2)
  <2> SUFFICES ASSUME NEW k \in N2, I2[k].mode # "dir", NEW i \in Direct, I2[k].block[i] # 0
               PROVE  D2[I2[k].block[i]] = {}
    BY Zenon DEF FilesPlain
  <2>1. k \in N /\ I2[k] = I[k]
    BY ZenonT(60), <1>s, <1>n
  <2>2. I[k].block[i] \in Blocks \ {b} /\ D[I[k].block[i]] = {}
    BY <1>s, <2>1, <1>o DEF Owns, FilesPlain
  <2> QED
    BY ZenonT(60), <1>1, <2>1, <2>2
<1>8. JournalPlain(I2, Filed(I, N, D))
  BY Zenon, <1>4, <1>s DEF JournalPlain
<1> QED
  BY Zenon, <1>s, <1>n, <1>b, <1>1, <1>2, <1>3, <1>5, <1>6, <1>7, <1>8 DEF Sane, Typed, Shaped

\* A block of a directory is rewritten.
LEMMA DirWrite ==
    ASSUME NEW I, NEW B, NEW N, NEW D, NEW T, Sane(I, B, N, D, T),
           NEW p \in N, I[p].mode = "dir", NEW i \in Direct, NEW b, b = I[p].block[i], b # 0,
           NEW es \in SUBSET AllEntries,
           NEW D2, Upd(D2, D, b, es), NEW T2, Upd(T2, T, b, NoTable),
           Named(Filed(I, N, D2), N), JournalPlain(I, Filed(I, N, D2))
    PROVE  Sane(I, B, N, D2, T2)
<1>o. Owns(I, B, N, T)
  BY Zenon, Owned
<1>s. /\ I \in [Inodes -> InodeRecord] /\ B \subseteq Blocks /\ N \subseteq Inodes
      /\ D \in [Blocks -> SUBSET AllEntries] /\ T \in [Blocks -> [Table -> Blocks \cup {0}]]
      /\ Unique(Holding(I, N, T), B)
      /\ Root \in N /\ I[Root].mode = "dir"
      /\ DeadClear(I, N) /\ EmptyDirs(I, N) /\ FilesPlain(I, N, D)
  BY Zenon, SaneIs
<1>i. \A k \in Inodes : /\ I[k].table \in Blocks \cup {0}
                         /\ I[k].block \in [Direct -> Blocks \cup {0}]
                         /\ \A m \in Direct : I[k].block[m] \in Blocks \cup {0}
  BY ZenonT(60), <1>s, InodeIs
<1>0. b \in B /\ b \in Blocks
  BY SMTT(60), <1>s, <1>o DEF Owns
<1>1. /\ D2 \in [Blocks -> SUBSET AllEntries] /\ T2 \in [Blocks -> [Table -> Blocks \cup {0}]]
      /\ \A c \in Blocks \ {b} : D2[c] = D[c] /\ T2[c] = T[c]
  BY Zenon, <1>s, <1>0 DEF NoTable, Upd
<1>2. Holding(I, N, T2) = Holding(I, N, T)
  <2>1. \A k \in Inodes : I[k].table # b
    BY SMTT(60), <1>o DEF Owns
  <2>2. \A k \in Inodes : I[k].table # 0 => T2[I[k].table] = T[I[k].table]
    BY SMTT(60), <1>s, <1>1, <2>1, <1>i
  <2> QED
    BY SMTT(60), <2>2, HoldingSame
<1>3. FilesPlain(I, N, D2)
  <2> SUFFICES ASSUME NEW k \in N, I[k].mode # "dir", NEW j \in Direct, I[k].block[j] # 0
               PROVE  D2[I[k].block[j]] = {}
    BY Zenon DEF FilesPlain
  <2>1. I[k].block[j] # b
    BY <1>o DEF Owns
  <2>2. I[k].block[j] \in Blocks /\ D[I[k].block[j]] = {}
    BY ZenonT(60), <1>s, <1>o DEF Owns, FilesPlain
  <2> QED
    BY Zenon, <1>1, <2>1, <2>2
<1> QED
  BY Zenon, <1>s, <1>1, <1>2, <1>3 DEF Sane, Typed, Shaped

\* An entry goes into a block of a directory.
LEMMA AddToBlock ==
    ASSUME NEW I, NEW B, NEW N, NEW D, NEW T, Sane(I, B, N, D, T),
           NEW p \in N, I[p].mode = "dir", NEW i \in Direct, NEW b, b = I[p].block[i], b # 0,
           NEW name \in Names, NEW ino \in N \ {Root}, Fresh(Filed(I, N, D), p, name, ino),
           p = Root /\ name = Journal => I[ino].mode # "dir",
           NEW D2, Upd(D2, D, b, D[b] \cup {<<name, ino>>}), NEW T2, Upd(T2, T, b, NoTable)
    PROVE  Sane(I, B, N, D2, T2)
<1> DEFINE es == D[b] \cup {<<name, ino>>}
<1>o. Owns(I, B, N, T)
  BY Zenon, Owned
<1>s. /\ I \in [Inodes -> InodeRecord] /\ B \subseteq Blocks /\ N \subseteq Inodes
      /\ D \in [Blocks -> SUBSET AllEntries]
      /\ Named(Filed(I, N, D), N) /\ JournalPlain(I, Filed(I, N, D))
  BY Zenon, SaneIs
<1>0. b \in B /\ b \in Blocks
  BY ZenonT(60), <1>s, <1>o DEF Owns
<1>1. es \in SUBSET AllEntries
  BY SMTT(60), <1>s, <1>0 DEF AllEntries
<1>2. D2[b] = es /\ \A c \in Blocks \ {b} : D2[c] = D[c]
  BY Zenon, <1>s, <1>0 DEF Upd
<1> DEFINE e0 == <<name, ino>>
           x0 == <<p, b, e0>>
<1>e. e0[1] = name /\ e0[2] = ino /\ es = D[b] \cup {e0} /\ x0[1] = p /\ x0[3] = e0
  BY Zenon
<1> HIDE DEF es, e0
<1>3. \A x \in Filed(I, N, D2) : x \in Filed(I, N, D) \/ x = x0
  <2>1. ASSUME NEW k \in Inodes, NEW c \in Blocks, NEW e \in AllEntries, At(I, N, D2, k, c, e)
        PROVE  At(I, N, D, k, c, e) \/ (k = p /\ c = b /\ e = e0)
    <3>1. CASE c # b
      BY Zenon, <1>2, <2>1, <3>1 DEF At
    <3>2. CASE c = b
      <4>1. k = p
        BY SMTT(60), <2>1, <3>2, <1>o DEF Owns, At
      <4>2. e \in D[b] \/ e = e0
        BY Zenon, <1>e, <1>2, <2>1, <3>2 DEF At
      <4> QED
        BY Zenon, <2>1, <3>2, <4>1, <4>2 DEF At
    <3> QED
      BY ZenonT(60), <3>1, <3>2
  <2> TAKE x \in Filed(I, N, D2)
  <2>2. /\ x = <<x[1], x[2], x[3]>> /\ x[1] \in Inodes /\ x[2] \in Blocks /\ x[3] \in AllEntries
        /\ At(I, N, D2, x[1], x[2], x[3])
    BY SMTT(60), FiledIs
  <2>3. CASE At(I, N, D, x[1], x[2], x[3])
    BY SMTT(60), <2>2, <2>3, FiledIs
  <2>4. CASE x[1] = p /\ x[2] = b /\ x[3] = e0
    BY Zenon, <2>2, <2>4
  <2> QED
    BY Zenon, <2>1, <2>2, <2>3, <2>4
<1> HIDE DEF x0
<1>4. Named(Filed(I, N, D2), N)
  BY Zenon, <1>e, <1>s, <1>3, NamedAdd
<1>5. JournalPlain(I, Filed(I, N, D2))
  BY Zenon, <1>e, <1>s, <1>3 DEF JournalPlain
<1>6. Upd(D2, D, b, es)
  BY Zenon DEF es
<1> QED
  BY Zenon, <1>1, <1>4, <1>5, <1>6, DirWrite

\* Entry e0 of block b, which is block i of directory p, is taken out.
Removes(I, N, D, T, p, i, b, e0, D2, T2) ==
    /\ p \in N /\ I[p].mode = "dir" /\ i \in Direct /\ b = I[p].block[i] /\ b # 0
    /\ e0 \in D[b] /\ e0[1] \notin Dots
    /\ Upd(D2, D, b, D[b] \ {e0}) /\ Upd(T2, T, b, NoTable)

\* Its inode has no name left.
Removed(I, B, N, D, e0, D2, T2) ==
    /\ Sane(I, B, N, D2, T2)
    /\ Filed(I, N, D2) \subseteq Filed(I, N, D)
    /\ \A x \in Filed(I, N, D2) : x[3][2] # e0[2]
    /\ e0[2] \in N \ {Root}

\* An entry is removed from a block of a directory.
LEMMA RemoveEntry ==
    ASSUME NEW I, NEW B, NEW N, NEW D, NEW T, Sane(I, B, N, D, T),
           NEW p, NEW i, NEW b, NEW e0, NEW D2, NEW T2, Removes(I, N, D, T, p, i, b, e0, D2, T2)
    PROVE  Removed(I, B, N, D, e0, D2, T2)
<1> SUFFICES ASSUME p \in N, I[p].mode = "dir", i \in Direct, b = I[p].block[i], b # 0,
                    e0 \in D[b], e0[1] \notin Dots,
                    Upd(D2, D, b, D[b] \ {e0}), Upd(T2, T, b, NoTable)
             PROVE  Removed(I, B, N, D, e0, D2, T2)
  BY Zenon DEF Removes
<1> DEFINE es == D[b] \ {e0}
<1>o. Owns(I, B, N, T)
  BY Zenon, Owned
<1>s. /\ I \in [Inodes -> InodeRecord] /\ B \subseteq Blocks /\ N \subseteq Inodes
      /\ D \in [Blocks -> SUBSET AllEntries]
      /\ Named(Filed(I, N, D), N) /\ JournalPlain(I, Filed(I, N, D))
  BY Zenon, SaneIs
<1>0. b \in B /\ b \in Blocks
  BY SMTT(60), <1>s, <1>o DEF Owns
<1>1. es \in SUBSET AllEntries
  BY Zenon, <1>s, <1>0
<1>2. D2[b] = es /\ \A c \in Blocks \ {b} : D2[c] = D[c]
  BY Zenon, <1>s, <1>0 DEF Upd
<1>3. ASSUME NEW x \in Filed(I, N, D2) PROVE x \in Filed(I, N, D) /\ x # <<p, b, e0>>
  <2>1. /\ x = <<x[1], x[2], x[3]>> /\ x[1] \in Inodes /\ x[2] \in Blocks /\ x[3] \in AllEntries
        /\ At(I, N, D2, x[1], x[2], x[3])
    BY Zenon, FiledIs
  <2>2. At(I, N, D, x[1], x[2], x[3])
    BY Zenon, <1>2, <2>1 DEF At
  <2>3. x \in Filed(I, N, D)
    BY SMTT(60), <2>1, <2>2, FiledIs
  <2>4. ~(x[2] = b /\ x[3] = e0)
    BY Zenon, <1>2, <2>1 DEF At
  <2> QED
    BY SMTT(60), <2>3, <2>4
<1>4. <<p, b, e0>> \in Filed(I, N, D)
  <2>1. At(I, N, D, p, b, e0)
    BY Zenon, <1>s DEF At
  <2>2. p \in Inodes /\ e0 \in AllEntries
    BY Zenon, <1>s, <1>0
  <2> QED
    BY Zenon, <1>0, <2>1, <2>2, FiledIs
<1>5. e0[2] \in N \ {Root} /\ \A x \in Filed(I, N, D2) : x[3][2] # e0[2]
  <2> DEFINE y == <<p, b, e0>>
  <2>1. y[3] = e0 /\ y \in Filed(I, N, D)
    BY Zenon, <1>4
  <2> HIDE DEF y
  <2> QED
    BY Zenon, <1>s, <1>3, <2>1 DEF Named, y
<1>6. Named(Filed(I, N, D2), N)
  <2>1. \A x \in Filed(I, N, D2) : x[3][2] \in N
    BY Zenon, <1>s, <1>3 DEF Named
  <2> QED
    BY Zenon, <1>s, <1>3, <2>1, NamedLess
<1>7. JournalPlain(I, Filed(I, N, D2))
  BY Zenon, <1>s, <1>3 DEF JournalPlain
<1> HIDE DEF es
<1>8. Upd(D2, D, b, es)
  BY Zenon DEF es
<1>9. Sane(I, B, N, D2, T2)
  BY Zenon, <1>1, <1>6, <1>7, <1>8, DirWrite
<1>10. Filed(I, N, D2) \subseteq Filed(I, N, D)
  BY Zenon, <1>3
<1> QED
  BY Zenon, <1>5, <1>9, <1>10 DEF Removed

\* Inode n gets block b as its direct block i, with the entries es.
Takes(I, B, N, D, T, n, i, b, es, I2, B2, D2, T2) ==
    /\ n \in N /\ i \in Direct /\ I[n].block[i] = 0 /\ b \in Blocks \ B
    /\ I2 \in [Inodes -> InodeRecord] /\ \A k \in Inodes \ {n} : I2[k] = I[k]
    /\ I2[n].mode = I[n].mode /\ I2[n].table = I[n].table
    /\ Upd(I2[n].block, I[n].block, i, b)
    /\ Grown(B2, B, b)
    /\ es \in SUBSET AllEntries /\ Upd(D2, D, b, es) /\ Upd(T2, T, b, NoTable)

\* What comes of it whether or not n is a directory.
Taken(I, N, D, n, i, b, es, I2, B2, D2, T2) ==
    /\ Typed(I2, B2, N, D2, T2)
    /\ Unique(Holding(I2, N, T2), B2)
    /\ Root \in N /\ I2[Root].mode = "dir"
    /\ DeadClear(I2, N)
    /\ D2[b] = es /\ \A c \in Blocks \ {b} : D2[c] = D[c]
    /\ I2[n].block[i] = b /\ \A j \in Direct \ {i} : I2[n].block[j] = I[n].block[j]
    /\ \A k \in N : \A j \in Direct : I[k].block[j] # b
    /\ \A k \in N : I2[k].mode = I[k].mode

\* A direct pointer takes a free block: what add_entry_to_dir and
\* ext2_bmap_alloc have in common.
LEMMA TakeBlock ==
    ASSUME NEW I, NEW B, NEW N, NEW D, NEW T, Sane(I, B, N, D, T),
           NEW n, NEW i, NEW b, NEW es, NEW I2, NEW B2, NEW D2, NEW T2,
           Takes(I, B, N, D, T, n, i, b, es, I2, B2, D2, T2)
    PROVE  Taken(I, N, D, n, i, b, es, I2, B2, D2, T2)
<1> USE DEF Takes
<1>o. Owns(I, B, N, T)
  BY Zenon, Owned
<1>s. /\ I \in [Inodes -> InodeRecord] /\ B \subseteq Blocks /\ N \subseteq Inodes
      /\ D \in [Blocks -> SUBSET AllEntries] /\ T \in [Blocks -> [Table -> Blocks \cup {0}]]
      /\ Unique(Holding(I, N, T), B)
      /\ Root \in N /\ I[Root].mode = "dir"
      /\ DeadClear(I, N)
  BY Zenon, SaneIs
<1>i. \A k \in Inodes : /\ I[k].table \in Blocks \cup {0}
                         /\ I[k].block \in [Direct -> Blocks \cup {0}]
                         /\ \A m \in Direct : I[k].block[m] \in Blocks \cup {0}
  BY Zenon, <1>s, InodeIs
<1>n. n \in Inodes
  BY Zenon, <1>s
<1>0. /\ \A j \in Direct \ {i} : I2[n].block[j] = I[n].block[j]
      /\ I2[n].block[i] = b /\ b # 0
  BY SMTT(60), <1>s, <1>n, <1>i, Consts DEF Upd
<1>1. /\ D2 \in [Blocks -> SUBSET AllEntries] /\ T2 \in [Blocks -> [Table -> Blocks \cup {0}]]
      /\ D2[b] = es /\ \A c \in Blocks \ {b} : D2[c] = D[c] /\ T2[c] = T[c]
  BY Zenon, <1>s DEF NoTable, Upd
<1>2. Unique(Holding(I2, N, T2), B2)
  <2>1. DP(n, i) \in AllPlaces /\ Holding(I2, N, T2)[DP(n, i)] = b
    BY SMTT(60), <1>n, <1>0, HeldDirect DEF InUse
  <2>2. \A k \in Inodes, j \in Direct :
           DP(k, j) # DP(n, i) => InUse(I2, N, k, j) = InUse(I, N, k, j)
    BY Zenon, <1>n, <1>0 DEF InUse
  <2>3. \A k \in Inodes : I2[k].table = I[k].table
    BY ZenonT(60)
  <2>4. \A k \in Inodes : I[k].table # 0 => T2[I[k].table] = T[I[k].table]
    BY <1>s, <1>1, <1>i, <1>o DEF Owns
  <2>5. \A k \in Inodes, j \in Table : InTable(I2, T2, k, j) = InTable(I, T, k, j)
    BY Zenon, <2>3, <2>4 DEF InTable
  <2> QED
    <3>1. PlaceTaken(I, B, N, T, I2, B2, N, T2, b, DP(n, i))
      BY ZenonT(60), <1>s, <1>0, <2>1, <2>2, <2>3, <2>5 DEF PlaceTaken
    <3> QED BY Zenon, <3>1, UniqueTake
<1>3. B2 \subseteq Blocks
  BY Zenon, <1>s DEF Grown
<1>4. DeadClear(I2, N)
  BY SMTT(60), <1>s, <1>n DEF DeadClear
<1>5. \A k \in N : \A j \in Direct : I[k].block[j] # b
  BY SMTT(60), <1>0, <1>o DEF Owns
<1>6. I2[Root].mode = "dir"
  BY Zenon, <1>s
<1>7. \A k \in N : I2[k].mode = I[k].mode
  BY Zenon, <1>s
<1> QED
  BY Zenon, <1>s, <1>0, <1>1, <1>2, <1>3, <1>4, <1>5, <1>6, <1>7 DEF Typed, Taken

\* A directory gets a new block with one entry.
LEMMA GrowDir ==
    ASSUME NEW I, NEW B, NEW N, NEW D, NEW T, Sane(I, B, N, D, T),
           NEW n, NEW i, NEW b, NEW es, NEW I2, NEW B2, NEW D2, NEW T2,
           Takes(I, B, N, D, T, n, i, b, es, I2, B2, D2, T2),
           I[n].mode = "dir", I2[n].size # 0,
           NEW name \in Names, NEW ino \in N \ {Root}, Fresh(Filed(I, N, D), n, name, ino),
           n = Root /\ name = Journal => I[ino].mode # "dir",
           es = {<<name, ino>>}
    PROVE  Sane(I2, B2, N, D2, T2)
<1>s. /\ I \in [Inodes -> InodeRecord] /\ B \subseteq Blocks /\ N \subseteq Inodes
      /\ D \in [Blocks -> SUBSET AllEntries]
      /\ Named(Filed(I, N, D), N) /\ JournalPlain(I, Filed(I, N, D))
      /\ EmptyDirs(I, N) /\ FilesPlain(I, N, D)
  BY ZenonT(60), SaneIs
<1>i. \A k \in Inodes : /\ I[k].table \in Blocks \cup {0}
                         /\ I[k].block \in [Direct -> Blocks \cup {0}]
                         /\ \A m \in Direct : I[k].block[m] \in Blocks \cup {0}
  BY Zenon, <1>s, InodeIs
<1> DEFINE e0 == <<name, ino>>
           x0 == <<n, b, e0>>
<1>e. /\ e0[1] = name /\ e0[2] = ino /\ x0[1] = n /\ x0[3] = e0 /\ es = {e0}
  BY Zenon
<1> HIDE DEF e0
<1>0. Taken(I, N, D, n, i, b, es, I2, B2, D2, T2)
  BY TakeBlock, Zenon
<1>1. /\ Typed(I2, B2, N, D2, T2)
      /\ Unique(Holding(I2, N, T2), B2)
      /\ Root \in N /\ I2[Root].mode = "dir"
      /\ DeadClear(I2, N)
      /\ D2[b] = es /\ \A c \in Blocks \ {b} : D2[c] = D[c]
      /\ I2[n].block[i] = b /\ \A j \in Direct \ {i} : I2[n].block[j] = I[n].block[j]
      /\ \A k \in N : \A j \in Direct : I[k].block[j] # b
      /\ \A k \in N : I2[k].mode = I[k].mode
  BY ZenonT(60), <1>0 DEF Taken
<1>t. /\ n \in N /\ i \in Direct /\ b \in Blocks /\ \A k \in Inodes \ {n} : I2[k] = I[k]
  BY Zenon DEF Takes
<1>2. \A x \in Filed(I2, N, D2) : x \in Filed(I, N, D) \/ x = x0
  <2>1. ASSUME NEW k \in Inodes, NEW c \in Blocks, NEW e \in AllEntries, At(I2, N, D2, k, c, e)
        PROVE  At(I, N, D, k, c, e) \/ (k = n /\ c = b /\ e = e0)
    <3>0. k \in N /\ I2[k].mode = "dir" /\ I[k].mode = "dir" /\ e \in D2[c] /\ e[1] \notin Dots
      BY ZenonT(60), <1>1, <2>1 DEF At
    <3>1. PICK j \in Direct : I2[k].block[j] = c
      BY Zenon, <1>1, <2>1 DEF At
    <3>2. CASE k = n /\ j = i
      BY <1>e, <1>t, <1>1, <3>0, <3>1, <3>2
    <3>3. CASE ~(k = n /\ j = i)
      <4>1. I[k].block[j] = c /\ c # b
        BY SMTT(60), <1>t, <1>1, <3>0, <3>1, <3>3
      <4> QED
        BY ZenonT(60), <1>1, <3>0, <4>1 DEF At
    <3> QED
      BY Zenon, <3>2, <3>3
  <2> TAKE x \in Filed(I2, N, D2)
  <2>2. /\ x = <<x[1], x[2], x[3]>> /\ x[1] \in Inodes /\ x[2] \in Blocks /\ x[3] \in AllEntries
        /\ At(I2, N, D2, x[1], x[2], x[3])
    BY SMTT(60), FiledIs
  <2>3. CASE At(I, N, D, x[1], x[2], x[3])
    BY SMTT(60), <2>2, <2>3, FiledIs
  <2>4. CASE x[1] = n /\ x[2] = b /\ x[3] = e0
    BY Zenon, <2>2, <2>4
  <2> QED
    BY Zenon, <2>1, <2>2, <2>3, <2>4
<1> HIDE DEF x0
<1>3. Named(Filed(I2, N, D2), N)
  BY ZenonT(60), <1>e, <1>s, <1>2, NamedAdd
<1>4. JournalPlain(I2, Filed(I2, N, D2))
  <2>1. \A x \in Filed(I, N, D) : x[3][2] \in N
    BY ZenonT(60), <1>s DEF Named
  <2> QED
    BY <1>e, <1>s, <1>1, <1>2, <2>1 DEF JournalPlain
<1>5. EmptyDirs(I2, N)
  BY <1>s, <1>t DEF EmptyDirs
<1>6. FilesPlain(I2, N, D2)
  <2> SUFFICES ASSUME NEW k \in N, I2[k].mode # "dir", NEW j \in Direct, I2[k].block[j] # 0
               PROVE  D2[I2[k].block[j]] = {}
    BY Zenon DEF FilesPlain
  <2>1. k # n /\ I2[k] = I[k]
    BY ZenonT(60), <1>s, <1>t, <1>1
  <2>2. I[k].block[j] \in Blocks \ {b} /\ D[I[k].block[j]] = {}
    BY <1>s, <1>1, <2>1, <1>i DEF FilesPlain
  <2> QED
    BY ZenonT(60), <1>1, <2>1, <2>2
<1> QED
  BY Zenon, <1>1, <1>3, <1>4, <1>5, <1>6 DEF Sane, Shaped

\* A file gets a direct block.
LEMMA GrowFile ==
    ASSUME NEW I, NEW B, NEW N, NEW D, NEW T, Sane(I, B, N, D, T),
           NEW n, NEW i, NEW b, NEW es, NEW I2, NEW B2, NEW D2, NEW T2,
           Takes(I, B, N, D, T, n, i, b, es, I2, B2, D2, T2),
           I[n].mode # "dir", es = {}
    PROVE  Sane(I2, B2, N, D2, T2)
<1>s. /\ I \in [Inodes -> InodeRecord] /\ B \subseteq Blocks /\ N \subseteq Inodes
      /\ D \in [Blocks -> SUBSET AllEntries]
      /\ Named(Filed(I, N, D), N) /\ JournalPlain(I, Filed(I, N, D))
      /\ EmptyDirs(I, N) /\ FilesPlain(I, N, D)
  BY Zenon, SaneIs
<1>0. Taken(I, N, D, n, i, b, es, I2, B2, D2, T2)
  BY TakeBlock, Zenon
<1>1. /\ Typed(I2, B2, N, D2, T2)
      /\ Unique(Holding(I2, N, T2), B2)
      /\ Root \in N /\ I2[Root].mode = "dir"
      /\ DeadClear(I2, N)
      /\ D2[b] = es /\ \A c \in Blocks \ {b} : D2[c] = D[c]
      /\ I2[n].block[i] = b /\ \A j \in Direct \ {i} : I2[n].block[j] = I[n].block[j]
      /\ \A k \in N : \A j \in Direct : I[k].block[j] # b
      /\ \A k \in N : I2[k].mode = I[k].mode
  BY ZenonT(60), <1>0 DEF Taken
<1>t. /\ n \in N /\ i \in Direct /\ b \in Blocks /\ \A k \in Inodes \ {n} : I2[k] = I[k]
  BY ZenonT(60) DEF Takes
<1>2. Filed(I2, N, D2) = Filed(I, N, D)
  <2>1. ASSUME NEW k \in Inodes, NEW c \in Blocks, NEW e \in AllEntries
        PROVE  At(I2, N, D2, k, c, e) <=> At(I, N, D, k, c, e)
    <3>1. CASE k = n
      BY Zenon, <1>t, <1>1, <3>1 DEF At
    <3>2. CASE k # n /\ c = b
      BY ZenonT(60), <1>t, <1>1, <3>2 DEF At
    <3>3. CASE k # n /\ c # b
      BY <1>t, <1>1, <3>3 DEF At
    <3> QED
      BY Zenon, <3>1, <3>2, <3>3
  <2> QED
    BY SMTT(60), <2>1, FiledSame
<1>3. JournalPlain(I2, Filed(I, N, D))
  <2>1. \A x \in Filed(I, N, D) : x[3][2] \in N
    BY ZenonT(60), <1>s DEF Named
  <2> QED
    BY ZenonT(60), <1>s, <1>1, <2>1 DEF JournalPlain
<1>4. EmptyDirs(I2, N)
  BY <1>s, <1>t, <1>1 DEF EmptyDirs
<1>5. FilesPlain(I2, N, D2)
  <2> SUFFICES ASSUME NEW k \in N, I2[k].mode # "dir", NEW j \in Direct, I2[k].block[j] # 0
               PROVE  D2[I2[k].block[j]] = {}
    BY Zenon DEF FilesPlain
  <2>1. CASE k = n /\ j = i
    BY Zenon, <1>1, <2>1
  <2>2. CASE ~(k = n /\ j = i)
    <3>1. I2[k].block[j] = I[k].block[j] /\ I[k].mode # "dir"
      BY Zenon, <1>s, <1>t, <1>1, <2>2
    <3>2. I[k].block[j] # b /\ D[I[k].block[j]] = {}
      BY Zenon, <1>s, <1>1, <3>1 DEF FilesPlain
    <3>3. I[k].block[j] \in Blocks
      BY Zenon, <1>s, <3>1, InodeIs
    <3> QED
      BY Zenon, <1>1, <3>1, <3>2, <3>3
  <2> QED
    BY Zenon, <2>1, <2>2
<1> QED
  BY Zenon, <1>s, <1>1, <1>2, <1>3, <1>4, <1>5 DEF Sane, Shaped

\* Inode n gives up its direct blocks.
Frees(I, n, I2) ==
    /\ I2 \in [Inodes -> InodeRecord] /\ \A k \in Inodes \ {n} : I2[k] = I[k]
    /\ \A i \in Direct : I2[n].block[i] = 0
    /\ I2[n].mode = I[n].mode /\ I2[n].table = I[n].table

\* Inode n is released, in the table of inodes alone or in the bitmaps as well.
LEMMA Release ==
    ASSUME NEW I, NEW B, NEW N, NEW D, NEW T, Sane(I, B, N, D, T),
           NEW n \in N \ {Root}, \A x \in Filed(I, N, D) : x[3][2] # n,
           NEW I2, Frees(I, n, I2),
           NEW B2, B2 \subseteq B, \A c \in B \ B2 : \E i \in Direct : I[n].block[i] = c,
           NEW N2, N \ {n} \subseteq N2, N2 \subseteq N
    PROVE  Sane(I2, B2, N2, D, T)
<1>o. Owns(I, B, N, T)
  BY Zenon, Owned
<1>s. /\ I \in [Inodes -> InodeRecord] /\ B \subseteq Blocks /\ N \subseteq Inodes
      /\ D \in [Blocks -> SUBSET AllEntries] /\ T \in [Blocks -> [Table -> Blocks \cup {0}]]
      /\ Unique(Holding(I, N, T), B) /\ Named(Filed(I, N, D), N)
      /\ Root \in N /\ I[Root].mode = "dir"
      /\ DeadClear(I, N) /\ EmptyDirs(I, N) /\ FilesPlain(I, N, D)
      /\ JournalPlain(I, Filed(I, N, D))
  BY ZenonT(60), SaneIs
<1>f. /\ I2 \in [Inodes -> InodeRecord] /\ \A k \in Inodes \ {n} : I2[k] = I[k]
      /\ \A i \in Direct : I2[n].block[i] = 0
      /\ \A k \in Inodes : I2[k].mode = I[k].mode /\ I2[k].table = I[k].table
  BY Zenon DEF Frees
<1>1. Unique(Holding(I2, N2, T), B2)
  <2> DEFINE f == Holding(I, N, T)
             g == Holding(I2, N2, T)
  <2> SUFFICES ASSUME NEW p \in AllPlaces, g[p] # 0 PROVE g[p] = f[p] /\ g[p] \in B2
    <3> HIDE DEF f, g
    <3>1. Unique(f, B)
      BY Zenon, <1>s DEF f
    <3>2. Unique(g, B2)
      BY Zenon, <3>1, UniqueLess
    <3> QED
      BY Zenon, <3>2 DEF g
  <2>1. CASE \E k \in Inodes, i \in Direct : p = DP(k, i)
    <3>1. PICK k \in Inodes, i \in Direct : p = DP(k, i)
      BY Zenon, <2>1
    <3>2. g[p] = InUse(I2, N2, k, i) /\ f[p] = InUse(I, N, k, i)
      BY SMTT(60), <3>1, HeldDirect
    <3>3. k # n /\ k \in N2 /\ k \in N /\ g[p] = I[k].block[i] /\ f[p] = I[k].block[i]
      BY ZenonT(60), <1>f, <3>2 DEF InUse
    <3>4. I[k].block[i] \in B /\ \A j \in Direct : I[n].block[j] # I[k].block[i]
      BY <3>3, <1>o DEF Owns
    <3> QED
      BY Zenon, <3>3, <3>4
  <2>2. CASE \E k \in Inodes : p = TP(k)
    <3>1. PICK k \in Inodes : p = TP(k)
      BY Zenon, <2>2
    <3>2. g[p] = I[k].table /\ f[p] = I[k].table
      BY SMTT(60), <1>f, <3>1, HeldTable
    <3>3. I[k].table \in B /\ \A j \in Direct : I[n].block[j] # I[k].table
      BY <3>2, <1>o DEF Owns
    <3> QED
      BY Zenon, <3>2, <3>3
  <2>3. CASE \E k \in Inodes, j \in Table : p = IP(k, j)
    <3>1. PICK k \in Inodes, j \in Table : p = IP(k, j)
      BY Zenon, <2>3
    <3>2. g[p] = InTable(I2, T, k, j) /\ f[p] = InTable(I, T, k, j)
      BY SMTT(60), <3>1, HeldInTable
    <3>3. I[k].table # 0 /\ g[p] = T[I[k].table][j] /\ f[p] = T[I[k].table][j]
      BY ZenonT(60), <1>f, <3>2 DEF InTable
    <3>4. T[I[k].table][j] \in B /\ \A i \in Direct : I[n].block[i] # T[I[k].table][j]
      BY SMTT(60), <3>3, <1>o DEF Owns
    <3> QED
      BY Zenon, <3>3, <3>4
  <2> QED
    BY ZenonT(60), <2>1, <2>2, <2>3, PlaceIs
<1>2. Filed(I2, N2, D) \subseteq Filed(I, N, D)
  <2>1. ASSUME NEW k \in Inodes, NEW c \in Blocks, NEW e \in AllEntries, At(I2, N2, D, k, c, e)
        PROVE  At(I, N, D, k, c, e)
    <3>1. k # n /\ k \in N
      BY <1>f, <2>1, Consts DEF At
    <3> QED
      BY Zenon, <1>s, <1>f, <2>1, <3>1 DEF At
  <2> QED
    BY SMTT(60), <2>1, FiledIs
<1>3. \A x \in Filed(I2, N2, D) : x[3][2] \in N2
  BY Zenon, <1>s, <1>2 DEF Named
<1>4. Named(Filed(I2, N2, D), N2)
  BY Zenon, <1>s, <1>2, <1>3, NamedLess
<1>5. JournalPlain(I2, Filed(I2, N2, D))
  BY ZenonT(60), <1>s, <1>f, <1>2, <1>3 DEF JournalPlain
<1>6. DeadClear(I2, N2)
  BY SMTT(60), <1>s, <1>f DEF DeadClear
<1>7. EmptyDirs(I2, N2)
  BY <1>s, <1>f DEF EmptyDirs
<1>8. FilesPlain(I2, N2, D)
  <2> SUFFICES ASSUME NEW k \in N2, I2[k].mode # "dir", NEW j \in Direct, I2[k].block[j] # 0
               PROVE  D[I2[k].block[j]] = {}
    BY Zenon DEF FilesPlain
  <2>1. k # n /\ k \in N /\ I2[k] = I[k]
    BY ZenonT(60), <1>s, <1>f
  <2> QED
    BY ZenonT(60), <1>s, <2>1 DEF FilesPlain
<1>9. Typed(I2, B2, N2, D, T) /\ Root \in N2 /\ I2[Root].mode = "dir"
  BY Zenon, <1>s, <1>f DEF Typed
<1> QED
  BY Zenon, <1>1, <1>4, <1>5, <1>6, <1>7, <1>8, <1>9 DEF Sane, Shaped

\* A block that is neither a table nor a directory's is written.
LEMMA DataWrite ==
    ASSUME NEW I, NEW B, NEW N, NEW D, NEW T, Sane(I, B, N, D, T), NEW b \in B,
           \A k \in Inodes : I[k].table # b,
           \A k \in N : I[k].mode = "dir" => \A i \in Direct : I[k].block[i] # b,
           NEW D2, Upd(D2, D, b, {}), NEW T2, Upd(T2, T, b, NoTable)
    PROVE  Sane(I, B, N, D2, T2)
<1>s. /\ I \in [Inodes -> InodeRecord] /\ B \subseteq Blocks /\ N \subseteq Inodes
      /\ D \in [Blocks -> SUBSET AllEntries] /\ T \in [Blocks -> [Table -> Blocks \cup {0}]]
      /\ Unique(Holding(I, N, T), B) /\ Named(Filed(I, N, D), N)
      /\ Root \in N /\ I[Root].mode = "dir"
      /\ DeadClear(I, N) /\ EmptyDirs(I, N) /\ FilesPlain(I, N, D)
      /\ JournalPlain(I, Filed(I, N, D))
  BY Zenon, SaneIs
<1>1. /\ D2 \in [Blocks -> SUBSET AllEntries] /\ T2 \in [Blocks -> [Table -> Blocks \cup {0}]]
      /\ D2[b] = {} /\ \A c \in Blocks \ {b} : D2[c] = D[c] /\ T2[c] = T[c]
  BY Zenon, <1>s DEF NoTable, Upd
<1>2. Holding(I, N, T2) = Holding(I, N, T)
  <2>1. \A k \in Inodes : I[k].table # 0 => T2[I[k].table] = T[I[k].table]
    BY ZenonT(60), <1>s, <1>1, InodeIs
  <2> QED
    BY <2>1, HoldingSame
<1>3. Filed(I, N, D2) = Filed(I, N, D)
  <2>1. \A k \in Inodes, c \in Blocks, e \in AllEntries :
           At(I, N, D2, k, c, e) <=> At(I, N, D, k, c, e)
    BY SMTT(60), <1>1 DEF At
  <2> QED
    BY SMTT(60), <2>1, FiledSame
<1>4. FilesPlain(I, N, D2)
  <2> SUFFICES ASSUME NEW k \in N, I[k].mode # "dir", NEW j \in Direct, I[k].block[j] # 0
               PROVE  D2[I[k].block[j]] = {}
    BY Zenon DEF FilesPlain
  <2>1. I[k].block[j] \in Blocks /\ D[I[k].block[j]] = {}
    BY ZenonT(60), <1>s, InodeIs DEF FilesPlain
  <2> QED
    BY Zenon, <1>1, <2>1
<1> QED
  BY ZenonT(60), <1>s, <1>1, <1>2, <1>3, <1>4 DEF Sane, Typed, Shaped

\* File n gets another size.
Resized(I, N, n, I2) ==
    /\ n \in N
    /\ I2 \in [Inodes -> InodeRecord]
    /\ \A k \in Inodes \ {n} : I2[k] = I[k]
    /\ I[n].mode # "dir"
    /\ I2[n].mode = I[n].mode
    /\ I2[n].block = I[n].block
    /\ I2[n].table = I[n].table

\* The size of a file changes.
LEMMA Resize ==
    ASSUME NEW I, NEW B, NEW N, NEW D, NEW T, Sane(I, B, N, D, T),
           NEW n, NEW I2,
           Resized(I, N, n, I2)
    PROVE  Sane(I2, B, N, D, T)
<1> SUFFICES ASSUME n \in N,
                       I2 \in [Inodes -> InodeRecord],
                       \A k \in Inodes \ {n} : I2[k] = I[k],
                       I[n].mode # "dir",
                       I2[n].mode = I[n].mode,
                       I2[n].block = I[n].block,
                       I2[n].table = I[n].table
             PROVE  Sane(I2, B, N, D, T)
  BY Zenon DEF Resized
<1>s. /\ I \in [Inodes -> InodeRecord] /\ B \subseteq Blocks /\ N \subseteq Inodes
      /\ D \in [Blocks -> SUBSET AllEntries] /\ T \in [Blocks -> [Table -> Blocks \cup {0}]]
      /\ Unique(Holding(I, N, T), B) /\ Named(Filed(I, N, D), N)
      /\ Root \in N /\ I[Root].mode = "dir"
      /\ DeadClear(I, N) /\ EmptyDirs(I, N) /\ FilesPlain(I, N, D)
      /\ JournalPlain(I, Filed(I, N, D))
  BY Zenon, SaneIs
<1>1. \A k \in Inodes : /\ I2[k].mode = I[k].mode /\ I2[k].block = I[k].block
                        /\ I2[k].table = I[k].table
  BY Zenon
<1>2. Holding(I2, N, T) = Holding(I, N, T)
  <2>1. \A k \in Inodes, i \in Direct :
            (IF k \in N THEN I2[k].block[i] ELSE 0) = (IF k \in N THEN I[k].block[i] ELSE 0)
    BY Zenon, <1>1
  <2>2. \A k \in Inodes : /\ I2[k].table = I[k].table
                          /\ I[k].table # 0 => T[I[k].table] = T[I[k].table]
    BY Zenon, <1>1
  <2> QED
    BY SMTT(60), <2>1, <2>2, HoldingSame
<1>3. Filed(I2, N, D) = Filed(I, N, D)
  <2>1. \A k \in Inodes, c \in Blocks, e \in AllEntries :
           At(I2, N, D, k, c, e) <=> At(I, N, D, k, c, e)
    BY ZenonT(60), <1>1 DEF At
  <2> QED
    BY SMTT(60), <2>1, FiledSame
<1>4. DeadClear(I2, N)
  BY SMTT(60), <1>s, <1>1 DEF DeadClear
<1>5. EmptyDirs(I2, N)
  BY <1>s DEF EmptyDirs
<1>6. FilesPlain(I2, N, D)
  <2> SUFFICES ASSUME NEW k \in N, I2[k].mode # "dir", NEW j \in Direct, I2[k].block[j] # 0
               PROVE  D[I2[k].block[j]] = {}
    BY Zenon DEF FilesPlain
  <2>1. I2[k].block = I[k].block /\ I[k].mode # "dir"
    BY Zenon, <1>s, <1>1
  <2> QED
    BY ZenonT(60), <1>s, <2>1 DEF FilesPlain
<1>7. JournalPlain(I2, Filed(I, N, D))
  BY Zenon, <1>s, <1>1 DEF JournalPlain, Named
<1> QED
  BY Zenon, <1>s, <1>2, <1>3, <1>4, <1>5, <1>6, <1>7 DEF Sane, Typed, Shaped

\* Block b becomes the table of inode n.
TableTaken(I, B, N, D, T, n, b, I2, B2, D2, T2) ==
    /\ n \in N
    /\ I[n].table = 0
    /\ b \in Blocks \ B
    /\ I2 \in [Inodes -> InodeRecord]
    /\ \A k \in Inodes \ {n} : I2[k] = I[k]
    /\ I2[n].mode = I[n].mode
    /\ I2[n].size = I[n].size
    /\ I2[n].block = I[n].block
    /\ I2[n].table = b
    /\ Grown(B2, B, b)
    /\ Upd(D2, D, b, {})
    /\ Upd(T2, T, b, NoTable)

\* A file gets a table, with nothing in it.
LEMMA NewTable ==
    ASSUME NEW I, NEW B, NEW N, NEW D, NEW T, Sane(I, B, N, D, T),
           NEW n, NEW b, NEW I2, NEW B2, NEW D2, NEW T2,
           TableTaken(I, B, N, D, T, n, b, I2, B2, D2, T2)
    PROVE  Sane(I2, B2, N, D2, T2)
<1> SUFFICES ASSUME n \in N,
                       I[n].table = 0,
                       b \in Blocks \ B,
                       I2 \in [Inodes -> InodeRecord],
                       \A k \in Inodes \ {n} : I2[k] = I[k],
                       I2[n].mode = I[n].mode,
                       I2[n].size = I[n].size,
                       I2[n].block = I[n].block,
                       I2[n].table = b,
                       Grown(B2, B, b),
                       Upd(D2, D, b, {}),
                       Upd(T2, T, b, NoTable)
             PROVE  Sane(I2, B2, N, D2, T2)
  BY ZenonT(60) DEF TableTaken
<1>o. Owns(I, B, N, T)
  BY Zenon, Owned
<1>s. /\ I \in [Inodes -> InodeRecord] /\ B \subseteq Blocks /\ N \subseteq Inodes
      /\ D \in [Blocks -> SUBSET AllEntries] /\ T \in [Blocks -> [Table -> Blocks \cup {0}]]
      /\ Unique(Holding(I, N, T), B) /\ Named(Filed(I, N, D), N)
      /\ Root \in N /\ I[Root].mode = "dir"
      /\ DeadClear(I, N) /\ EmptyDirs(I, N) /\ FilesPlain(I, N, D)
      /\ JournalPlain(I, Filed(I, N, D))
  BY Zenon, SaneIs
<1>i. \A k \in Inodes : /\ I[k].table \in Blocks \cup {0}
                         /\ I[k].block \in [Direct -> Blocks \cup {0}]
                         /\ \A m \in Direct : I[k].block[m] \in Blocks \cup {0}
  BY Zenon, <1>s, InodeIs
<1>0. n \in Inodes /\ b # 0 /\ b \notin B
  BY ZenonT(60), <1>s, Consts
<1>1. /\ D2 \in [Blocks -> SUBSET AllEntries] /\ T2 \in [Blocks -> [Table -> Blocks \cup {0}]]
      /\ D2[b] = {} /\ \A c \in Blocks \ {b} : D2[c] = D[c] /\ T2[c] = T[c]
      /\ \A j \in Table : T2[b][j] = 0
  BY Zenon, <1>s DEF NoTable, Upd
<1>m. \A k \in Inodes : I2[k].mode = I[k].mode /\ I2[k].block = I[k].block /\ I2[k].size = I[k].size
  BY Zenon
<1>b. \A k \in N : \A j \in Direct : I[k].block[j] # b
  BY ZenonT(60), <1>0, <1>o DEF Owns
<1>2. Unique(Holding(I2, N, T2), B2)
  <2>1. TP(n) \in AllPlaces /\ Holding(I2, N, T2)[TP(n)] = b
    BY <1>0, HeldTable
  <2>2. \A k \in Inodes, j \in Direct : InUse(I2, N, k, j) = InUse(I, N, k, j)
    BY Zenon, <1>m DEF InUse
  <2>3. \A k \in Inodes : TP(k) # TP(n) => I2[k].table = I[k].table
    BY Zenon
  <2>4. ASSUME NEW k \in Inodes, NEW j \in Table PROVE InTable(I2, T2, k, j) = InTable(I, T, k, j)
    <3>1. CASE k = n
      BY Zenon, <1>0, <1>1, <3>1 DEF InTable
    <3>2. CASE k # n
      <4>1. I2[k].table = I[k].table
        BY Zenon, <3>2
      <4>2. I[k].table # 0 => T2[I[k].table] = T[I[k].table]
        BY ZenonT(60), <1>s, <1>1, <1>i, <1>o DEF Owns
      <4> QED
        BY Zenon, <4>1, <4>2 DEF InTable
    <3> QED
      BY Zenon, <3>1, <3>2
  <2> QED
    <3>1. PlaceTaken(I, B, N, T, I2, B2, N, T2, b, TP(n))
      BY ZenonT(60), <1>s, <1>0, <2>1, <2>2, <2>3, <2>4 DEF PlaceTaken
    <3> QED BY Zenon, <3>1, UniqueTake
<1>3. Filed(I2, N, D2) = Filed(I, N, D)
  <2>1. ASSUME NEW k \in Inodes, NEW c \in Blocks, NEW e \in AllEntries
        PROVE  At(I2, N, D2, k, c, e) <=> At(I, N, D, k, c, e)
    <3>1. CASE c = b
      BY Zenon, <1>b, <1>m, <3>1 DEF At
    <3>2. CASE c # b
      BY ZenonT(60), <1>1, <1>m, <3>2 DEF At
    <3> QED
      BY Zenon, <3>1, <3>2
  <2> QED
    BY SMTT(60), <2>1, FiledSame
<1>4. DeadClear(I2, N) /\ EmptyDirs(I2, N)
  <2>1. N \subseteq Inodes /\ DeadClear(I, N) /\ EmptyDirs(I, N)
    BY Zenon, <1>s
  <2>2. DeadClear(I2, N)
    BY ZenonT(60), <1>m, <2>1 DEF DeadClear
  <2>3. EmptyDirs(I2, N)
    BY ZenonT(60), <1>m, <2>1 DEF EmptyDirs
  <2> QED BY Zenon, <2>2, <2>3
<1>5. FilesPlain(I2, N, D2)
  <2> SUFFICES ASSUME NEW k \in N, I2[k].mode # "dir", NEW j \in Direct, I2[k].block[j] # 0
               PROVE  D2[I2[k].block[j]] = {}
    BY Zenon DEF FilesPlain
  <2>1. I2[k].block = I[k].block /\ I[k].mode # "dir"
    BY Zenon, <1>s, <1>m
  <2>2. I[k].block[j] \in Blocks /\ I[k].block[j] # b /\ D[I[k].block[j]] = {}
    <3>1. k \in Inodes /\ I[k].block[j] # 0
      BY Zenon, <1>s, <2>1
    <3>2. I[k].block[j] \in Blocks \cup {0}
      BY Zenon, <1>i, <3>1
    <3>3. I[k].block[j] # b
      BY Zenon, <1>b
    <3>4. D[I[k].block[j]] = {}
      BY Zenon, <1>s, <2>1, <3>1 DEF FilesPlain
    <3> QED BY Zenon, <3>1, <3>2, <3>3, <3>4
  <2> QED
    BY Zenon, <1>1, <2>1, <2>2
<1>6. JournalPlain(I2, Filed(I, N, D))
  BY Zenon, <1>s, <1>m DEF JournalPlain, Named
<1>7. B2 \subseteq Blocks /\ I2[Root].mode = "dir"
  BY ZenonT(60), <1>s, <1>m DEF Grown
<1> QED
  BY Zenon, <1>s, <1>1, <1>2, <1>3, <1>4, <1>5, <1>6, <1>7 DEF Sane, Typed, Shaped

\* Block b is held, in a table.
EntryDone(I, B2, N, D2, T2, b) ==
    /\ Sane(I, B2, N, D2, T2) /\ b \in B2
    /\ \A k \in Inodes : I[k].table # b
    /\ \A k \in N : \A i \in Direct : I[k].block[i] # b

\* Block b becomes entry j of inode n's table t.
EntryTaken(I, B, N, D, T, n, t, j, b, row, B2, D2, T2) ==
    /\ n \in N
    /\ t = I[n].table
    /\ t # 0
    /\ j \in Table
    /\ T[t][j] = 0
    /\ b \in Blocks \ B
    /\ Grown(B2, B, b)
    /\ Upd(row, T[t], j, b)
    /\ Upd(D2, D, t, {})
    /\ Upd(T2, T, t, row)

\* A pointer of a table is set.
LEMMA TableEntry ==
    ASSUME NEW I, NEW B, NEW N, NEW D, NEW T, Sane(I, B, N, D, T),
           NEW n, NEW t, NEW j, NEW b, NEW row, NEW B2, NEW D2, NEW T2,
           EntryTaken(I, B, N, D, T, n, t, j, b, row, B2, D2, T2)
    PROVE  EntryDone(I, B2, N, D2, T2, b)
<1> SUFFICES ASSUME n \in N,
                       t = I[n].table,
                       t # 0,
                       j \in Table,
                       T[t][j] = 0,
                       b \in Blocks \ B,
                       Grown(B2, B, b),
                       Upd(row, T[t], j, b),
                       Upd(D2, D, t, {}),
                       Upd(T2, T, t, row)
             PROVE  EntryDone(I, B2, N, D2, T2, b)
  BY Zenon DEF EntryTaken
<1>o. Owns(I, B, N, T)
  BY Zenon, Owned
<1>s. /\ I \in [Inodes -> InodeRecord] /\ B \subseteq Blocks /\ N \subseteq Inodes
      /\ D \in [Blocks -> SUBSET AllEntries] /\ T \in [Blocks -> [Table -> Blocks \cup {0}]]
      /\ Unique(Holding(I, N, T), B) /\ Named(Filed(I, N, D), N)
      /\ Root \in N /\ I[Root].mode = "dir"
      /\ DeadClear(I, N) /\ EmptyDirs(I, N) /\ FilesPlain(I, N, D)
      /\ JournalPlain(I, Filed(I, N, D))
  BY Zenon, SaneIs
<1>i. \A k \in Inodes : /\ I[k].table \in Blocks \cup {0}
                         /\ I[k].block \in [Direct -> Blocks \cup {0}]
                         /\ \A m \in Direct : I[k].block[m] \in Blocks \cup {0}
  BY Zenon, <1>s, InodeIs
<1>0. n \in Inodes /\ b # 0 /\ b \notin B /\ t \in Blocks /\ t \in B
  BY ZenonT(60), <1>s, Consts, <1>o DEF Owns
<1>r. row \in [Table -> Blocks \cup {0}] /\ row[j] = b /\ \A m \in Table \ {j} : row[m] = T[t][m]
  BY Zenon, <1>s, <1>0 DEF Upd
<1>1. /\ D2 \in [Blocks -> SUBSET AllEntries] /\ T2 \in [Blocks -> [Table -> Blocks \cup {0}]]
      /\ D2[t] = {} /\ \A c \in Blocks \ {t} : D2[c] = D[c] /\ T2[c] = T[c]
      /\ T2[t] = row
  BY SMTT(60), <1>s, <1>0, <1>r DEF Upd
<1>b. /\ \A k \in N : \A i \in Direct : I[k].block[i] # b /\ I[k].block[i] # t
      /\ \A k \in Inodes : I[k].table # b /\ (k # n => I[k].table # t)
  BY <1>0, <1>o DEF Owns
<1>2. Unique(Holding(I, N, T2), B2)
  <2>1. IP(n, j) \in AllPlaces /\ Holding(I, N, T2)[IP(n, j)] = b
    <3>1. InTable(I, T2, n, j) = b
      BY Zenon, <1>1, <1>r DEF InTable
    <3> QED
      BY Zenon, <1>0, <3>1, HeldInTable
  <2>2. ASSUME NEW k \in Inodes, NEW m \in Table, IP(k, m) # IP(n, j)
        PROVE  InTable(I, T2, k, m) = InTable(I, T, k, m)
    <3>1. CASE k = n
      <4>1. m # j
        BY Zenon, <2>2, <3>1
      <4> QED
        BY Zenon, <1>1, <1>r, <3>1, <4>1 DEF InTable
    <3>2. CASE k # n
      BY ZenonT(60), <1>s, <1>1, <1>b, <3>2, InodeIs DEF InTable
    <3> QED
      BY Zenon, <3>1, <3>2
  <2> QED
    <3>1. PlaceTaken(I, B, N, T, I, B2, N, T2, b, IP(n, j))
      BY Zenon, <1>s, <1>0, <2>1, <2>2 DEF PlaceTaken
    <3> QED BY Zenon, <3>1, UniqueTake
<1>3. Filed(I, N, D2) = Filed(I, N, D)
  <2>1. ASSUME NEW k \in Inodes, NEW c \in Blocks, NEW e \in AllEntries
        PROVE  At(I, N, D2, k, c, e) <=> At(I, N, D, k, c, e)
    <3>1. CASE c = t
      BY Zenon, <1>b, <3>1 DEF At
    <3>2. CASE c # t
      BY Zenon, <1>1, <3>2 DEF At
    <3> QED
      BY Zenon, <3>1, <3>2
  <2> QED
    BY SMTT(60), <2>1, FiledSame
<1>4. FilesPlain(I, N, D2)
  <2> SUFFICES ASSUME NEW k \in N, I[k].mode # "dir", NEW i \in Direct, I[k].block[i] # 0
               PROVE  D2[I[k].block[i]] = {}
    BY ZenonT(60) DEF FilesPlain
  <2>1. I[k].block[i] \in Blocks /\ I[k].block[i] # t /\ D[I[k].block[i]] = {}
    BY <1>s, <1>b, <1>i DEF FilesPlain
  <2> QED
    BY Zenon, <1>1, <2>1
<1>5. B2 \subseteq Blocks /\ b \in B2
  BY Zenon, <1>s DEF Grown
<1>6. Sane(I, B2, N, D2, T2)
  BY Zenon, <1>s, <1>1, <1>2, <1>3, <1>4, <1>5 DEF Sane, Typed, Shaped
<1> QED
  BY Zenon, <1>b, <1>5, <1>6 DEF EntryDone

\* The hypotheses of Release, as one fact.
Released(I, B, N, D, n, I2, B2, N2) ==
    /\ n \in N \ {Root} /\ \A x \in Filed(I, N, D) : x[3][2] # n
    /\ Frees(I, n, I2)
    /\ B2 \subseteq B /\ \A c \in B \ B2 : \E i \in Direct : I[n].block[i] = c
    /\ N \ {n} \subseteq N2 /\ N2 \subseteq N

\* ext2_unlink frees an inode that has no name with the blocks it holds.
LEMMA ReleaseIs ==
    ASSUME NEW I, NEW B, NEW N, NEW D, NEW T, Sane(I, B, N, D, T),
           NEW n, NEW I2, NEW B2, NEW N2, Released(I, B, N, D, n, I2, B2, N2)
    PROVE  Sane(I2, B2, N2, D, T)
BY Zenon, Release DEF Released

-----------------------------------------------------------------------------
(* The free counts. *)

\* ext2_alloc_block counts a block.
LEMMA CountTakeBlock ==
    ASSUME NEW B \in SUBSET Blocks, NEW N, NEW free, NEW exact, Counts(B, N, free, exact),
           NEW b \in Blocks \ B
    PROVE  Counts(B \cup {b}, N, [free EXCEPT !.blocks = @ - 1], exact)
<1> DEFINE X == Blocks \ B
<1>1. IsFiniteSet(X) /\ b \in X
  BY Zenon, Consts, FS_Subset
<1>2. Blocks \ (B \cup {b}) = X \ {b}
  BY Zenon
<1>3. Cardinality(X) \in Nat /\ Cardinality(X) >= 1 /\ Cardinality(X \ {b}) = Cardinality(X) - 1
  <2> HIDE DEF X
  <2>1. Cardinality(X) \in Nat /\ Cardinality(X \ {b}) \in Nat
    BY Zenon, <1>1, FS_CardinalityType, FS_RemoveElement
  <2>2. Cardinality(X \ {b}) = Cardinality(X) - 1
    BY Zenon, <1>1, FS_RemoveElement
  <2> QED
    BY SMTT(60), <2>1, <2>2
<1>4. /\ free.blocks \in Nat /\ free.inodes \in Nat /\ free \in Free
      /\ free.blocks >= Cardinality(X)
      /\ free.inodes >= InodesCount - Cardinality(N)
      /\ exact => free.blocks = Cardinality(X) /\ free.inodes = InodesCount - Cardinality(N)
  BY Zenon DEF Counts, Free
<1> DEFINE free2 == [free EXCEPT !.blocks = @ - 1]
<1>5. free2.blocks = free.blocks - 1 /\ free2.inodes = free.inodes /\ free2 \in Free
  BY <1>3, <1>4 DEF Free
<1> HIDE DEF free2, X
<1>6. Cardinality(Blocks \ (B \cup {b})) = Cardinality(X) - 1
  BY <1>2, <1>3, Zenon
<1>7. Counts(B \cup {b}, N, free2, exact)
  BY <1>3, <1>4, <1>5, <1>6 DEF Counts
<1> QED
  BY Zenon, <1>7 DEF free2

\* ext2_free_block counts the blocks back.
LEMMA CountFreeBlocks ==
    ASSUME NEW B \in SUBSET Blocks, NEW N, NEW free, NEW exact, Counts(B, N, free, exact),
           NEW Y \in SUBSET B
    PROVE  Counts(B \ Y, N, [free EXCEPT !.blocks = @ + Cardinality(Y)], exact)
<1> DEFINE X == Blocks \ B
<1>1. IsFiniteSet(X) /\ IsFiniteSet(Y) /\ X \cap Y = {}
  BY Zenon, Consts, FS_Subset
<1>2. Blocks \ (B \ Y) = X \cup Y
  BY Zenon
<1>3. /\ Cardinality(X) \in Nat /\ Cardinality(Y) \in Nat
      /\ Cardinality(X \cup Y) = Cardinality(X) + Cardinality(Y)
  <2> HIDE DEF X
  <2>1. Cardinality(X) \in Nat /\ Cardinality(Y) \in Nat /\ Cardinality({}) = 0
    BY Zenon, <1>1, FS_CardinalityType, FS_EmptySet
  <2>2. Cardinality(X \cup Y) = Cardinality(X) + Cardinality(Y) - Cardinality(X \cap Y)
    BY Zenon, <1>1, FS_Union
  <2>3. Cardinality(X \cap Y) = 0
    BY <1>1, <2>1, ZenonT(60)
  <2> QED
    BY SMTT(60), <2>1, <2>2, <2>3
<1>4. /\ free.blocks \in Nat /\ free.inodes \in Nat /\ free \in Free
      /\ free.blocks >= Cardinality(X)
      /\ free.inodes >= InodesCount - Cardinality(N)
      /\ exact => free.blocks = Cardinality(X) /\ free.inodes = InodesCount - Cardinality(N)
  BY Zenon DEF Counts, Free
<1> DEFINE free2 == [free EXCEPT !.blocks = @ + Cardinality(Y)]
<1>5. free2.blocks = free.blocks + Cardinality(Y) /\ free2.inodes = free.inodes /\ free2 \in Free
  BY <1>3, <1>4 DEF Free
<1> HIDE DEF free2, X
<1>6. Cardinality(Blocks \ (B \ Y)) = Cardinality(X) + Cardinality(Y)
  BY <1>2, <1>3, ZenonT(60)
<1>7. Counts(B \ Y, N, free2, exact)
  BY SMTT(60), <1>3, <1>4, <1>5, <1>6 DEF Counts
<1> QED
  BY Zenon, <1>7 DEF free2

\* ext2_alloc_inode_num counts an inode.
LEMMA CountTakeInode ==
    ASSUME NEW B, NEW N \in SUBSET Inodes, NEW free, NEW exact, Counts(B, N, free, exact),
           NEW n \in Inodes \ N
    PROVE  Counts(B, N \cup {n}, [free EXCEPT !.inodes = @ - 1], exact)
<1>1. IsFiniteSet(Inodes) /\ IsFiniteSet(N) /\ N \cup {n} \subseteq Inodes /\ InodesCount \in Nat
  BY ZenonT(60), Consts, FS_Subset, Ext2Assumption
<1>2. /\ Cardinality(N) \in Nat /\ Cardinality(N \cup {n}) = Cardinality(N) + 1
      /\ Cardinality(N) + 1 <= InodesCount
  <2>1. Cardinality(N) \in Nat /\ Cardinality(Inodes) \in Nat
    BY Zenon, <1>1, FS_CardinalityType
  <2>2. Cardinality(N \cup {n}) = Cardinality(N) + 1
    BY Zenon, <1>1, FS_AddElement
  <2>3. Cardinality(N \cup {n}) <= Cardinality(Inodes)
    BY Zenon, <1>1, FS_Subset
  <2> QED
    BY SMTT(60), <1>1, <2>1, <2>2, <2>3, Consts
<1>3. /\ free.blocks \in Nat /\ free.inodes \in Nat /\ free \in Free
      /\ free.inodes >= InodesCount - Cardinality(N)
      /\ exact => free.inodes = InodesCount - Cardinality(N)
  BY Zenon DEF Counts, Free
<1> DEFINE free2 == [free EXCEPT !.inodes = @ - 1]
<1>4. free2.blocks = free.blocks /\ free2.inodes = free.inodes - 1 /\ free2 \in Free
  BY SMTT(60), <1>1, <1>2, <1>3 DEF Free
<1> HIDE DEF free2
<1>5. Counts(B, N \cup {n}, free2, exact)
  BY SMTT(60), <1>1, <1>2, <1>3, <1>4 DEF Counts
<1> QED
  BY Zenon, <1>5 DEF free2

\* ext2_free_inode_num counts it back.
LEMMA CountFreeInode ==
    ASSUME NEW B, NEW N \in SUBSET Inodes, NEW free, NEW exact, Counts(B, N, free, exact),
           NEW n \in N
    PROVE  Counts(B, N \ {n}, [free EXCEPT !.inodes = @ + 1], exact)
<1>1. IsFiniteSet(N) /\ InodesCount \in Nat
  BY Zenon, Consts, FS_Subset, Ext2Assumption
<1>2. Cardinality(N) \in Nat /\ Cardinality(N \ {n}) = Cardinality(N) - 1
  BY Zenon, <1>1, FS_CardinalityType, FS_RemoveElement
<1>3. /\ free.blocks \in Nat /\ free.inodes \in Nat /\ free \in Free
      /\ free.inodes >= InodesCount - Cardinality(N)
      /\ exact => free.inodes = InodesCount - Cardinality(N)
  BY Zenon DEF Counts, Free
<1> DEFINE free2 == [free EXCEPT !.inodes = @ + 1]
<1>4. free2.blocks = free.blocks /\ free2.inodes = free.inodes + 1 /\ free2 \in Free
  BY <1>3 DEF Free
<1> HIDE DEF free2
<1>5. Counts(B, N \ {n}, free2, exact)
  BY <1>1, <1>2, <1>3, <1>4 DEF Counts
<1> QED
  BY Zenon, <1>5 DEF free2
=============================================================================
