------------------------------ MODULE Ext2Host ------------------------------
(***************************************************************************)
(* The host's side of the disk image: scripts/ext2_put.py, which installs  *)
(* a file, and scripts/ext2_fsck.py, which checks and repairs the image.   *)
(*                                                                         *)
(* A put is one process: it computes its block writes from the image it    *)
(* opened and its own copies of the bitmaps.  Put computes them all in     *)
(* program order, WriteBlock carries one out, and the process may be       *)
(* killed between two of them.  A block is NTable words, read as file data *)
(* or as block numbers, and the directory entries its bytes parse as; file *)
(* data parses as no entry, and its words are no numbers of blocks.        *)
(***************************************************************************)
EXTENDS Integers, FiniteSetsExt, SequencesExt

CONSTANTS Targets,      \* the paths that are installed, as sequences of names
          Sizes,        \* lengths of the installed files, in blocks
          InodesCount, FirstInode, BlocksCount, FirstData,
          NDirect, NTable,
          PerBlock,     \* directory entries in a block
          MaxPuts       \* bound on the installs of a behaviour

VARIABLES img,    \* the image
          log,    \* the writes the running put still has to do
          puts,   \* installs so far; tells the versions of a file's data apart
          files,  \* path -> the version and length of its last complete install
          hurt,   \* interrupted puts: never, one not repaired, one repaired, or more: one
                  \* that was replacing a file, or a put on top of one not repaired
          doing   \* the running put: its path, and whether it replaces a file

vars == <<img, log, puts, files, hurt, doing>>

Root == 2
Direct == 1 .. NDirect
NoTable == [k \in 1 .. NTable |-> 0]
DataBlock(v, i) == [ents |-> <<>>, words |-> [k \in 1 .. NTable |-> BlocksCount + 10 * v + i]]
TableBlock(t)   == [ents |-> <<>>, words |-> [k \in 1 .. NTable |-> IF k <= Len(t) THEN t[k] ELSE 0]]
DirBlock(es)    == [ents |-> es, words |-> [k \in 1 .. NTable |-> BlocksCount]]
Free(inodes, blocks) == [inodes |-> InodesCount - Cardinality(inodes),
                         blocks |-> BlocksCount - Cardinality(blocks)]
DirNode(b) == [mode |-> "dir", links |-> 2, blocks |-> 1,
               ptr |-> [i \in 1 .. NDirect + 2 |-> IF i = 1 THEN b ELSE 0]]

\* What ext2_format of the kernel leaves, with its /bin.
Formatted ==
    LET nodes == [i \in 1 .. InodesCount |->
                     CASE i = Root       -> [DirNode(FirstData) EXCEPT !.links = 3]
                       [] i = FirstInode -> DirNode(FirstData + 1)
                       [] OTHER          -> [DirNode(0) EXCEPT !.mode = "none"]]
        used  == 0 .. FirstData + 1
    IN  [bbm |-> used, ibm |-> {Root, FirstInode}, node |-> nodes,
         free |-> Free({Root, FirstInode}, used),
         blk |-> [b \in FirstData .. BlocksCount - 1 |->
                     CASE b = FirstData     -> DirBlock(<<<<".", Root>>, <<"..", Root>>, <<"bin", FirstInode>>>>)
                       [] b = FirstData + 1 -> DirBlock(<<<<".", FirstInode>>, <<"..", Root>>>>)
                       [] OTHER             -> TableBlock(<<>>)]]

Init ==
    /\ img = Formatted
    /\ log = <<>> /\ puts = 0 /\ hurt = "never"
    /\ files = [t \in Targets |-> [v |-> 0, n |-> 0]]
    /\ doing = [path |-> <<>>, over |-> FALSE]

-----------------------------------------------------------------------------
(* The image as both scripts read it.                                      *)

ReadTable(m, b) == IF b \in DOMAIN m.blk THEN m.blk[b].words ELSE NoTable
NonZero(t) == SelectSeq(t, LAMBDA b : b # 0)

\* The blocks a node names: direct ones, its table and what that names, its
\* table of tables.
inode_blocks(m, node) ==
    LET single == node.ptr[NDirect + 1]
        double == node.ptr[NDirect + 2]
        second == IF double = 0 THEN <<>> ELSE NonZero(ReadTable(m, double))
    IN  NonZero([i \in Direct |-> node.ptr[i]])
        \o (IF single = 0 THEN <<>> ELSE <<single>> \o NonZero(ReadTable(m, single)))
        \o (IF double = 0 THEN <<>>
            ELSE <<double>> \o FlattenSeq([g \in DOMAIN second |->
                                <<second[g]>> \o NonZero(ReadTable(m, second[g]))]))

dir_entries(m, node) ==
    FlattenSeq([i \in Direct |-> IF node.ptr[i] \in DOMAIN m.blk
                                 THEN m.blk[node.ptr[i]].ents ELSE <<>>])

-----------------------------------------------------------------------------
(* A put as a chain of states: the image as written so far, the writes,    *)
(* the bitmaps in memory, the blocks it was given, the inode it is at,     *)
(* whether it has died, the directory that gets the new name (0 if none    *)
(* does), and the data blocks, tables and extra blocks of the new file.    *)

Opened(m) == [img |-> m, w |-> <<>>, bbm |-> m.bbm, ibm |-> m.ibm, got |-> <<>>,
              ino |-> Root, dead |-> FALSE, dir |-> 0, blocks |-> <<>>,
              single |-> 0, double |-> 0, extra |-> 0]

applied(m, w) ==
    CASE w.what = "blk"  -> [m EXCEPT !.blk[w.at] = w.to]
      [] w.what = "node" -> [m EXCEPT !.node[w.at] = w.to]
      [] w.what = "bbm"  -> [m EXCEPT !.bbm = w.to]
      [] w.what = "ibm"  -> [m EXCEPT !.ibm = w.to]
      [] w.what = "sb"   -> [m EXCEPT !.free = w.to]

Write(s, what, at, to) ==
    LET w == [what |-> what, at |-> at, to |-> to]
    IN  IF s.dead THEN s ELSE [s EXCEPT !.img = applied(@, w), !.w = Append(@, w)]

alloc_block(s) ==
    LET free == (FirstData .. BlocksCount - 1) \ s.bbm
    IN  IF s.dead \/ free = {} THEN [s EXCEPT !.dead = TRUE]
        ELSE [s EXCEPT !.bbm = @ \cup {Min(free)}, !.got = Append(@, Min(free))]

alloc_inode(s) ==
    LET free == (FirstInode .. InodesCount) \ s.ibm
    IN  IF s.dead \/ free = {} THEN [s EXCEPT !.dead = TRUE]
        ELSE [s EXCEPT !.ibm = @ \cup {Min(free)}, !.ino = Min(free)]

free_inode_blocksDirect(s, node) ==
    [s EXCEPT !.bbm = @ \ ToSet([i \in Direct |-> node.ptr[i]] \o <<node.ptr[NDirect + 1]>>)]

free_inode_blocks(s, node) ==
    [s EXCEPT !.bbm = @ \ (ToSet(inode_blocks(s.img, node)) \cap (1 .. BlocksCount - 1))]

dir_find(m, dir, name) ==
    LET at == {e \in ToSet(dir_entries(m, m.node[dir])) : e[1] = name}
    IN  IF at = {} THEN 0 ELSE (CHOOSE e \in at : TRUE)[2]

\* The entry goes into the first block with room; else the directory grows
\* by a block, as far as the direct blocks reach.
dir_add(s, dir, ino, name) ==
    LET node  == s.img.node[dir]
        zero  == {i \in Direct : node.ptr[i] = 0}
        room  == {i \in Direct \ zero : /\ \A z \in zero : i < z
                                        /\ Len(s.img.blk[node.ptr[i]].ents) < PerBlock}
        grown == alloc_block(s)
    IN  CASE s.dead -> s
          [] ~s.dead /\ room # {} ->
                LET b == node.ptr[Min(room)]
                IN  Write(s, "blk", b, DirBlock(Append(s.img.blk[b].ents, <<name, ino>>)))
          [] ~s.dead /\ room = {} /\ (zero = {} \/ grown.dead) -> [s EXCEPT !.dead = TRUE]
          [] OTHER ->
                LET b == Last(grown.got)
                IN  Write(Write(grown, "blk", b, DirBlock(<<<<name, ino>>>>)), "node", dir,
                          [node EXCEPT !.ptr[Min(zero)] = b, !.blocks = @ + 1])

mkdir(s, name) ==
    LET parent == s.ino
        made(a, b) == Write(Write(a, "blk", b, DirBlock(<<<<".", a.ino>>, <<"..", parent>>>>)),
                            "node", a.ino, DirNode(b))
        linked(in) == Write(in, "node", parent, [in.img.node[parent] EXCEPT !.links = @ + 1])
        with(a) == IF a.dead THEN a
                   ELSE linked(dir_add(made(a, Last(a.got)), parent, a.ino, name))
    IN  with(alloc_block(alloc_inode(s)))

\* The directory of the target, its missing components created.
resolved(s, path) ==
    FoldLeft(LAMBDA t, name :
                CASE t.dead -> t
                  [] ~t.dead /\ dir_find(t.img, t.ino, name) = 0 -> mkdir(t, name)
                  [] OTHER -> [t EXCEPT !.ino = dir_find(t.img, t.ino, name)],
             s, Front(path))

Allocated(s, n) == FoldLeft(LAMBDA t, i : alloc_block(t), s, [i \in 1 .. n |-> i])
Between(t, a, b) == SubSeq(t, a, IF b < Len(t) THEN b ELSE Len(t))

singleTable(s) ==
    LET table == TableBlock(Between(s.blocks, NDirect + 1, NDirect + NTable))
        with(a) == IF a.dead THEN a
                   ELSE [Write(a, "blk", Last(a.got), table) EXCEPT !.single = Last(a.got), !.extra = 1]
    IN  IF s.dead \/ Len(s.blocks) <= NDirect THEN s ELSE with(alloc_block(s))

doubleTable(s) ==
    LET rest   == Between(s.blocks, NDirect + NTable + 1, Len(s.blocks))
        groups == (Len(rest) + NTable - 1) \div NTable
        with(t, a, g) == IF a.dead THEN [t EXCEPT !.s = a]
                         ELSE [s  |-> Write(a, "blk", Last(a.got),
                                            TableBlock(Between(rest, (g - 1) * NTable + 1, g * NTable))),
                               l2 |-> Append(t.l2, Last(a.got))]
        level2(t, g) == with(t, alloc_block(t.s), g)
        top(first, all) ==
            IF all.s.dead THEN all.s
            ELSE [Write(all.s, "blk", Last(first.got), TableBlock(all.l2))
                     EXCEPT !.double = Last(first.got), !.extra = @ + 1 + groups]
        under(first) == top(first, FoldLeft(level2, [s |-> first, l2 |-> <<>>], [g \in 1 .. groups |-> g]))
    IN  IF s.dead \/ Len(s.blocks) <= NDirect + NTable THEN s ELSE under(alloc_block(s))

flush_meta(s) ==
    Write(Write(Write(s, "bbm", 0, s.bbm), "ibm", 0, s.ibm), "sb", 0, Free(s.ibm, s.bbm))

\* The inode to fill: a new one, or that of the file to replace, whose blocks
\* go back first.
target(s, name) ==
    LET in(old) == IF old = 0 THEN alloc_inode([s EXCEPT !.dir = s.ino])
                   ELSE free_inode_blocks([s EXCEPT !.dir = 0, !.ino = old], s.img.node[old])
    IN  IF s.dead THEN s ELSE in(dir_find(s.img, s.ino, name))

holding(s, n) ==
    LET with(a) == [a EXCEPT !.blocks = a.got] IN with(Allocated([s EXCEPT !.got = <<>>], n))

copied(s, v) ==
    IF s.dead THEN s
    ELSE FoldLeft(LAMBDA t, k : Write(t, "blk", s.blocks[k], DataBlock(v, k)), s,
                  [k \in DOMAIN s.blocks |-> k])

\* The inode, then the name of a new file.
named(s, name) ==
    LET inode == [mode |-> "reg", links |-> 1, blocks |-> Len(s.blocks) + s.extra,
                  ptr |-> [k \in 1 .. NDirect + 2 |->
                              CASE k = NDirect + 1 -> s.single
                                [] k = NDirect + 2 -> s.double
                                [] OTHER -> IF k <= Len(s.blocks) THEN s.blocks[k] ELSE 0]]
        with(t) == IF s.dir = 0 THEN t ELSE dir_add(t, s.dir, s.ino, name)
    IN  with(Write(s, "node", s.ino, inode))

main(m, path, n, v) ==
    LET in == target(resolved(Opened(m), path), Last(path))
    IN  flush_meta(named(doubleTable(singleTable(copied(holding(in, n), v))), Last(path)))

-----------------------------------------------------------------------------
(* ext2_fsck.py.                                                           *)

InUse(m) == {i \in m.ibm : i >= Root /\ m.node[i].mode # "none"}
References(m) == FlattenSeq([i \in 1 .. InodesCount |->
                     IF i \in InUse(m) THEN inode_blocks(m, m.node[i]) ELSE <<>>])
Meta == 0 .. FirstData - 1
InRange(t) == SelectSeq(t, LAMBDA b : b < BlocksCount)

Children(m, d) == {e \in ToSet(dir_entries(m, m.node[d])) : e[1] \notin {".", ".."}}
Linked(m, S) == S \cup {e[2] : e \in UNION {Children(m, d) : d \in {i \in S : m.node[i].mode = "dir"}}}
Reachable(m) == FoldLeft(LAMBDA S, k : Linked(m, S), {Root}, [k \in 1 .. InodesCount |-> k])

check(m) ==
    LET refs == References(m)
        used == ToSet(InRange(refs)) \cup Meta
        dirs == {i \in Reachable(m) : m.node[i].mode = "dir"}
        names(d) == [k \in DOMAIN dir_entries(m, m.node[d]) |-> dir_entries(m, m.node[d])[k][1]]
        problem == [dangling  |-> \E i \in m.ibm : i >= Root /\ m.node[i].mode = "none",
                    outside   |-> InRange(refs) # refs,
                    double    |-> Cardinality(ToSet(InRange(refs))) # Len(InRange(refs)),
                    metadata  |-> ToSet(refs) \cap Meta # {},
                    under     |-> used \ m.bbm # {},
                    leaked    |-> m.bbm \ used # {},
                    duplicate |-> \E d \in dirs : Cardinality(ToSet(names(d))) # Len(names(d)),
                    unmarked  |-> ~(Reachable(m) \subseteq m.ibm),
                    nodots    |-> \E d \in dirs : ~({".", ".."} \subseteq ToSet(names(d))),
                    orphan    |-> \E i \in m.ibm : i >= FirstInode - 1 /\ i \notin Reachable(m),
                    counts    |-> m.free # Free(m.ibm, m.bbm)]
    IN  {p \in DOMAIN problem : problem[p]}

\* --repair: the bitmaps and the counts are made anew from the tree.
repaired(m) ==
    LET keep == {Root} \cup Reachable(m)
        refs == UNION {ToSet(InRange(inode_blocks(m, m.node[i]))) :
                          i \in {j \in keep : m.node[j].mode # "none"}}
    IN  IF check(m) = {} THEN m
        ELSE [m EXCEPT !.bbm = Meta \cup refs, !.ibm = keep, !.free = Free(keep, Meta \cup refs)]

-----------------------------------------------------------------------------
\* The inode a path leads to, from the root.
Named(m, path) == FoldLeft(LAMBDA d, name : IF d = 0 THEN 0 ELSE dir_find(m, d, name), Root, path)

Worse(over) == IF hurt \in {"never", "repaired"} /\ ~over THEN "once" ELSE "more"

\* The data's version is the number of the install.
Begin(path, n, s, over) ==
    /\ log' = s.w
    /\ puts' = puts + 1
    /\ hurt' = IF (s.dead /\ s.w # <<>>) \/ hurt = "once" THEN Worse(over) ELSE hurt
    /\ files' = IF s.dead THEN IF s.w = <<>> THEN files ELSE [files EXCEPT ![path].v = 0]
                ELSE [files EXCEPT ![path] = [v |-> puts + 1, n |-> n]]
    /\ doing' = [path |-> path, over |-> over]

Put(path, n) ==
    /\ log = <<>>
    /\ puts < MaxPuts
    /\ Begin(path, n, main(img, path, n, puts + 1), Named(img, path) # 0)
    /\ UNCHANGED img

WriteBlock ==
    /\ log # <<>>
    /\ img' = applied(img, log[1])
    /\ log' = Tail(log)
    /\ UNCHANGED <<puts, files, hurt, doing>>

\* The host process is killed between two of its writes.
Kill ==
    /\ log # <<>>
    /\ log' = <<>>
    /\ hurt' = IF hurt = "more" \/ doing.over THEN "more" ELSE "once"
    /\ files' = [files EXCEPT ![doing.path].v = 0]
    /\ UNCHANGED <<img, puts, doing>>

Repair ==
    /\ log = <<>>
    /\ hurt \in {"once", "more"}
    /\ img' = repaired(img)
    /\ hurt' = IF hurt = "once" THEN "repaired" ELSE hurt
    /\ UNCHANGED <<log, puts, files, doing>>

Next ==
    \/ \E path \in Targets, n \in Sizes : Put(path, n)
    \/ WriteBlock \/ Kill \/ Repair

Spec == Init /\ [][Next]_vars

-----------------------------------------------------------------------------
TypeOK ==
    /\ hurt \in {"never", "once", "repaired", "more"}
    /\ puts \in 0 .. MaxPuts
    /\ img.bbm \subseteq 0 .. BlocksCount - 1
    /\ img.ibm \subseteq 1 .. InodesCount

\* The data blocks of a file in order, its tables left out.
Contents(m, ino) ==
    SelectSeq(inode_blocks(m, m.node[ino]),
              LAMBDA b : b \in DOMAIN m.blk /\ m.blk[b].ents = <<>> /\ m.blk[b].words[1] > BlocksCount)

ReadsBack(path) ==
    LET ino == Named(img, path)
        got == Contents(img, ino)
    IN  files[path].v # 0 =>
            /\ ino # 0
            /\ [k \in DOMAIN got |-> img.blk[got[k]]]
                  = [k \in 1 .. files[path].n |-> DataBlock(files[path].v, k)]

CountsHold ==
    \A i \in InUse(img) :
        /\ img.node[i].blocks = Len(inode_blocks(img, img.node[i]))
        /\ img.node[i].links = IF img.node[i].mode = "reg" THEN 1
                               ELSE 2 + Cardinality({e \in Children(img, i) : img.node[e[2]].mode = "dir"})

\* After every complete ext2_put, creating directories, replacing a file by a
\* shorter or longer one and growing a directory included, ext2_fsck finds the
\* image clean, every inode counts its blocks and links, and every installed
\* file reads back as its last install; and after a put that was killed or
\* died on a full disk, unless it was replacing a file, one ext2_fsck --repair
\* gives a clean image with every other file as it was.
HostImageExact ==
    log = <<>> =>
        /\ hurt = "never" => check(img) = {} /\ CountsHold
        /\ hurt = "once" => check(repaired(img)) = {}
        /\ hurt # "more" => \A path \in Targets : ReadsBack(path)
=============================================================================
