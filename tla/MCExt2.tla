------------------------------- MODULE MCExt2 -------------------------------
(***************************************************************************)
(* A disk with three inodes and three blocks beside the root directory:    *)
(* inodes and blocks run out in the middle of every operation, the root    *)
(* and one directory below it grow to a second block, and a write crosses  *)
(* from the direct blocks into the table.                                  *)
(***************************************************************************)
EXTENDS Ext2

MCNames   == {"a", "b"}
MCParents == {<<>>, <<"a">>}
MCWrites  == {<<1, 2>>}
MCCrash   == {"unlink"}

\* Blocks in use in memory or on the disk.
Marked == mem.blocks \cup disk.blocks

\* The view of a state that leaves out what free blocks hold.  A free block is
\* written before it is read, unless a live inode points to it, and then
\* BlocksOwnedOnce is already violated.
WithoutStale ==
    <<mem, [disk EXCEPT !.dir   = [b \in Blocks |-> IF b \in Marked THEN @[b] ELSE {}],
                        !.table = [b \in Blocks |-> IF b \in Marked THEN @[b] ELSE NoTable]],
      log, op, clean>>

=============================================================================
