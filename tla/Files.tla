------------------------------- MODULE Files -------------------------------
(***************************************************************************)
(* Open files (kernel/src/process.c, fd.c) over the virtual file system    *)
(* (kernel/src/vfs.c): programs in the kernel's image, the ext2 disk, and  *)
(* files in RAM that are only used while no disk is mounted.               *)
(*                                                                         *)
(* A descriptor points at a handle of the process that opened it, and a    *)
(* child or a thread starts with a copy of its parent's descriptors.  A    *)
(* handle reads from the inode found by open, and writes by path.          *)
(*                                                                         *)
(* A name stands for a resolved path.  Cut[n] is what the 64 bytes of a    *)
(* handle keep of it.  Bytes, sizes and offsets are left out.              *)
(***************************************************************************)
EXTENDS Integers, FiniteSets, FiniteSetsExt

CONSTANTS Procs,      \* slots of the process table
          Names,      \* absolute paths
          Embedded,   \* those of g_vfs_files
          Cut,        \* [Names -> Names]
          Fds,        \* numbers of the descriptors above stderr
          Handles,    \* PROCESS_VFS_HANDLE_CAPACITY of them in each slot
          Inos,       \* inodes of the disk
          RamFiles    \* VFS_USER_MAX_FILES

VARIABLES mounted,    \* g_ext2 # 0
          dir,        \* the inode of a name on the disk, or 0
          ram,        \* the names in g_user_files
          live,       \* slots in use
          fd,         \* fd[p][f]: the handle that f points at, or NoHandle
          handle      \* handle[<<p, h>>]

vars == <<mounted, dir, ram, live, fd, handle>>

NoHandle == <<>>
Free == [used |-> FALSE, path |-> {}, ino |-> 0, gone |-> FALSE]
Used(name, ino) == [used |-> TRUE, path |-> {name}, ino |-> ino, gone |-> FALSE]
Program == [used |-> TRUE, path |-> {}, ino |-> 0, gone |-> FALSE]  \* kind 0

-----------------------------------------------------------------------------
(* vfs.c.  A failed lookup on a mounted disk falls through to the RAM files.*)

FreeInos == {i \in Inos : \A n \in Names : dir[n] # i}

ext2_create(n) ==
    /\ FreeInos # {}
    /\ dir' = [dir EXCEPT ![n] = Min(FreeInos)]

\* Is there a file n, or room for one?
canCreate(n) ==
    IF mounted THEN dir[n] # 0 \/ FreeInos # {}
    ELSE n \in ram \/ Cardinality(ram) < RamFiles

\* Fault variant: a full disk is made up for by a file in RAM.
vfs_createOverlay(n) ==
    \/ dir[n] # 0 /\ UNCHANGED <<dir, ram>>
    \/ dir[n] = 0 /\ mounted /\ ext2_create(n) /\ UNCHANGED ram
    \/ /\ dir[n] = 0 /\ ~(mounted /\ FreeInos # {})
       /\ n \in ram \/ Cardinality(ram) < RamFiles
       /\ ram' = ram \cup {n}
       /\ UNCHANGED dir

vfs_create(n) ==
    \/ mounted /\ dir[n] # 0 /\ UNCHANGED <<dir, ram>>
    \/ mounted /\ dir[n] = 0 /\ ext2_create(n) /\ UNCHANGED ram
    \/ /\ ~mounted /\ (n \in ram \/ Cardinality(ram) < RamFiles)
       /\ ram' = ram \cup {n}
       /\ UNCHANGED dir

\* Also of a file that is not there; nothing is written when it can't be made.
vfs_write(n) ==
    vfs_create(n) \/ (~canCreate(n) /\ UNCHANGED <<dir, ram>>)

\* A handle whose file was deleted is only marked here: the code keeps no such
\* mark.
vfs_unlink(n) ==
    /\ dir[n] # 0 \/ n \in ram
    /\ dir' = [dir EXCEPT ![n] = 0]
    /\ ram' = IF dir[n] # 0 THEN ram ELSE ram \ {n}
    /\ handle' = [k \in DOMAIN handle |->
                    IF handle[k].used /\ n \in handle[k].path
                    THEN [handle[k] EXCEPT !.gone = TRUE] ELSE handle[k]]

\* vfs_open_ino: the inode, 0 for a file in RAM, -1 if there is no file.
vfs_open_ino(n) ==
    IF mounted /\ dir[n] # 0 THEN dir[n] ELSE IF n \in ram THEN 0 ELSE -1

\* Where a read of a path looks, in this order.
vfs_read(n) ==
    IF n \in Embedded THEN "image" ELSE IF n \in ram THEN "ram"
    ELSE IF mounted /\ dir[n] # 0 THEN "disk" ELSE "none"

-----------------------------------------------------------------------------
(* process.c, fd.c                                                         *)

FreeHandles(p) == {h \in Handles : ~handle[<<p, h>>].used}
FreeFds(p) == {f \in Fds : fd[p][f] = NoHandle}

\* What the handle of an open of n holds; nothing if there is no such file.
opened(n) ==
    IF n \in Embedded THEN {Program}
    ELSE IF vfs_open_ino(n) = -1 THEN {}
    ELSE {Used(Cut[n], vfs_open_ino(n))}

\* Fault variant: the handle is not given back when there is no descriptor.
bindKept(p, content) ==
    \E h \in {Min(FreeHandles(p))} :
       /\ handle' = [handle EXCEPT ![<<p, h>>] = content]
       /\ fd' = IF FreeFds(p) = {} THEN fd
                ELSE [fd EXCEPT ![p][Min(FreeFds(p))] = <<p, h>>]

\* process_alloc_vfs_handle, fd_alloc, and on EMFILE process_release_vfs_handle.
bind(p, content) ==
    \E h \in {Min(FreeHandles(p))} :
       IF FreeFds(p) = {} THEN UNCHANGED <<fd, handle>>
       ELSE /\ handle' = [handle EXCEPT ![<<p, h>>] = content]
            /\ fd' = [fd EXCEPT ![p][Min(FreeFds(p))] = <<p, h>>]

process_open_vfs_from_parent(p, n) ==
    /\ p \in live
    /\ FreeHandles(p) # {}
    /\ \E content \in opened(n) : bind(p, content)
    /\ UNCHANGED <<mounted, dir, ram, live>>

\* Another process may hold the descriptor too: the handle goes all the same.
process_close_fd(p, f) ==
    /\ p \in live /\ fd[p][f] # NoHandle
    /\ fd' = [fd EXCEPT ![p][f] = NoHandle]
    /\ handle' = [handle EXCEPT ![fd[p][f]] = Free]
    /\ UNCHANGED <<mounted, dir, ram, live>>

\* By path, and the file is made when it is gone.  Programs are read-only.
process_vfs_write(p, f) ==
    /\ p \in live /\ fd[p][f] # NoHandle
    /\ \E n \in handle[fd[p][f]].path : handle[fd[p][f]].used /\ vfs_write(n)
    /\ UNCHANGED <<mounted, live, fd, handle>>

\* SYS_CREAT: the open comes after the create and may fail on its own.
Creat(p, n) ==
    /\ p \in live
    /\ vfs_create(n)
    /\ IF FreeHandles(p) = {} THEN UNCHANGED <<fd, handle>>
       ELSE \E content \in IF n \in Embedded THEN {Program}
                           ELSE {Used(Cut[n], dir'[n])} : bind(p, content)
    /\ UNCHANGED <<mounted, live>>

Unlink(n) == live # {} /\ vfs_unlink(n) /\ UNCHANGED <<mounted, live, fd>>

\* SYS_WRITE_FILE.
vfs_write_all(n) == live # {} /\ vfs_write(n) /\ UNCHANGED <<mounted, live, fd, handle>>

\* process_load_image_slot, or process_create_thread, for a child of parent.
spawn(parent, p) ==
    /\ parent \in live /\ p \notin live
    /\ live' = live \cup {p}
    /\ fd' = [fd EXCEPT ![p] = fd[parent]]
    /\ handle' = [k \in DOMAIN handle |-> IF k[1] = p THEN Free ELSE handle[k]]
    /\ UNCHANGED <<mounted, dir, ram>>

\* process_spawn_path: the desktop's children start with stdio only.
process_spawn_path(p) ==
    /\ p \notin live
    /\ live' = live \cup {p}
    /\ fd' = [fd EXCEPT ![p] = [f \in Fds |-> NoHandle]]
    /\ handle' = [k \in DOMAIN handle |-> IF k[1] = p THEN Free ELSE handle[k]]
    /\ UNCHANGED <<mounted, dir, ram>>

\* The descriptors stay in the slot until it is loaded again.
process_unload(p) ==
    /\ p \in live
    /\ live' = live \ {p}
    /\ handle' = [k \in DOMAIN handle |-> IF k[1] = p THEN Free ELSE handle[k]]
    /\ UNCHANGED <<mounted, dir, ram, fd>>

Init ==
    /\ mounted \in BOOLEAN
    /\ dir = [n \in Names |-> 0] /\ ram = {}
    /\ live = {}
    /\ fd = [p \in Procs |-> [f \in Fds |-> NoHandle]]
    /\ handle = [k \in Procs \X Handles |-> Free]

Next ==
    \/ \E p \in Procs, n \in Names : process_open_vfs_from_parent(p, n) \/ Creat(p, n)
    \/ \E p \in Procs, f \in Fds : process_close_fd(p, f) \/ process_vfs_write(p, f)
    \/ \E n \in Names : Unlink(n) \/ vfs_write_all(n)
    \/ \E p, q \in Procs : spawn(p, q)
    \/ \E p \in Procs : process_spawn_path(p) \/ process_unload(p)

Spec == Init /\ [][Next]_vars

-----------------------------------------------------------------------------
\* State is well typed (struct process, struct fd_table).
TypeOK ==
    /\ mounted \in BOOLEAN
    /\ dir \in [Names -> Inos \cup {0}] /\ ram \subseteq Names
    /\ Cardinality(ram) <= RamFiles
    /\ live \subseteq Procs
    /\ fd \in [Procs -> [Fds -> (Procs \X Handles) \cup {NoHandle}]]
    /\ \A k \in Procs \X Handles :
          /\ handle[k].used \in BOOLEAN /\ handle[k].gone \in BOOLEAN
          /\ handle[k].path \subseteq Names /\ handle[k].ino \in Inos \cup {0}

\* No handle is lost: a handle in use can be closed by the process that opened
\* it, whatever opens failed half way, and whatever its children closed.
NoHandleLeak ==
    \A p \in live, h \in Handles :
       handle[<<p, h>>].used => \E f \in Fds : fd[p][f] = <<p, h>>

\* "When a persistent ext2 filesystem is mounted it is authoritative": a path
\* is read from where writes of it go, and a handle whose file was not deleted
\* reads the inode that its writes go to.  Only a path that did not fit in the
\* handle is written to under another name.
ReadsWhatItWrites ==
    /\ \A n \in Names : vfs_read(n) = "ram" => ~mounted
    /\ \A k \in DOMAIN handle, n \in Names :
          handle[k].used /\ n \in handle[k].path /\ ~handle[k].gone
          /\ (\A m \in Names : Cut[m] = n => m = n)
          => IF handle[k].ino = 0 THEN n \in ram /\ ~mounted ELSE dir[n] = handle[k].ino
=============================================================================
