-------------------------------- MODULE Vfs --------------------------------
(***************************************************************************)
(* The name space of kernel/src/vfs.c and the path system calls of         *)
(* process.c: a path may name a file built into the kernel, a node of the  *)
(* ext2 disk, a fixed overlay directory or a RAM file, and every operation *)
(* asks these sources in an order of its own.  A path is the sequence of   *)
(* its components; one process changes its working directory and its uid.  *)
(***************************************************************************)
EXTENDS Integers, Sequences, SequencesExt, FiniteSetsExt, TLC

CONSTANTS Universe,          \* absolute paths programs use
          Rel,               \* names given as relative paths
          Embedded,          \* g_vfs_files
          Overlay,           \* the directories that always exist, below the root
          Uids,              \* 0 is root
          Guarded,           \* paths chmod and chown are used on
          Modes,             \* permissions: [own, oth] subsets of {"r", "w", "x"}
          PathMax,           \* components a path may have
          ExtCap,            \* entries ext2_readdir returns, "." and ".." included
          RamFiles           \* VFS_USER_MAX_FILES

VARIABLES mounted,           \* is g_ext2 set?
          ext,               \* nodes of the disk: path -> kind, uid, mode
          ram,               \* paths of g_user_files
          cwd, uid,          \* of the calling process
          inPlace            \* did the last call work on the path it was given, behind the cwd?

vars == <<mounted, ext, ram, cwd, uid, inPlace>>

ascii_lower(n) == IF n = "A" THEN "a" ELSE n
lower(path) == [i \in DOMAIN path |-> ascii_lower(path[i])]

DirMode == [own |-> {"r", "w", "x"}, oth |-> {"r", "x"}]
FileMode == [own |-> {"r", "w"}, oth |-> {"r"}]
node(kind, mode) == [kind |-> kind, uid |-> 0, mode |-> mode]

Init ==
    /\ mounted \in BOOLEAN
    /\ ext = (<<>> :> node("dir", DirMode)) @@ (<<"bin">> :> node("dir", DirMode))
    /\ ram = {} /\ cwd = <<>> /\ uid = 0 /\ inPlace = TRUE

-----------------------------------------------------------------------------
(* Lookups.                                                                *)

vfs_lookup(path) == \E e \in Embedded : lower(e) = lower(path)
onDisk(path) == mounted /\ path \in DOMAIN ext
find_user_file(path) == path \in ram
parent_dir(path) == IF path = <<>> THEN <<>> ELSE Front(path)
isOverlay(path) == path = <<>> \/ \E d \in Overlay : lower(path) = <<d>>
ramDirectory(path) == \E f \in ram : Len(f) > Len(path) /\ IsPrefix(path, f)

(* vfs_stat_path: "none" when the path names nothing.  A RAM file itself   *)
(* is not looked for.                                                      *)
vfs_stat_path(path) ==
    CASE Len(path) > PathMax -> "none"
      [] Len(path) <= PathMax /\ vfs_lookup(path) -> "file"
      [] Len(path) <= PathMax /\ ~vfs_lookup(path) /\ onDisk(path) -> ext[path].kind
      [] OTHER -> IF Len(path) <= PathMax /\ (isOverlay(path) \/ ramDirectory(path))
                  THEN "dir" ELSE "none"

(* process_resolve_path: a relative path is put behind the cwd.            *)
resolved(rel, p) == IF rel THEN cwd \o p ELSE p

-----------------------------------------------------------------------------
(* vfs_readdir: the sources are merged in order; a name that is already    *)
(* listed, in any case, is left out.                                       *)

extEntries(path) ==
    IF onDisk(path) /\ ext[path].kind = "dir"
    THEN LET names == SetToSeq({Last(p) : p \in {q \in DOMAIN ext : q # <<>> /\ Front(q) = path}})
             shown == SubSeq(names, 1, Min({Len(names), ExtCap - 2}))
         IN  [i \in DOMAIN shown |-> [name |-> shown[i], kind |-> ext[Append(path, shown[i])].kind]]
    ELSE <<>>
overlayEntries(path) ==
    IF path = <<>> THEN LET s == SetToSeq(Overlay) IN [i \in DOMAIN s |-> [name |-> s[i], kind |-> "dir"]]
    ELSE <<>>
childrenIn(paths, path) ==
    LET s == SetToSeq({Last(p) : p \in {q \in paths : q # <<>> /\ lower(Front(q)) = lower(path)}})
    IN  [i \in DOMAIN s |-> [name |-> s[i], kind |-> "file"]]
embedded_children(path) == childrenIn(Embedded, path)
ramEntries(path) == childrenIn({f \in ram : Front(f) = path}, path)

already_listedExact(e, list) == \E i \in DOMAIN list : list[i].name = e.name
already_listed(e, list) == \E i \in DOMAIN list : ascii_lower(list[i].name) = ascii_lower(e.name)
merged(list, more) ==
    FoldLeft(LAMBDA l, e : IF already_listed(e, l) THEN l ELSE Append(l, e), list, more)
vfs_readdir(path) ==
    merged(merged(merged(extEntries(path), overlayEntries(path)), embedded_children(path)),
           ramEntries(path))

-----------------------------------------------------------------------------
(* Permissions: the owner's bits or the others', root may do anything.     *)

perm_ok(n, want) ==
    uid # 0 => want \subseteq (IF uid = ext[n].uid THEN ext[n].mode.own ELSE ext[n].mode.oth)
vfs_access_ok(path, want) == onDisk(path) => perm_ok(path, want)
(* The call passes 06, which is read and write.                            *)
mayChange(dir) == vfs_access_ok(dir, {"r", "w"})

acted(rel, p, path) == inPlace' = (path = resolved(rel, p))

ext2_create(path, kind, mode) ==
    /\ mounted /\ path \notin DOMAIN ext /\ path # <<>> /\ onDisk(Front(path))
    /\ ext[Front(path)].kind = "dir"
    /\ ext' = ext @@ (path :> node(kind, mode))
ramCreate(path) ==
    \/ find_user_file(path) /\ UNCHANGED ram
    \/ path \notin ram /\ Cardinality(ram) < RamFiles /\ ram' = ram \cup {path}

(* SYS_CREAT: with a disk no RAM file is made.                             *)
Creat(rel, p) ==
    LET path == resolved(rel, p) IN
    /\ path # <<>> /\ Len(path) <= PathMax
    /\ mounted => mayChange(parent_dir(path))
    /\ \/ onDisk(path) /\ UNCHANGED <<ext, ram>>
       \/ ext2_create(path, "file", FileMode) /\ UNCHANGED ram
       \/ ~mounted /\ ramCreate(path) /\ UNCHANGED ext
    /\ acted(rel, p, path)
    /\ UNCHANGED <<mounted, cwd, uid>>

(* SYS_MKDIR needs a disk.                                                 *)
Mkdir(rel, p) ==
    LET path == resolved(rel, p) IN
    /\ Len(path) <= PathMax /\ mounted /\ mayChange(parent_dir(path))
    /\ ext2_create(path, "dir", DirMode)
    /\ acted(rel, p, path) /\ UNCHANGED <<mounted, ram, cwd, uid>>

(* SYS_UNLINK: the disk first, then the RAM files.  A directory that is    *)
(* not empty loses its name all the same.                                  *)
Unlink(rel, p) ==
    LET path == resolved(rel, p) IN
    /\ path # <<>>
    /\ mounted => mayChange(parent_dir(path))
    /\ \/ /\ onDisk(path)
          /\ ext' = [q \in {r \in DOMAIN ext : ~IsPrefix(path, r)} |-> ext[q]] /\ UNCHANGED ram
       \/ ~onDisk(path) /\ find_user_file(path) /\ ram' = ram \ {path} /\ UNCHANGED ext
    /\ acted(rel, p, path) /\ UNCHANGED <<mounted, cwd, uid>>

(* SYS_WRITE_FILE creates the file it writes; it asks no permission.       *)
WriteFile(rel, p) ==
    LET path == resolved(rel, p) IN
    /\ path # <<>> /\ Len(path) <= PathMax
    /\ \/ onDisk(path) /\ ext[path].kind = "file" /\ UNCHANGED <<ext, ram>>
       \/ ext2_create(path, "file", FileMode) /\ UNCHANGED ram
       \/ ~mounted /\ ramCreate(path) /\ UNCHANGED ext
    /\ acted(rel, p, path) /\ UNCHANGED <<mounted, cwd, uid>>

(* SYS_CHMOD and SYS_CHOWN take the path as it is: a relative one is       *)
(* looked up from the root.                                                *)
Chmod(rel, p, m) ==
    /\ onDisk(p) /\ uid \in {0, ext[p].uid}
    /\ ext' = [ext EXCEPT ![p].mode = m]
    /\ acted(rel, p, p) /\ UNCHANGED <<mounted, ram, cwd, uid>>
Chown(rel, p, u) ==
    /\ onDisk(p) /\ uid = 0
    /\ ext' = [ext EXCEPT ![p].uid = u]
    /\ acted(rel, p, p) /\ UNCHANGED <<mounted, ram, cwd, uid>>

(* SYS_CHDIR takes absolute paths only; the cwd keeps naming a directory   *)
(* that is removed later.                                                  *)
Chdir(p) ==
    /\ vfs_stat_path(p) = "dir" /\ cwd' = p
    /\ inPlace' = TRUE /\ UNCHANGED <<mounted, ext, ram, uid>>

(* SYS_SETUID: only root may change it.                                    *)
Setuid(u) ==
    /\ uid \in {0, u} /\ uid' = u
    /\ inPlace' = TRUE /\ UNCHANGED <<mounted, ext, ram, cwd>>

Call(rel, p) ==
    \/ Creat(rel, p)
    \/ Mkdir(rel, p)
    \/ Unlink(rel, p)
    \/ WriteFile(rel, p)
    \/ p \in Guarded /\ \E m \in Modes : Chmod(rel, p, m)
    \/ p \in Guarded /\ \E u \in Uids : Chown(rel, p, u)

Next ==
    \/ \E p \in Universe : Call(FALSE, p)
    \/ \E n \in Rel : Call(TRUE, <<n>>)
    \/ \E p \in Universe : Chdir(p)
    \/ \E u \in Uids : Setuid(u)

-----------------------------------------------------------------------------
TypeOK ==
    /\ mounted \in BOOLEAN /\ uid \in Uids /\ cwd \in Universe
    /\ \A p \in DOMAIN ext : ext[p].kind \in {"dir", "file"}

Listed(path) == LET l == vfs_readdir(path) IN {l[i] : i \in DOMAIN l}
Children(path) == {q \in DOMAIN ext : q # <<>> /\ Front(q) = path}

(* vfs_readdir after any calls: a name is listed once whatever its case;   *)
(* every node of the disk, built-in file and RAM file below the directory  *)
(* is listed unless ext2_readdir's array was full; and with a disk every   *)
(* listed name can be looked up again by vfs_stat_path.                    *)
VfsExact ==
    \A d \in Universe \cup {<<>>} :
        LET l == vfs_readdir(d) names == {ascii_lower(l[i].name) : i \in DOMAIN l} IN
        vfs_stat_path(d) = "dir" =>
            /\ Cardinality(names) = Len(l)
            /\ onDisk(d) /\ Cardinality(Children(d)) <= ExtCap - 2
                   => \A q \in Children(d) : ascii_lower(Last(q)) \in names
            /\ \A f \in Embedded \cup ram : lower(Front(f)) = lower(d) => ascii_lower(Last(f)) \in names
            /\ mounted /\ Len(d) < PathMax
                   => \A e \in Listed(d) : vfs_stat_path(Append(d, e.name)) # "none"
=============================================================================
