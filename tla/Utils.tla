------------------------------- MODULE Utils -------------------------------
(***************************************************************************)
(* The file utilities of user/: cp.c and mv.c (Copy machine), rm.c (Remove *)
(* machine), and the text tools tail.c, head.c, grep.c, wc.c, find.c,      *)
(* chown.c, id.c and whoami.c as operators compared with reference         *)
(* definitions over every small input (Text machine), and adduser.cpp and  *)
(* su.c (Accounts machine).  The machines share no variable.               *)
(***************************************************************************)
EXTENDS Integers, Sequences, SequencesExt, FiniteSetsExt, Functions, TLC

CONSTANTS Paths,             \* names cp and mv are called with
          Buf,               \* cells one read fills, sizeof(buf)
          MaxFile,           \* cells of the longest file
          Disk,              \* cells the disk holds
          Trees,             \* directory trees rm -r is called on: node -> its entries
          Root,              \* the directory given to rm
          Letters, MaxText,  \* characters and length of the texts read
          LineMax, MaxLines  \* tail's LINE_MAX - 1 and MAX_LINES

(***************************************************************************)
(* cp and mv.  A file is a sequence of cells.  SYS_CREAT neither empties a *)
(* file that exists nor honours O_TRUNC, and ext2_write stops without an   *)
(* error when the disk is full: it answers with the cells it stored.       *)
(***************************************************************************)
VARIABLES files,             \* path -> contents; absent files are not in the domain
          first,             \* the files before the command
          cmd                \* the command that runs, and how far it is
cpvars == <<files, first, cmd>>

Contents == BoundedSeq({"a", "b"}, MaxFile)
Used(f) == FoldFunction(LAMBDA s, n : Len(s) + n, 0, f)

CopyInit ==
    /\ \E S \in SUBSET Paths : files \in [S -> Contents]
    /\ Used(files) <= Disk /\ first = files /\ cmd = [pc |-> "idle"]

(* open of both paths: a missing source ends the command, a missing        *)
(* destination is created.                                                 *)
Open(tool, s, d) ==
    /\ cmd.pc = "idle"
    /\ IF s \in DOMAIN files
       THEN /\ files' = IF d \in DOMAIN files THEN files ELSE files @@ (d :> <<>>)
            /\ cmd' = [pc |-> "copy", tool |-> tool, src |-> s, dst |-> d, rd |-> 0, wr |-> 0,
                       short |-> FALSE, status |-> 0]
       ELSE UNCHANGED files /\ cmd' = [pc |-> "done", tool |-> tool, src |-> s, dst |-> d,
                                       short |-> FALSE, status |-> 1]
    /\ UNCHANGED first

(* ext2_write at an offset: cells inside the file are overwritten, cells   *)
(* past its end need room.                                                 *)
storable(old, off, n) == Min({n, Len(old) - off + Disk - Used(files)})
ext2_write(old, off, data) ==
    SubSeq(old, 1, off) \o data \o SubSeq(old, off + Len(data) + 1, Len(old))

endedShort(src, rd) == rd + Buf > Len(src)
ended(src, rd) == rd >= Len(src)

(* One turn of the loop: a read of at most Buf cells, one write.           *)
CopyChunk ==
    LET src == files[cmd.src]
        chunk == SubSeq(src, cmd.rd + 1, Min({cmd.rd + Buf, Len(src)}))
        n == storable(files[cmd.dst], cmd.wr, Len(chunk))
    IN  /\ cmd.pc = "copy" /\ ~ended(src, cmd.rd)
        /\ files' = [files EXCEPT ![cmd.dst] = ext2_write(@, cmd.wr, SubSeq(chunk, 1, n))]
        /\ cmd' = [cmd EXCEPT !.rd = @ + Len(chunk), !.wr = @ + n,
                              !.short = @ \/ n < Len(chunk)]
        /\ UNCHANGED first

(* write answers with an error: the loop ends with status 1.               *)
WriteError ==
    /\ cmd.pc = "copy" /\ ~ended(files[cmd.src], cmd.rd)
    /\ cmd' = [cmd EXCEPT !.pc = "close", !.status = 1] /\ UNCHANGED <<files, first>>

(* After the loop mv unlinks its source unless the status says otherwise.  *)
Close ==
    /\ \/ cmd.pc = "close"
       \/ cmd.pc = "copy" /\ ended(files[cmd.src], cmd.rd)
    /\ files' = IF cmd.tool = "mv" /\ cmd.status = 0
                THEN [p \in DOMAIN files \ {cmd.src} |-> files[p]] ELSE files
    /\ cmd' = [cmd EXCEPT !.pc = "done"]
    /\ UNCHANGED first

Again == cmd.pc = "done" /\ cmd' = [pc |-> "idle"] /\ first' = files /\ UNCHANGED files

CopyNext ==
    \/ \E tool \in {"cp", "mv"}, s, d \in Paths : Open(tool, s, d)
    \/ CopyChunk
    \/ WriteError
    \/ Close
    \/ Again

(* cp and mv that end with status 0 leave the source's contents under the  *)
(* destination's name, and mv keeps the source in every other case, when   *)
(* the disk had room, the paths differ and the destination was no longer   *)
(* than the source; no other file changes.                                 *)
CopyExact ==
    cmd.pc = "done" =>
        LET simple == ~cmd.short /\ cmd.src # cmd.dst
                      /\ (cmd.src \in DOMAIN first /\ cmd.dst \in DOMAIN first
                             => Len(first[cmd.dst]) <= Len(first[cmd.src]))
        IN  /\ simple /\ cmd.status = 0 => files[cmd.dst] = first[cmd.src]
            /\ cmd.status # 0 /\ cmd.src # cmd.dst /\ cmd.src \in DOMAIN first
                   => files[cmd.src] = first[cmd.src]
            /\ \A p \in DOMAIN first \ {cmd.src, cmd.dst} : files[p] = first[p]

(***************************************************************************)
(* rm -r.  A directory is the sequence of its entries as vfs_readdir lists *)
(* them (. and .. are left out by the kernel); removing an entry moves the *)
(* later ones down one index.                                              *)
(***************************************************************************)
VARIABLES tree,              \* node -> its entries, <<>> for a file; removed nodes have none left
          linked,            \* nodes that still have a name
          stack,             \* frames of rm_recursive: directory, idx, status
          rm,                \* the command line's force flag and the exit status (-1: running)
          refused            \* nodes unlink fails on: no access, a path over 63 characters
rmvars == <<tree, linked, stack, rm, refused>>

isDir(t, n) == n \in DOMAIN t
Below(t) == UNION {Range(t[n]) : n \in DOMAIN t} \cup DOMAIN t

RemoveInit ==
    /\ tree \in Trees /\ linked = Below(tree)
    /\ stack = <<[dir |-> Root, idx |-> 1, status |-> 0]>>
    /\ rm \in {[force |-> f, status |-> -1, seen |-> {}] : f \in BOOLEAN}
    /\ refused \in SUBSET Below(tree)

Top == Last(stack)
without(s, e) == SelectSeq(s, LAMBDA x : x # e)

(* unlink of node e of directory d.                                        *)
unlinked(t, e) == [n \in DOMAIN t |-> IF e \in refused THEN t[n] ELSE without(t[n], e)]
statusAfter(failed, mine) == IF failed /\ ~rm.force THEN 1 ELSE mine

(* readdir_at(path, idx++): a file is unlinked, a directory descended into.*)
Entry ==
    /\ stack # <<>> /\ Top.idx <= Len(tree[Top.dir])
    /\ LET e == tree[Top.dir][Top.idx]
           moved == [stack EXCEPT ![Len(stack)].idx = @ + 1]
       IN  IF isDir(tree, e)
           THEN /\ stack' = Append(moved, [dir |-> e, idx |-> 1, status |-> 0])
                /\ UNCHANGED <<tree, linked>>
           ELSE /\ tree' = unlinked(tree, e)
                /\ linked' = linked \ ({e} \ refused)
                /\ stack' = [moved EXCEPT ![Len(stack)].status = statusAfter(e \in refused, @)]
    /\ UNCHANGED <<rm, refused>>

parentStatusKept(below, mine) == mine
parentStatus(below, mine) == IF below # 0 THEN 1 ELSE mine

(* rmdir is unlink: ext2_unlink takes the entry out of the parent and only *)
(* then looks whether the directory is empty, answering -2 when it is not. *)
Rmdir ==
    /\ stack # <<>> /\ Top.idx > Len(tree[Top.dir])
    /\ LET d == Top.dir
           mine == statusAfter(d \in refused \/ tree[d] # <<>>, Top.status)
           rest == Front(stack)
       IN  /\ linked' = linked \ ({d} \ refused)
           /\ tree' = unlinked(tree, d)
           /\ rm' = [rm EXCEPT !.status = IF rest = <<>> THEN mine ELSE @,
                               !.seen = @ \cup {Len(tree[d])}]
           /\ stack' = IF rest = <<>> THEN <<>>
                       ELSE [rest EXCEPT ![Len(rest)].status = parentStatus(mine, @)]
    /\ UNCHANGED refused

RemoveNext == Entry \/ Rmdir

(* rm -r without -f that ends with status 0 has removed every file and     *)
(* directory below its argument: a directory it could not empty, at any    *)
(* depth, shows in the exit status.                                        *)
RmReports == rm.status = 0 /\ ~rm.force => linked = {}

(***************************************************************************)
(* The text tools read their input a character at a time.  All of them     *)
(* read the same text here; what each would print if the input ended now   *)
(* is compared with a reference definition.                                *)
(***************************************************************************)
VARIABLES text,              \* what was read so far
          pat,               \* grep's pattern, find's glob
          tl,                \* tail: pool, head, total, the line being read
          gr,                \* grep: the line being read, hits
          cnt                \* wc: lines, words, in_word
tvars == <<text, pat, tl, gr, cnt>>

TextInit ==
    /\ text = <<>> /\ pat \in BoundedSeq(Letters \cup {"*", "?"}, 2)
    /\ tl = [pool |-> [i \in 0 .. MaxLines - 1 |-> <<>>], head |-> 0, total |-> 0, line |-> <<>>]
    /\ gr = [line |-> <<>>, hits |-> 0] /\ cnt = [lines |-> 0, words |-> 0, in_word |-> FALSE]

(* tail_fd: a finished line goes into the slot at head.                    *)
pooled(t, line) ==
    [pool |-> [t.pool EXCEPT ![t.head % MaxLines] = line], head |-> t.head + 1,
     total |-> Min({t.total + 1, MaxLines}), line |-> <<>>]
full(line, c) == c = "nl" \/ Len(line) = LineMax
tailChar(t, c) ==
    LET line == Append(t.line, c) IN
    IF full(line, c) THEN pooled(t, line) ELSE [t EXCEPT !.line = line]
slotOff(t, i) == (t.head + i) % MaxLines
slot(t, i) == (t.head - t.total + i) % MaxLines
tailPrints(n) ==
    LET t == IF tl.line # <<>> THEN pooled(tl, tl.line) ELSE tl
        start == IF t.total < n THEN 0 ELSE t.total - n
    IN  FlattenSeq([i \in 1 .. t.total - start |-> t.pool[slot(t, start + i - 1)]])

(* head_fd: characters up to the nth newline.                              *)
headPrints(n) ==
    LET stop == {k \in DOMAIN text : Cardinality({j \in 1 .. k : text[j] = "nl"}) = n} IN
    IF stop = {} THEN text ELSE SubSeq(text, 1, Min(stop))

(* grep -i: match at every position, characters folded.                    *)
fold(c) == IF c = "A" THEN "a" ELSE c
match(line, p) ==
    \E i \in 0 .. Len(line) - Len(p) : \A j \in 1 .. Len(p) : fold(line[i + j]) = fold(p[j])
grepChar(g, c) ==
    LET line == Append(g.line, c) IN
    IF full(line, c) THEN [line |-> <<>>, hits |-> g.hits + IF match(line, pat) THEN 1 ELSE 0]
    ELSE [g EXCEPT !.line = line]

(* wc: a word starts at the first character that is not a space.           *)
countChar(w, c) ==
    LET space == c \in {"nl", "sp"} IN
    [lines |-> w.lines + IF c = "nl" THEN 1 ELSE 0,
     words |-> w.words + IF ~space /\ ~w.in_word THEN 1 ELSE 0,
     in_word |-> ~space]

ReadChar(c) ==
    /\ Len(text) < MaxText
    /\ text' = Append(text, c) /\ tl' = tailChar(tl, c) /\ gr' = grepChar(gr, c)
    /\ cnt' = countChar(cnt, c) /\ UNCHANGED pat

TextNext == \E c \in Letters : ReadChar(c)

(* find's match_glob: globLoop is its while loop with the return after it. *)
RECURSIVE match_glob(_, _)
RECURSIVE globLoop(_, _)
afterLoopOpen(name, p) == \A i \in DOMAIN p : p[i] = "*"
afterLoop(name, p) == name = <<>> /\ \A i \in DOMAIN p : p[i] = "*"
globLoop(name, p) ==
    CASE p = <<>> \/ name = <<>> -> afterLoop(name, p)
      [] p # <<>> /\ name # <<>> /\ p[1] = "*" ->
             \/ Len(p) = 1
             \/ \E k \in DOMAIN name : match_glob(SubSeq(name, k, Len(name)), Tail(p))
      [] OTHER -> p[1] \in {"?", name[1]} /\ globLoop(Tail(name), Tail(p))
match_glob(name, p) == p = <<>> \/ p = <<"*">> \/ globLoop(name, p)

(* Reference: a glob matches when the name can be cut into one piece per   *)
(* pattern character, of any length for * and of length one otherwise.     *)
GlobMatches(name, p) ==
    \E cut \in [0 .. Len(p) -> 0 .. Len(name)] :
        /\ cut[0] = 0 /\ cut[Len(p)] = Len(name)
        /\ \A i \in 1 .. Len(p) :
               /\ cut[i - 1] <= cut[i]
               /\ p[i] # "*" => cut[i] = cut[i - 1] + 1 /\ p[i] \in {"?", name[cut[i]]}

Newlines(s) == Cardinality({i \in DOMAIN s : s[i] = "nl"})
LinesOf(s) == Newlines(s) + IF s # <<>> /\ Last(s) # "nl" THEN 1 ELSE 0
Starts == {1} \cup {i + 1 : i \in {j \in DOMAIN text : text[j] = "nl"}}
LineAt(i) == SubSeq(text, i, Min({j \in DOMAIN text : j >= i /\ text[j] = "nl"} \cup {Len(text)}))
ShortLines ==
    \A i \in Starts : LET line == LineAt(i) IN
        Len(line) < LineMax \/ (Len(line) = LineMax /\ Last(line) = "nl")
LongestSuffix(n) ==
    SubSeq(text, Min({i \in 1 .. Len(text) + 1 :
                         LinesOf(SubSeq(text, i, Len(text))) <= n /\ i \in Starts \cup {Len(text) + 1}}),
           Len(text))

(* What the text tools print of any input whose lines fit their buffers:   *)
(* tail prints the longest run of whole lines at the end with at most n    *)
(* lines, also after its ring has wrapped; head the first n lines; grep    *)
(* counts the terminated lines that hold the pattern; wc counts words as   *)
(* the places where a word begins; find's glob accepts the names that can  *)
(* be cut along the pattern.                                               *)
TextExact ==
    /\ ShortLines =>
          /\ \A n \in 1 .. MaxLines : tailPrints(n) = LongestSuffix(n)
          /\ gr.hits = Cardinality({i \in Starts : i <= Len(text) /\ Last(LineAt(i)) = "nl"
                                       /\ \E a, b \in 0 .. Len(LineAt(i)) :
                                              /\ b - a = Len(pat)
                                              /\ \A j \in 1 .. Len(pat) :
                                                     {LineAt(i)[a + j], pat[j]} \subseteq {"a", "A"}
                                                     \/ LineAt(i)[a + j] = pat[j]})
    /\ \A n \in 1 .. MaxLines : /\ IsPrefix(headPrints(n), text)
                                /\ headPrints(n) # text => LinesOf(headPrints(n)) = n
    /\ cnt.lines = Newlines(text)
    /\ cnt.words = Cardinality({i \in DOMAIN text : /\ text[i] \notin {"nl", "sp"}
                                                    /\ i > 1 => text[i - 1] \in {"nl", "sp"}})
    /\ pat # <<>> => (match_glob(text, pat) <=> GlobMatches(text, pat))

(***************************************************************************)
(* User accounts: user/adduser.cpp writes /etc/passwd and /etc/shadow,     *)
(* user/su.c reads them and asks the kernel for another uid, libc's        *)
(* vos_home_dir looks up a home.  A database is a sequence of entries; a   *)
(* program reads a whole file, and rewrites it by truncating it first, so  *)
(* another program can run between those steps.                            *)
(***************************************************************************)
CONSTANTS Adders,            \* adduser processes that may run at once
          Names,             \* user names typed
          Explicit,          \* uids given with -u
          FirstUid, LastUid, \* kFirstRegularUid, kLastRegularUid
          Passwords,
          FileCap,           \* entries append_line's buffer holds
          HomeCap,           \* entries vos_home_dir's buffer holds
          DiskFails,         \* may a write fail?
          MaxShells          \* bound on the nested shells

VARIABLES passwd, shadow,    \* the two files
          homes,             \* directory -> owner
          add,               \* each adder's progress
          added,             \* names adduser reported as added
          broken,            \* an adder stopped half-way
          shells,            \* uids of the nested shells of the session
          asked              \* the last su: <<password right?, uid wanted, uid got>>

acvars == <<passwd, shadow, homes, add, added, broken, shells, asked>>

Idle == [pc |-> "idle"]
Uid == Last(shells)
NobodyAdds == \A a \in Adders : add[a].pc \in {"idle", "checked", "typed"}

AccountsInit ==
    /\ passwd = <<[name |-> "root", uid |-> 0]>> /\ shadow = <<[name |-> "root", pw |-> "r"]>>
    /\ homes = [d \in {"root"} |-> 0] /\ add = [a \in Adders |-> Idle]
    /\ added = {} /\ broken = FALSE /\ shells = <<0>> /\ asked = <<>>

NamesIn(file) == {file[i].name : i \in DOMAIN file}
UidsIn(file) == {file[i].uid : i \in DOMAIN file}
lookup(file, n) == SelectSeq(file, LAMBDA e : e.name = n)

next_free_uid ==
    Max({FirstUid - 1} \cup {u \in UidsIn(passwd) : u >= FirstUid /\ u < LastUid}) + 1

-----------------------------------------------------------------------------
(* adduser: the checks, in the order of main.                              *)

Check(a, n, given) ==
    LET uid == IF given # {} THEN CHOOSE u \in given : TRUE ELSE next_free_uid
    IN  /\ add[a].pc = "idle" /\ Uid = 0
        /\ n \notin NamesIn(passwd)
        /\ uid < LastUid
        /\ given # {} => uid \notin UidsIn(passwd)
        /\ add' = [add EXCEPT ![a] = [pc |-> "checked", name |-> n, uid |-> uid]]
        /\ UNCHANGED <<passwd, shadow, homes, added, broken, shells, asked>>

Quit(a, half) == add' = [add EXCEPT ![a] = Idle] /\ broken' = (broken \/ half)

(* Two passwords are typed; they must agree.                               *)
TypePasswords(a, p1, p2) ==
    /\ add[a].pc = "checked"
    /\ IF p1 # p2 THEN Quit(a, FALSE)
       ELSE add' = [add EXCEPT ![a] = [pc |-> "typed", name |-> @.name, uid |-> @.uid, pw |-> p1]]
            /\ UNCHANGED broken
    /\ UNCHANGED <<passwd, shadow, homes, added, shells, asked>>

Step(a, pc, buf) ==
    add' = [add EXCEPT ![a] = [pc |-> pc, name |-> @.name, uid |-> @.uid, pw |-> @.pw, buf |-> buf]]

(* append_line, three times a program's step: read the file and add the    *)
(* line; open it for writing, which truncates it; write it.                *)
Read(a, from, to, file, line) ==
    /\ add[a].pc = from
    /\ IF Len(file) >= FileCap THEN Quit(a, from # "typed")
       ELSE Step(a, to, Append(file, line)) /\ UNCHANGED broken
    /\ UNCHANGED <<passwd, shadow, homes, added, shells, asked>>

ReadPasswd(a) == Read(a, "typed", "truncating", passwd, [name |-> add[a].name, uid |-> add[a].uid])

ReadShadow(a) == Read(a, "listed", "truncating2", shadow, [name |-> add[a].name, pw |-> add[a].pw])

Truncate(a) ==
    /\ \/ add[a].pc = "truncating" /\ passwd' = <<>> /\ Step(a, "writing", add[a].buf) /\ UNCHANGED shadow
       \/ add[a].pc = "truncating2" /\ shadow' = <<>> /\ Step(a, "writing2", add[a].buf) /\ UNCHANGED passwd
    /\ UNCHANGED <<homes, added, broken, shells, asked>>

Write(a) ==
    /\ \/ add[a].pc = "writing" /\ passwd' = add[a].buf /\ Step(a, "listed", <<>>) /\ UNCHANGED shadow
       \/ add[a].pc = "writing2" /\ shadow' = add[a].buf /\ Step(a, "homeless", <<>>) /\ UNCHANGED passwd
    /\ UNCHANGED <<homes, added, broken, shells, asked>>

WriteFails(a) ==
    /\ DiskFails /\ add[a].pc \in {"writing", "writing2"}
    /\ Quit(a, TRUE) /\ UNCHANGED <<passwd, shadow, homes, added, shells, asked>>

(* mkdir may find the directory there; chown and chmod apply anyway.       *)
ownerKept(h, n, u) == IF n \in DOMAIN h THEN h ELSE [d \in DOMAIN h \cup {n} |-> IF d = n THEN 0 ELSE h[d]]

ownerOf(h, n, u) == [d \in DOMAIN h \cup {n} |-> IF d = n THEN u ELSE h[d]]

MakeHome(a) ==
    /\ add[a].pc = "homeless"
    /\ homes' = ownerOf(homes, add[a].name, add[a].uid)
    /\ added' = added \cup {add[a].name} /\ Quit(a, FALSE)
    /\ UNCHANGED <<passwd, shadow, shells, asked>>

-----------------------------------------------------------------------------
(* su: who is meant, the password unless root asks, the uid, a shell.      *)

setuid(old, new) == IF old # 0 /\ new # old THEN old ELSE new

expected(n) == IF lookup(shadow, n) # <<>> THEN lookup(shadow, n)[1].pw ELSE "x"

Su(n, typed) ==
    LET to == lookup(passwd, n)
        right == Uid = 0 \/ typed = expected(n)
        got == setuid(Uid, to[1].uid)
    IN  /\ to # <<>> /\ (right /\ got = to[1].uid => Len(shells) < MaxShells)
        /\ asked' = <<right, to[1].uid, IF right THEN got ELSE Uid>>
        /\ shells' = IF right /\ got = to[1].uid THEN Append(shells, got) ELSE shells
        /\ UNCHANGED <<passwd, shadow, homes, add, added, broken>>

ExitShell ==
    /\ Len(shells) > 1 /\ shells' = Front(shells) /\ asked' = <<>>
    /\ UNCHANGED <<passwd, shadow, homes, add, added, broken>>

vos_home_dir(uid) ==
    LET mine == {i \in DOMAIN passwd : i <= HomeCap /\ passwd[i].uid = uid}
    IN  IF mine # {} THEN passwd[Min(mine)].name ELSE IF uid = 0 THEN "root" ELSE "/"

-----------------------------------------------------------------------------
AccountsNext ==
    \/ \E a \in Adders :
         \/ \E n \in Names, g \in {{}} \cup {{u} : u \in Explicit} : Check(a, n, g)
         \/ \E p1, p2 \in Passwords : TypePasswords(a, p1, p2)
         \/ ReadPasswd(a) \/ ReadShadow(a) \/ Truncate(a) \/ Write(a) \/ WriteFails(a) \/ MakeHome(a)
    \/ \E n \in Names \cup {"root"}, p \in Passwords : Su(n, p)
    \/ ExitShell

AccountsTypeOK ==
    /\ NamesIn(passwd) \subseteq Names \cup {"root"} /\ UidsIn(passwd) \subseteq 0..LastUid
    /\ shells \in Seq(0..LastUid) /\ broken \in BOOLEAN

(***************************************************************************)
(* While one adduser runs at a time: no two accounts share a name or a     *)
(* uid, no account once reported is lost, each has its password entry and  *)
(* owns its home, and vos_home_dir finds that home for its uid, unless a   *)
(* write failed half-way (append_line, next_free_uid, uid_in_use).         *)
(***************************************************************************)
AccountsExact ==
    NobodyAdds /\ ~broken =>
        /\ \A i, j \in DOMAIN passwd :
             i # j => passwd[i].name # passwd[j].name /\ passwd[i].uid # passwd[j].uid
        /\ added \subseteq NamesIn(passwd)
        /\ \A i \in DOMAIN passwd :
             /\ passwd[i].name \in NamesIn(shadow) /\ homes[passwd[i].name] = passwd[i].uid
             /\ i <= HomeCap => vos_home_dir(passwd[i].uid) = passwd[i].name
=============================================================================
