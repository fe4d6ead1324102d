------------------------------- MODULE Shell --------------------------------
(***************************************************************************)
(* The shell: its line editor and the commands it runs.                    *)
(***************************************************************************)
EXTENDS Integers, Sequences, SequencesExt, FiniteSetsExt

(***************************************************************************)
(* The shell's line editor (user/sh.c): readline_raw with history, erase   *)
(* and tab completion.  The buffer is kept with what is left behind the    *)
(* end of the line, since completion compares past it; NUL ends it.       *)
(* The screen row is what the echoed bytes make of it.                     *)
(***************************************************************************)
CONSTANTS Chars,     \* printable bytes, " " among them or not
          Cap,       \* longest line, LINE_CAP - 1
          HistCap,   \* HIST_CAP
          Entries,   \* names in /bin, a sequence
          MaxLines   \* bound on the lines entered

VARIABLES buf, len, row,               \* the line, and the row on the screen
          hist, hist_head, hist_total, \* g_hist and its indices
          nav,                         \* hist_nav
          log                          \* every line added, for the properties

linevars == <<buf, len, row, hist, hist_head, hist_total, nav, log>>

NUL == ""

line == SubSeq(buf, 1, len)
at(s, i) == IF i <= Len(s) THEN s[i] ELSE NUL

LineInit ==
    /\ buf = [i \in 1..Cap + 1 |-> NUL] /\ len = 0 /\ row = <<>>
    /\ hist = [i \in 0..HistCap-1 |-> <<>>] /\ hist_head = 0 /\ hist_total = 0
    /\ nav = 0 /\ log = <<>>

\* buf with t written from position k + 1 on.
written(k, t) == [i \in DOMAIN buf |-> IF i > k /\ i <= k + Len(t) THEN t[i - k] ELSE buf[i]]

-----------------------------------------------------------------------------
(* History.                                                                *)

\* An empty line, or the line added last, is not added.
hist_add(l) ==
    IF l = <<>> \/ (hist_total > 0 /\ hist[(hist_head - 1) % HistCap] = l)
    THEN UNCHANGED <<hist, hist_head, hist_total, log>>
    ELSE /\ hist' = [hist EXCEPT ![hist_head] = l]
         /\ hist_head' = (hist_head + 1) % HistCap
         /\ hist_total' = hist_total + 1
         /\ log' = Append(log, l)

\* Fault variant: entries that were overwritten are still offered.
hist_hasAll(back) == back >= 1 /\ back <= hist_total

hist_has(back) == back >= 1 /\ back <= hist_total /\ back <= HistCap
hist_get(back) == hist[(hist_head - back) % HistCap]

-----------------------------------------------------------------------------
(* Keys.                                                                   *)

\* Enter, then the prompt again: the next line starts empty.
Enter ==
    /\ Len(log) < MaxLines
    /\ hist_add(line)
    /\ buf' = [buf EXCEPT ![len + 1] = NUL] /\ len' = 0 /\ row' = <<>> /\ nav' = 0

CtrlC ==
    /\ buf' = [buf EXCEPT ![1] = NUL] /\ len' = 0 /\ row' = <<>> /\ nav' = 0
    /\ UNCHANGED <<hist, hist_head, hist_total, log>>

CtrlU ==
    /\ row' = SubSeq(row, 1, Len(row) - len) /\ len' = 0 /\ nav' = 0
    /\ UNCHANGED <<buf, hist, hist_head, hist_total, log>>

Backspace ==
    /\ len > 0
    /\ len' = len - 1 /\ row' = Front(row)
    /\ UNCHANGED <<buf, hist, hist_head, hist_total, nav, log>>

Printable(c) ==
    /\ len < Cap
    /\ buf' = written(len, <<c>>) /\ len' = len + 1 /\ row' = Append(row, c) /\ nav' = 0
    /\ UNCHANGED <<hist, hist_head, hist_total, log>>

\* Fault variant: the row is not rubbed out first.
rubbedNone == row

rubbed == SubSeq(row, 1, Len(row) - len)

replace_line(t) ==
    /\ buf' = written(0, t) /\ len' = Len(t)
    /\ row' = rubbed \o t
    /\ UNCHANGED <<hist, hist_head, hist_total, log>>

Up ==
    /\ hist_has(nav + 1)
    /\ nav' = nav + 1
    /\ replace_line(hist_get(nav + 1))

\* Down from the newest entry clears the line.
Down ==
    /\ nav > 0
    /\ nav' = nav - 1
    /\ replace_line(IF nav = 1 THEN <<>> ELSE hist_get(nav - 1))

-----------------------------------------------------------------------------
(* Tab completion of a command.                                            *)

\* strncmp(a, b, n) = 0 for the shell's own strncmp.  Its counter is 0 after
\* the loop exactly when the loop stops at the last byte compared, which it
\* takes for "all equal"; when all n bytes are equal the counter has wrapped
\* and the bytes after them decide.
strncmpZero(a, b, n) ==
    LET stops == {i \in 1..n : at(a, i) = NUL \/ at(a, i) # at(b, i)} IN
    IF stops # {} THEN Min(stops) = n ELSE at(a, n + 1) = at(b, n + 1)

tokStart == Max({0} \cup {i \in 1..len : buf[i] = " "})
prefix_len == len - tokStart
tok == SubSeq(buf, tokStart + 1, Len(buf))

\* matches: the entries that compare equal to the token's prefix_len bytes.
matches == SelectSeq(Entries, LAMBDA e : prefix_len = 0 \/ strncmpZero(e, tok, prefix_len))

\* One match: its missing characters are appended.  Several: they are listed,
\* prompt and line are written again.
tab_complete ==
    /\ matches # <<>>
    /\ IF Len(matches) = 1
       THEN \E rest \in {SubSeq(matches[1], prefix_len + 1, Len(matches[1]))} :
            \E add \in {SubSeq(rest, 1, Min({Len(rest), Cap - len}))} :
              buf' = written(len, add) /\ len' = len + Len(add) /\ row' = row \o add
       ELSE row' = line /\ UNCHANGED <<buf, len>>
    /\ UNCHANGED <<hist, hist_head, hist_total, nav, log>>

LineNext ==
    \/ Enter \/ CtrlC \/ CtrlU \/ Backspace \/ Up \/ Down \/ tab_complete
    \/ \E c \in Chars : Printable(c)

-----------------------------------------------------------------------------
\* State is well typed.
LineTypeOK ==
    /\ len \in 0..Cap /\ hist_head \in 0..HistCap-1 /\ hist_total \in 0..MaxLines
    /\ nav \in 0..hist_total

\* What stands on the screen is the line that Enter will run.
RowIsLine == row = line

\* Going back in the history gives the lines in the order they were entered,
\* as far as the ring reaches and no further.
HistoryInOrder ==
    \A back \in 1..MaxLines :
        hist_has(back) => hist_get(back) = log[Len(log) - back + 1]

-----------------------------------------------------------------------------
(***************************************************************************)
(* Directories and commands of the shell (user/sh.c) with the system calls *)
(* they use (kernel/src/process.c): the shell keeps its own copy of the    *)
(* working directory, normalises paths byte by byte, starts programs and   *)
(* waits for those in the foreground; ls -R walks a tree with one global   *)
(* list of entries.                                                        *)
(***************************************************************************)
CONSTANTS Tree,    \* directories, each a sequence of names (a name is a sequence of bytes)
          Args,    \* arguments of cd, sequences of bytes
          MaxCds

VARIABLES g_cwd,    \* the shell's copy
          cwd,      \* process->cwd
          want,     \* the directory a reader of the commands expects
          program,  \* what the last command started, and from where
          job,      \* foreground child
          last_exit, cds

shellvars == <<g_cwd, cwd, want, program, job, last_exit, cds>>

Slash == "/"
charAt(s, i) == IF i <= Len(s) THEN s[i] ELSE ""

\* The names of a path, as the file system walks it: empty ones are skipped.
names(s) ==
    SelectSeq(FoldLeft(LAMBDA acc, c : IF c = Slash THEN Append(acc, <<>>)
                                       ELSE [acc EXCEPT ![Len(acc)] = Append(@, c)],
                       <<<<>>>>, s),
              LAMBDA n : n # <<>>)

\* vfs_stat_path: a directory of that path.
isDirectory(s) == names(s) \in Tree

-----------------------------------------------------------------------------

\* while (out > path && *--out != '/'): the last component is dropped.
backUp(out) == SubSeq(out, 1, Max({1} \cup {i \in 1..Len(out) : out[i] = Slash}) - 1)

\* Fault variant: ".." is not told from a name that begins with it.
dotdotAny(s, i) == charAt(s, i + 1) = "." /\ charAt(s, i + 2) = "."

dotdot(s, i) == charAt(s, i + 1) = "." /\ charAt(s, i + 2) = "." /\ charAt(s, i + 3) \in {Slash, ""}

\* normalize_path: the loop from byte i with what is written so far, and the
\* trailing slash.
RECURSIVE normalized(_, _, _)
normalized(s, i, out) ==
    IF i > Len(s) THEN
        IF out = <<>> THEN <<Slash>>
        ELSE IF Len(out) > 1 /\ Last(out) = Slash THEN Front(out) ELSE out
    ELSE IF s[i] = Slash /\ dotdot(s, i) THEN normalized(s, i + 3, backUp(out))
    ELSE IF s[i] = Slash /\ charAt(s, i + 1) = "." /\ charAt(s, i + 2) \in {Slash, ""}
         THEN normalized(s, i + 2, out)
    ELSE normalized(s, i + 1, Append(out, s[i]))

normalize_path(s) == normalized(s, 1, <<>>)

\* The path cmd_cd builds: an absolute one as it is, others after g_cwd.
joined(path) ==
    IF charAt(path, 1) = Slash THEN path
    ELSE (IF Last(g_cwd) = Slash THEN g_cwd ELSE Append(g_cwd, Slash)) \o path

\* What cd means: names one by one, "." and ".." with their meaning.
resolve(from, path) ==
    FoldLeft(LAMBDA d, n : IF n = <<".">> THEN d
                           ELSE IF n = <<".", ".">> THEN (IF d = <<>> THEN d ELSE Front(d))
                           ELSE Append(d, n),
             IF charAt(path, 1) = Slash THEN <<>> ELSE from, names(path))

ShellInit ==
    /\ g_cwd = <<Slash>> /\ cwd = <<Slash>> /\ want = <<>>
    /\ program = [path |-> <<>>, from |-> <<>>] /\ job = "none" /\ last_exit = 0 /\ cds = 0

\* cmd_cd with SYS_CHDIR: on success kernel and shell store the same string.
\* With no argument, "/".
cmd_cd(path) ==
    /\ job = "none" /\ cds < MaxCds /\ cds' = cds + 1
    /\ \E b \in {normalize_path(joined(IF path = <<>> THEN <<Slash>> ELSE path))} :
         IF isDirectory(b)
         THEN g_cwd' = b /\ cwd' = b
         ELSE UNCHANGED <<g_cwd, cwd>>
    /\ \E d \in {resolve(want, IF path = <<>> THEN <<Slash>> ELSE path)} :
         want' = IF d \in Tree THEN d ELSE want
    /\ UNCHANGED <<program, job, last_exit>>

\* execute_command for a program: ./name in g_cwd, an absolute path, or a name
\* in /bin; a failed spawn sets $?, a background program does not.
execute_command(form, bg, ok) ==
    /\ job = "none"
    /\ program' = [path |-> IF form = "dot" THEN Append(IF Last(g_cwd) = Slash THEN g_cwd
                                                        ELSE Append(g_cwd, Slash), "x")
                            ELSE IF form = "absolute" THEN <<Slash, "x">>
                            ELSE <<Slash, "b", Slash, "x">>,
                   from |-> IF form = "dot" THEN want
                            ELSE IF form = "absolute" THEN <<>> ELSE <<<<"b">>>>]
    /\ last_exit' = IF ok THEN last_exit ELSE -2
    /\ job' = IF ok /\ ~bg THEN "foreground" ELSE "none"
    /\ UNCHANGED <<g_cwd, cwd, want, cds>>

\* waitpid returns.
ChildExits(code) ==
    /\ job = "foreground"
    /\ job' = "none" /\ last_exit' = code
    /\ UNCHANGED <<g_cwd, cwd, want, program, cds>>

ShellNext ==
    \/ \E path \in Args : cmd_cd(path)
    \/ \E form \in {"dot", "absolute", "bin"}, bg, ok \in BOOLEAN : execute_command(form, bg, ok)
    \/ \E code \in {0, 1} : ChildExits(code)

-----------------------------------------------------------------------------
(* ls -R.                                                                  *)

\* Subdirectories of d in the order they are listed.
kids(d) == IF d \in Tree
           THEN SetToSortSeq({n \in {t[Len(t)] : t \in Tree \ {<<>>}} : Append(d, n) \in Tree},
                             LAMBDA a, b : Len(a) < Len(b))
           ELSE <<>>

\* ls_dir fills the global g_ls, prints, and recurses for each entry of g_ls,
\* which the recursion has filled anew.
RECURSIVE ls_dir(_)
RECURSIVE lsLoop(_, _, _)
lsLoop(d, i, s) ==
    IF i > Len(s.g_ls) THEN s
    ELSE \* the name at i now, under this directory's path
         LET r == ls_dir(Append(d, s.g_ls[i])) IN
         lsLoop(d, i + 1, [g_ls |-> r.g_ls, listed |-> s.listed \o r.listed])
ls_dir(d) == lsLoop(d, 1, [g_ls |-> kids(d), listed |-> <<d>>])

-----------------------------------------------------------------------------
\* State is well typed.
ShellTypeOK ==
    /\ job \in {"none", "foreground"} /\ last_exit \in {0, 1, -2}
    /\ \A i \in DOMAIN g_cwd : g_cwd[i] \in STRING

\* The prompt shows the kernel's working directory, it is the directory that
\* the cd commands lead to, and ./name starts the program of that directory.
CwdAgrees ==
    /\ g_cwd = cwd
    /\ names(g_cwd) = want
    /\ program.path # <<>> => names(Front(program.path)) = program.from
=============================================================================
