------------------------------ MODULE Terminal ------------------------------
(***************************************************************************)
(* The terminal program (user/terminal) and the task manager               *)
(* (user/taskmgr): three machines that share nothing.                      *)
(*                                                                         *)
(* Grid   TextGrid: a ring of lines fed with bytes, and the rows its       *)
(*        render() paints for a view scrolled into the past.               *)
(* Line   Terminal::on_key: the line editor, the history, and the row of   *)
(*        the screen it keeps up to date by echoing bytes to the grid.     *)
(* Tasks  TaskManager::refresh over the kernel's process slots.            *)
(***************************************************************************)
EXTENDS Integers, FiniteSetsExt, SequencesExt

CONSTANTS MaxCols, Scrollback, TabWidth,
          Sizes,      \* <<columns, rows>> the window is resized to
          MaxBytes,   \* bound on the bytes written to the grid
          MaxLines    \* bound on the lines of the grid

VARIABLES ring, cols, rows, curLine, curC, view,
          tab,        \* a tab in progress: the column it goes to and the cells
                      \* it has filled; 0 as the column between bytes
          text,       \* every line ever begun, for comparison
          fed         \* bytes so far

gvars == <<ring, cols, rows, curLine, curC, view, tab, text, fed>>

Blank == [c \in 1 .. MaxCols |-> 0]
NoTab == [to |-> 0, n |-> 0]

Init ==
    /\ ring = [s \in 0 .. Scrollback - 1 |-> Blank]
    /\ \E s \in Sizes : cols = s[1] /\ rows = s[2]
    /\ curLine = 0 /\ curC = 0 /\ view = 0
    /\ tab = NoTab /\ text = <<Blank>> /\ fed = 0

\* The ring slot of a line, the first line still kept, and how far the view
\* may be scrolled.
line(l) == ring[l % Scrollback]
oldestOff == IF curLine - Scrollback < 0 THEN 0 ELSE curLine - Scrollback
oldest == IF curLine - Scrollback + 1 < 0 THEN 0 ELSE curLine - Scrollback + 1
max_view_off == LET extra == curLine - oldest + 1 - rows IN IF extra > 0 THEN extra ELSE 0

newline ==
    /\ curC' = 0
    /\ curLine' = curLine + 1
    /\ ring' = [ring EXCEPT ![(curLine + 1) % Scrollback] = Blank]
    /\ text' = Append(text, Blank)

\* put() of a printable byte; a full line moves on to the next.
put(c) ==
    /\ view' = 0
    /\ LET full == [line(curLine) EXCEPT ![curC + 1] = c]
       IN  IF curC + 1 >= cols
           THEN /\ curC' = 0
                /\ curLine' = curLine + 1
                /\ ring' = [ring EXCEPT ![curLine % Scrollback] = full,
                                        ![(curLine + 1) % Scrollback] = Blank]
                /\ text' = Append([text EXCEPT ![curLine + 1] = full], Blank)
           ELSE /\ curC' = curC + 1
                /\ ring' = [ring EXCEPT ![curLine % Scrollback] = full]
                /\ text' = [text EXCEPT ![curLine + 1] = full]
                /\ UNCHANGED curLine

Feed == tab = NoTab /\ fed < MaxBytes /\ curLine < MaxLines /\ fed' = fed + 1

\* The n-th byte is printed as n.
Put == Feed /\ put(fed + 1) /\ UNCHANGED <<cols, rows, tab>>

Newline == Feed /\ newline /\ view' = 0 /\ UNCHANGED <<cols, rows, tab>>

CarriageReturn ==
    /\ Feed
    /\ curC' = 0 /\ view' = 0
    /\ UNCHANGED <<ring, cols, rows, curLine, tab, text>>

Backspace ==
    /\ Feed
    /\ view' = 0
    /\ IF curC = 0 THEN UNCHANGED <<ring, curC, text>>
       ELSE /\ curC' = curC - 1
            /\ ring' = [ring EXCEPT ![curLine % Scrollback][curC] = 0]
            /\ text' = [text EXCEPT ![curLine + 1][curC] = 0]
    /\ UNCHANGED <<cols, rows, curLine, tab>>

Tab ==
    /\ Feed
    /\ tab' = [to |-> (curC \div TabWidth + 1) * TabWidth, n |-> 0]
    /\ UNCHANGED <<ring, cols, rows, curLine, curC, view, text>>

\* while (cur_c_ < next) put(' ')
TabStep ==
    /\ tab # NoTab
    /\ curLine < MaxLines
    /\ IF curC < tab.to
       THEN put(0) /\ tab' = [tab EXCEPT !.n = @ + 1]
       ELSE tab' = NoTab /\ UNCHANGED <<ring, curLine, curC, view, text>>
    /\ UNCHANGED <<cols, rows, fed>>

scroll_view(d) ==
    /\ tab = NoTab
    /\ view' = LET v == view + d
               IN  CASE v < 0 -> 0 [] v > max_view_off -> max_view_off [] OTHER -> v
    /\ UNCHANGED <<ring, cols, rows, curLine, curC, tab, text, fed>>

resize(s) ==
    /\ tab = NoTab
    /\ cols' = s[1] /\ rows' = s[2]
    /\ curC' = IF curC >= s[1] THEN s[1] - 1 ELSE curC
    /\ UNCHANGED <<ring, curLine, view, tab, text, fed>>

Next ==
    \/ Put \/ Newline \/ CarriageReturn \/ Backspace \/ Tab \/ TabStep
    \/ \E d \in {-1, 1} : scroll_view(d)
    \/ \E s \in Sizes : resize(s)

\* The cells render() paints in a row, counted from the top.
painted(r) ==
    LET l == curLine - view - (rows - 1) + r
    IN  IF l < oldest \/ l > curLine THEN [c \in 1 .. cols |-> 0]
        ELSE [c \in 1 .. cols |-> line(l)[c]]

\* What the window shows is what was written: row for row the last lines of
\* the text, shifted by the scrolled view, whatever the ring has overwritten;
\* and the cursor is in the window.
GridShows ==
    /\ curC < cols
    /\ \A r \in 0 .. rows - 1 :
           LET l == curLine - view - (rows - 1) + r
           IN  painted(r) = IF l >= 0 /\ l > curLine - Scrollback
                            THEN SubSeq(text[l + 1], 1, cols) ELSE [c \in 1 .. cols |-> 0]

-----------------------------------------------------------------------------
(* The line editor.  A cell is a character; " " is an empty one.           *)

CONSTANTS Chars, LineCap, MaxHistory, Width, MaxSent

VARIABLES typed, cursor, hist, idx, raw,
          row, at, base,   \* the row on the screen, its cursor, the column where the line began
          plain,           \* nothing was rubbed out, the cursor has stayed at the end, and
                           \* no output has mixed in
          sent             \* the lines the shell has been given

lvars == <<typed, cursor, hist, idx, raw, row, at, base, plain, sent>>

Empty == [c \in 1 .. Width |-> " "]

LineInit ==
    /\ typed = <<>> /\ cursor = 0 /\ hist = <<>> /\ idx = -1 /\ raw = FALSE
    /\ row = Empty /\ at = 0 /\ base = 0 /\ plain = TRUE /\ sent = <<>>

\* The row after echoing a string: "bs" steps back and blanks the cell, and a
\* full row is left for a fresh one.
echoed(scr, s) ==
    FoldLeft(LAMBDA r, ch :
                CASE ch # "bs" /\ r.at + 1 < Width ->
                        [row |-> [r.row EXCEPT ![r.at + 1] = ch], at |-> r.at + 1]
                  [] ch # "bs" /\ r.at + 1 >= Width -> [row |-> Empty, at |-> 0]
                  [] ch = "bs" /\ r.at > 0 ->
                        [row |-> [r.row EXCEPT ![r.at] = " "], at |-> r.at - 1]
                  [] OTHER -> r,
             scr, s)
Screen == [row |-> row, at |-> at]
Times(n) == [k \in 1 .. n |-> "bs"]
From(s, k) == SubSeq(s, k, Len(s))
Echo(s) == row' = echoed(Screen, s).row /\ at' = echoed(Screen, s).at

InsertKey(c) ==
    /\ ~raw /\ Len(typed) < LineCap
    /\ typed' = InsertAt(typed, cursor + 1, c)
    /\ cursor' = cursor + 1
    /\ Echo(From(typed', cursor + 1) \o Times(Len(typed') - cursor'))
    /\ UNCHANGED <<hist, idx, raw, base, plain, sent>>

Rubout ==
    /\ ~raw /\ cursor > 0
    /\ typed' = RemoveAt(typed, cursor)
    /\ cursor' = cursor - 1
    /\ Echo(From(typed', cursor) \o <<" ">> \o Times(Len(typed') - cursor' + 1))
    /\ plain' = FALSE
    /\ UNCHANGED <<hist, idx, raw, base, sent>>

Left ==
    /\ ~raw /\ cursor > 0
    /\ cursor' = cursor - 1
    /\ Echo(<<"bs">>)
    /\ plain' = FALSE
    /\ UNCHANGED <<typed, hist, idx, raw, base, sent>>

Right ==
    /\ ~raw /\ cursor < Len(typed)
    /\ cursor' = cursor + 1
    /\ Echo(<<typed[cursor + 1]>>)
    /\ UNCHANGED <<typed, hist, idx, raw, base, plain, sent>>

\* The old line is rubbed out from the cursor, the recalled one is echoed.
Recall(i) ==
    /\ idx' = i
    /\ typed' = IF i = -1 THEN <<>> ELSE hist[Len(hist) - i]
    /\ cursor' = Len(typed')
    /\ Echo(Times(Len(typed)) \o typed')
    /\ UNCHANGED <<hist, raw, base, plain, sent>>

Up   == ~raw /\ idx < Len(hist) - 1 /\ Recall(idx + 1)
Down == ~raw /\ idx >= 0 /\ Recall(idx - 1)

rememberedAll == Append(hist, typed)

\* The history keeps the newest lines.
remembered ==
    CASE typed = <<>>            -> hist
      [] Len(hist) < MaxHistory  -> Append(hist, typed)
      [] OTHER                   -> Append(Tail(hist), typed)

send_line ==
    /\ ~raw /\ Len(sent) < MaxSent
    /\ hist' = remembered
    /\ idx' = -1
    /\ sent' = Append(sent, typed)
    /\ typed' = <<>> /\ cursor' = 0
    /\ row' = Empty /\ at' = 0 /\ base' = 0 /\ plain' = TRUE
    /\ UNCHANGED raw

\* Output of the shell, its prompt among it, is written where the cursor is.
pump_output ==
    /\ Echo(<<"$">>)
    /\ base' = IF typed = <<>> THEN at' ELSE base
    /\ plain' = (plain /\ typed = <<>> /\ at' + LineCap < Width)
    /\ UNCHANGED <<typed, cursor, hist, idx, raw, sent>>

\* A program switches the pty to raw mode or back; in raw mode a key goes to
\* it and the editor is left alone.
SetRaw ==
    /\ raw' = ~raw
    /\ UNCHANGED <<typed, cursor, hist, idx, row, at, base, plain, sent>>

LineNext ==
    \/ \E c \in Chars : InsertKey(c)
    \/ Rubout \/ Left \/ Right \/ Up \/ Down \/ send_line \/ pump_output \/ SetRaw

SentLines == SelectSeq(sent, LAMBDA s : s # <<>>)

\* The history is the last lines the shell was given, in order; and as long as
\* nothing was rubbed out, the cursor has stayed at the end of the line and no
\* output has come in between, the row shows the line where it was begun, with
\* the screen's cursor behind it, through every recall.
LineShows ==
    /\ hist = From(SentLines, Max({1, Len(SentLines) - MaxHistory + 1}))
    /\ plain => /\ at = base + Len(typed)
                /\ \A k \in DOMAIN typed : row[base + k] = typed[k]
                /\ \A c \in at + 1 .. Width : row[c] = " "

-----------------------------------------------------------------------------
(* The task manager.  The kernel fills process slots and counts the ticks  *)
(* a process ran; refresh() takes a snapshot of every slot and keeps, for  *)
(* each slot, the ticks it saw there last.                                 *)

CONSTANTS Slots,      \* the slots of the process table, 1 .. n
          RowCap,     \* kRows
          MaxPid, MaxTicks

VARIABLES procs,      \* slot -> pid, ticks run, worker thread or not, name; pid 0 if empty
          lastPid, uptime, prevRun, prevUp,
          seen,       \* pid -> its ticks at the last refresh, for comparison
          was,        \* slot -> the pid there at the last refresh
          query,      \* the name typed into the search box, "" for none
          perf,       \* the PERFORMANCE tab is selected
          shown,      \* the visible rows: pid on the button, share shown, share due
          cards       \* the cards: processes, CPU share, and the shares of all processes

tvars == <<procs, lastPid, uptime, prevRun, prevUp, seen, was, query, perf, shown, cards>>

ProcNames == {"sh", "dock"}
NoProc == [pid |-> 0, run |-> 0, thread |-> FALSE, name |-> ""]
Pids == 1 .. MaxPid

TasksInit ==
    /\ procs = [s \in Slots |-> NoProc]
    /\ lastPid = 0 /\ uptime = 1 /\ prevUp = 0 /\ prevRun = [s \in Slots |-> 0]
    /\ seen = [p \in Pids |-> 0] /\ was = [s \in Slots |-> 0]
    /\ query = "" /\ perf = FALSE /\ shown = <<>>
    /\ cards = [count |-> 0, cpu |-> 0, all |-> 0]

Spawn(s, thread, name) ==
    /\ procs[s].pid = 0
    /\ lastPid < MaxPid
    /\ lastPid' = lastPid + 1
    /\ procs' = [procs EXCEPT ![s] = [pid |-> lastPid', run |-> 0, thread |-> thread, name |-> name]]
    /\ UNCHANGED <<uptime, prevRun, prevUp, seen, was, query, perf, shown, cards>>

Exit(s) ==
    /\ procs[s].pid # 0
    /\ procs' = [procs EXCEPT ![s] = NoProc]
    /\ UNCHANGED <<lastPid, uptime, prevRun, prevUp, seen, was, query, perf, shown, cards>>

\* A timer tick: the processes on the CPUs, at most one on each of two, ran.
Tick(S) ==
    /\ uptime < MaxTicks
    /\ Cardinality(S) <= 2 /\ \A s \in S : procs[s].pid # 0
    /\ uptime' = uptime + 1
    /\ procs' = [s \in Slots |-> IF s \in S THEN [procs[s] EXCEPT !.run = @ + 1] ELSE procs[s]]
    /\ UNCHANGED <<lastPid, prevRun, prevUp, seen, was, query, perf, shown, cards>>

sinceSlot(now, before) == IF now >= before THEN now - before ELSE now

Share(ticks, of) == Min({(ticks * 1000) \div of, 1000})
Least1(n) == IF n > 0 THEN n ELSE 1
SumOf(s, F(_)) == FoldLeft(LAMBDA n, x : n + F(x), 0, s)

runsOfKept(ps) == [s \in Slots |-> IF ps[s].pid # 0 /\ ~ps[s].thread THEN ps[s].run ELSE prevRun[s]]

\* The ticks remembered per slot: none where no process with a row is.
runsOf(ps) == [s \in Slots |-> IF ps[s].pid # 0 /\ ~ps[s].thread THEN ps[s].run ELSE 0]

\* The whole of refresh(), for the tab and the search text it finds.
Refreshed(ps, tabbed, q) ==
    LET elapsed == Least1(uptime - prevUp)
        table   == SelectSeq(SetToSortSeq(Slots, LAMBDA a, b : a < b),
                             LAMBDA s : ps[s].pid # 0 /\ ~ps[s].thread)
        share(s) == Share(sinceSlot(ps[s].run, prevRun[s]), elapsed)
        due(s)   == Share(ps[s].run - seen[ps[s].pid], elapsed)
        listed  == SelectSeq(table, LAMBDA s : q = "" \/ ps[s].name = q)
        kept    == IF tabbed THEN <<>> ELSE SubSeq(listed, 1, Min({Len(listed), RowCap}))
    IN  /\ shown' = [r \in DOMAIN kept |-> [pid |-> ps[kept[r]].pid, cpu |-> share(kept[r]),
                                             due |-> due(kept[r]), new |-> was[kept[r]] \notin {0, ps[kept[r]].pid}]]
        /\ cards' = [count |-> Len(table), cpu |-> SumOf(listed, share), all |-> SumOf(table, share)]
        /\ prevRun' = runsOf(ps)
        /\ prevUp' = uptime
        /\ seen' = [p \in Pids |-> IF \E s \in Slots : ps[s].pid = p
                                   THEN ps[CHOOSE s \in Slots : ps[s].pid = p].run ELSE seen[p]]
        /\ was' = [s \in Slots |-> ps[s].pid]

Refresh ==
    /\ Refreshed(procs, perf, query)
    /\ UNCHANGED <<procs, lastPid, uptime, query, perf>>

\* Typing in the search box and clicking a tab refresh at once.
Search(q) ==
    /\ query' = q
    /\ Refreshed(procs, perf, q)
    /\ UNCHANGED <<procs, lastPid, uptime, perf>>

SelectTab(p) ==
    /\ perf' = p
    /\ Refreshed(procs, p, query)
    /\ UNCHANGED <<procs, lastPid, uptime, query>>

\* KILL on a row: the pid is the one the row got at the last refresh.
KillRow(r) ==
    /\ r \in DOMAIN shown
    /\ procs' = [s \in Slots |-> IF procs[s].pid = shown[r].pid THEN NoProc ELSE procs[s]]
    /\ Refreshed(procs', perf, query)
    /\ UNCHANGED <<lastPid, uptime, query, perf>>

TasksNext ==
    \/ \E s \in Slots, t \in BOOLEAN, n \in ProcNames : Spawn(s, t, n)
    \/ \E s \in Slots : Exit(s)
    \/ \E S \in SUBSET Slots : Tick(S)
    \/ Refresh
    \/ \E q \in ProcNames \cup {""} : Search(q)
    \/ \E p \in BOOLEAN : SelectTab(p)
    \/ \E r \in 1 .. RowCap : KillRow(r)

\* A row shows the share of the time since the last refresh that its process
\* ran, unless its slot was given to another process in between; and no two
\* rows are of the same process.
SharesExact ==
    /\ \A r \in DOMAIN shown : shown[r].new \/ shown[r].cpu = shown[r].due
    /\ \A r, t \in DOMAIN shown : shown[r].pid = shown[t].pid => r = t
=============================================================================
