---------------------------- MODULE FileBrowser ----------------------------
(***************************************************************************)
(* The file browser (user/filebrowser) and the file picker it doubles as.  *)
(*   Browse  one window: the directory shown, its listing, the selection,  *)
(*           the context menu and the back/forward history;                *)
(*   Pick    the handshake of vui_file_dialog (user/vexui.c): a program    *)
(*           spawns the browser with the name of a result file, waits for  *)
(*           it to exit and reads the chosen path back;                    *)
(*   Type    the table of file type associations.                          *)
(* An entry is a record [name, dir]; a name is a number, so that the       *)
(* alphabetical order of the listing is the order of the numbers.          *)
(***************************************************************************)
EXTENDS Integers, Sequences, SequencesExt, FiniteSets

CONSTANTS Paths,      \* directories that exist, the root first
          Up,         \* the parent of each
          Entries,    \* entries that may be in a directory
          Disk,       \* the order readdir returns them in
          NewNames,   \* "New Folder", "New Folder (1)", ...
          HistCap,    \* 64 history slots
          Files,      \* paths that can be picked
          TypeCap     \* 64 file type associations

VARIABLES cwd, hist, pos, there, listing, query, selected, menuOn
VARIABLES caller, stored, picked, answer
VARIABLES types, opened

bvars == <<cwd, hist, pos, there, listing, query, selected, menuOn>>
pvars == <<caller, stored, picked, answer>>
tvars == <<types, opened>>

NoRow == 0

-----------------------------------------------------------------------------
(* The browser window.                                                     *)

(* compare_entries: directories first, then by name.                       *)
compare_entries(a, b) == IF a.dir # b.dir THEN a.dir ELSE a.name <= b.name

swapped(s, j) == [s EXCEPT ![j] = s[j + 1], ![j + 1] = s[j]]

bubblePass(s, last) ==
    LET B[j \in 0..last] ==
          IF j = 0 THEN s
          ELSE IF compare_entries(B[j - 1][j], B[j - 1][j + 1]) THEN B[j - 1]
          ELSE swapped(B[j - 1], j)
    IN  B[last]

bubbledShort(s) ==
    LET P[i \in 0..Len(s)] ==
          IF i = 0 \/ i >= Len(s) - 1 THEN s ELSE bubblePass(P[i - 1], Len(s) - i - 1)
    IN  IF Len(s) < 2 THEN s ELSE P[Len(s) - 2]

(* The sort of refresh_files: pass i compares the first Len - i pairs.     *)
bubbled(s) ==
    LET P[i \in 0..Len(s)] == IF i = 0 THEN s ELSE bubblePass(P[i - 1], Len(s) - i)
    IN  P[Len(s)]

(* refresh_files: read the directory, sort, keep what the search matches.  *)
refresh_files(d, fs, q) ==
    SelectSeq(bubbled(SelectSeq(Disk, LAMBDA e : e \in fs[d])),
              LAMBDA e : q = 0 \/ e.name = q)

InRange(i) == i \in 1..Len(listing)

distinctNames(s) == \A e, f \in s : e.name = f.name => e = f

Init ==
    /\ cwd = Paths[1] /\ hist = <<Paths[1]>> /\ pos = 1
    /\ there \in [Range(Paths) -> {s \in SUBSET Entries : distinctNames(s)}]
    /\ query = 0 /\ listing = refresh_files(cwd, there, query)
    /\ selected = NoRow /\ menuOn = NoRow

show(d) == cwd' = d /\ listing' = refresh_files(d, there, query) /\ selected' = NoRow

(* navigate(path, true): forward history is discarded; with all the slots  *)
(* used the directory is shown and not recorded.                           *)
recordedAfter(h, p, d) == IF p < HistCap THEN Append(h, d) ELSE h

recorded(h, p, d) == IF p < HistCap THEN Append(SubSeq(h, 1, p), d) ELSE SubSeq(h, 1, p)

navigate(d) ==
    /\ show(d)
    /\ hist' = recorded(hist, pos, d)
    /\ pos' = IF pos < HistCap THEN pos + 1 ELSE pos
    /\ UNCHANGED <<there, query>>

(* Every press reaches on_click before the widget under it, so a toolbar,  *)
(* sidebar or breadcrumb press has taken the context menu down already.    *)
select_sidebar(d) == navigate(d) /\ menuOn' = NoRow

nav_up == cwd # Paths[1] /\ navigate(Up[cwd]) /\ menuOn' = NoRow

nav_back ==
    /\ pos > 1 /\ pos' = pos - 1 /\ show(hist[pos - 1]) /\ menuOn' = NoRow
    /\ UNCHANGED <<hist, there, query>>

nav_forward ==
    /\ pos < Len(hist) /\ pos' = pos + 1 /\ show(hist[pos + 1]) /\ menuOn' = NoRow
    /\ UNCHANGED <<hist, there, query>>

(* do_refresh, set_grid_view, on_resize: the selection stays where it is.  *)
do_refresh ==
    /\ listing' = refresh_files(cwd, there, query)
    /\ UNCHANGED <<cwd, hist, pos, there, query, selected, menuOn>>

(* A keystroke in the search field: selection and menu stay as they are.   *)
search_changed(q) ==
    /\ q # query /\ query' = q
    /\ listing' = refresh_files(cwd, there, q)
    /\ UNCHANGED <<cwd, hist, pos, there, selected, menuOn>>

(* create_new_folder: the first of the names that stat does not find.      *)
freeNames(d) == {k \in DOMAIN NewNames : \A e \in there[d] : e.name # NewNames[k]}

create_new_folder ==
    /\ \E k \in freeNames(cwd) :
         /\ \A j \in freeNames(cwd) : k <= j
         /\ there' = [there EXCEPT ![cwd] = @ \cup {[name |-> NewNames[k], dir |-> TRUE]}]
    /\ listing' = refresh_files(cwd, there', query) /\ menuOn' = NoRow
    /\ UNCHANGED <<cwd, hist, pos, query, selected>>

(* open_selected: enter a directory; a file goes to its program (Type).    *)
open_selected(i) ==
    /\ InRange(i)
    /\ IF listing[i].dir THEN \E d \in Range(Paths) : Up[d] = cwd /\ navigate(d)
       ELSE UNCHANGED <<cwd, hist, pos, there, query, listing, selected>>

(* on_click on a row: the first click selects it, the second opens it.     *)
on_click(i) ==
    /\ InRange(i) /\ menuOn' = NoRow
    /\ IF i = selected THEN open_selected(i)
       ELSE selected' = i /\ UNCHANGED <<cwd, hist, pos, there, query, listing>>

right_click(i) ==
    /\ InRange(i) /\ menuOn = NoRow /\ selected' = i /\ menuOn' = i
    /\ UNCHANGED <<cwd, hist, pos, there, query, listing>>

(* A press in the open menu: Open opens the selection, Rename does         *)
(* nothing; a press outside the menu only takes it down.                   *)
menuOpen == menuOn # NoRow /\ menuOn' = NoRow /\ InRange(menuOn) /\ open_selected(selected)

menuDismiss ==
    /\ menuOn # NoRow /\ menuOn' = NoRow
    /\ UNCHANGED <<cwd, hist, pos, there, query, listing, selected>>

(* Delete unlinks the entry in the menu's row; unlink refuses a directory. *)
menuDelete ==
    /\ menuOn # NoRow /\ InRange(menuOn) /\ menuOn' = NoRow
    /\ there' = [there EXCEPT ![cwd] = @ \ {e \in {listing[menuOn]} : ~e.dir}]
    /\ listing' = refresh_files(cwd, there', query) /\ selected' = NoRow
    /\ UNCHANGED <<cwd, hist, pos, query>>

Next ==
    \/ nav_up \/ nav_back \/ nav_forward \/ do_refresh \/ create_new_folder
    \/ menuOpen \/ menuDismiss \/ menuDelete
    \/ \E d \in Range(Paths) : select_sidebar(d)
    \/ \E q \in {0} \cup {e.name : e \in Entries} : search_changed(q)
    \/ \E i \in 1..Cardinality(Entries) : on_click(i) \/ right_click(i)

TypeOK ==
    /\ cwd \in Range(Paths) /\ pos \in 1..Len(hist) /\ Len(hist) <= HistCap
    /\ {selected, menuOn} \subseteq 0..Cardinality(Entries)

(***************************************************************************)
(* The rows are the entries of the directory shown that match the search,  *)
(* each once, folders first and then by name, whatever order readdir gave  *)
(* and whatever was done before (refresh_files and its bubble sort); and a *)
(* new folder never takes the name of an entry that is there.              *)
(***************************************************************************)
ListingExact ==
    /\ Range(listing) = {e \in there[cwd] : query = 0 \/ e.name = query}
    /\ Len(listing) = Cardinality(Range(listing))
    /\ \A i, j \in DOMAIN listing :
         i < j => /\ listing[j].dir => listing[i].dir
                  /\ listing[i].dir = listing[j].dir => listing[i].name < listing[j].name
    /\ distinctNames(there[cwd])

(***************************************************************************)
(* Back and forward start from the directory shown: as long as a slot was  *)
(* free, the current position of the history is the current directory.    *)
(***************************************************************************)
HistoryKnowsWhereYouAre == pos < HistCap => hist[pos] = cwd

-----------------------------------------------------------------------------
(* vui_file_dialog: the caller and the picker share a file /tmp/fdr.PID.   *)

Absent == <<>>
Text(p) == <<p>>          \* a file holding the path p; <<"">> is an empty file
NoAnswer == <<>>

PickInit ==
    /\ caller = "idle" /\ stored \in {Absent} \cup {Text(p) : p \in Files}
    /\ picked = NoAnswer /\ answer = NoAnswer

(* A start directory too long for the argument, or with a ';' in it, costs *)
(* the picker the name of the result file.                                 *)
oldKept == stored

oldRemoved == Absent

vui_file_dialog(start) ==
    /\ caller = "idle" /\ stored' = oldRemoved
    /\ picked' = NoAnswer /\ answer' = NoAnswer
    /\ \/ caller' = start \/ caller' = "idle"              \* or spawn failed

(* dialog_finish: fopen "w", fwrite, fclose, exit(0); the file may not     *)
(* open, and the disk may have no room for the text.                       *)
dialog_finish(p) ==
    /\ caller \in {"plain", "cut"} /\ caller' = "exited"
    /\ \/ /\ caller = "plain" /\ stored' = Text(p) /\ picked' = Text(p)
       \/ /\ caller = "plain" /\ stored' \in {stored, Text("")} /\ UNCHANGED picked
       \/ /\ caller = "cut" /\ UNCHANGED <<stored, picked>>
    /\ UNCHANGED answer

(* dialog_cancel, a closed window or a killed picker leave no result.      *)
dialog_cancel ==
    /\ caller \in {"plain", "cut"} /\ caller' = "exited" /\ UNCHANGED <<stored, picked, answer>>

pickReturns ==
    /\ caller = "exited" /\ caller' = "idle"
    /\ IF stored \in {Absent, Text("")} THEN answer' = NoAnswer /\ UNCHANGED stored
       ELSE answer' = stored /\ stored' = Absent
    /\ UNCHANGED picked

PickNext ==
    \/ \E s \in {"plain", "cut"} : vui_file_dialog(s)
    \/ \E p \in Files : dialog_finish(p)
    \/ dialog_cancel \/ pickReturns

(***************************************************************************)
(* vui_file_dialog returns the path picked in this very dialog, or nothing *)
(* when it was cancelled, killed or could not be stored: never the result  *)
(* file of an earlier dialog.                                              *)
(***************************************************************************)
DialogAnswers == caller = "idle" => answer = picked

-----------------------------------------------------------------------------
(* File type associations: <<extension, program, who>> in load order.      *)

Lines == {"txt", "md"} \X {"edit", "view"}

(* load_filetypes: /etc/filetypes, then the user's file, at most 64 lines. *)
load_filetypes(sys, usr) == SubSeq(sys \o usr, 1, IF Len(sys \o usr) < TypeCap
                                                   THEN Len(sys \o usr) ELSE TypeCap)

(* resolve_file_action: the first line with the extension.                 *)
resolve_file_action(tab, ext) ==
    LET hits == {i \in DOMAIN tab : tab[i][1] = ext}
    IN  IF hits = {} THEN "" ELSE tab[CHOOSE i \in hits : \A j \in hits : i <= j][2]

TypeInit == types = [sys |-> <<>>, usr |-> <<>>] /\ opened = ""

TypeNext ==
    \/ /\ \E l \in Lines, who \in {"sys", "usr"} :
            Len(types[who]) < 2 /\ types' = [types EXCEPT ![who] = Append(@, l)]
       /\ opened' = ""
    \/ \E e \in {"txt", "md"} :
         /\ opened' = resolve_file_action(load_filetypes(types.sys, types.usr), e)
         /\ UNCHANGED types

(***************************************************************************)
(* An extension that only the user's file names is opened with the user's  *)
(* program, and one that no file names with none, whatever other lines     *)
(* /etc/filetypes holds, as long as the table of load_filetypes is not cut *)
(* off.                                                                    *)
(***************************************************************************)
OpensAsAssociated ==
    \A e \in {"txt", "md"} :
        /\ resolve_file_action(types.sys, e) = ""
        /\ Len(types.sys) + Len(types.usr) <= TypeCap
        => resolve_file_action(load_filetypes(types.sys, types.usr), e)
             = resolve_file_action(types.usr, e)
=============================================================================
