------------------------------- MODULE Panels -------------------------------
(***************************************************************************)
(* The desktop's own programs.                                             *)
(*   Bar     user/topbar: the menus of the focused program, the power      *)
(*           menu, and how much of the window each frame presents;         *)
(*   Spark   its ring of load samples and the curve drawn from it;         *)
(*   Dock    user/dock: starting programs and reordering them by dragging; *)
(*   Cursor  user/desktop.c: a pointer drawn over the picture it saves.    *)
(* The bar's window is two strips: the bar itself and the dropdown below.  *)
(***************************************************************************)
EXTENDS Integers, Sequences, SequencesExt, FiniteSets

CONSTANTS Menus,       \* programs -> menu bar: a sequence of "T", "D" and item names
          Ring,        \* samples kept
          MaxSamples,  \* bound on the samples taken
          Entries,     \* the dock's entries in their first order
          HoldTicks,   \* ticks before a press becomes a drag
          Lossy,       \* may the window's event queue drop a release?
          Screen, Cur  \* width of the picture and of the pointer

VARIABLES focus, status, redraw, openMenu, power, canvas, shown, lastTall, sent
VARIABLES samples, ringPos, full, taken
VARIABLES order, button, held, ticks, drag, target, launched, lost
VARIABLES pixels, last, under

bvars == <<focus, status, redraw, openMenu, power, canvas, shown, lastTall, sent>>
svars == <<samples, ringPos, full, taken>>
dvars == <<order, button, held, ticks, drag, target, launched, lost>>
cvars == <<pixels, last, under>>

-----------------------------------------------------------------------------
(* Bar: openMenu counts the titles from 1; 0 is no menu.                   *)

Titles(m) == {i \in DOMAIN m : m[i] = "T"}

title_item_index(m, k) ==
    IF k \in 1..Cardinality(Titles(m))
    THEN CHOOSE i \in Titles(m) : Cardinality({j \in Titles(m) : j <= i}) = k
    ELSE 0

(* The items of the k-th title: up to the next title or the end.           *)
itemsUnder(m, k) ==
    LET t == title_item_index(m, k)
        later == {i \in Titles(m) : i > t}
    IN  SubSeq(m, t + 1, IF later = {} THEN Len(m)
                         ELSE (CHOOSE i \in later : \A j \in later : i <= j) - 1)

(* render: the dropdown strip shows the open menu, or else the power menu. *)
render(o, p, f) ==
    [bar |-> <<f, o>>,
     low |-> IF o # 0 /\ o <= Cardinality(Titles(Menus[f])) THEN <<"menu", f, o>>
             ELSE IF o = 0 /\ p THEN <<"power">> ELSE <<"clear">>]

(* present: as tall as this frame or the last one needs.                   *)
presentTallShort(o, p) == o # 0 \/ p

presentTall(o, p) == o # 0 \/ p \/ lastTall

Init ==
    /\ focus \in DOMAIN Menus /\ status = focus /\ redraw = FALSE
    /\ openMenu = 0 /\ power = FALSE /\ sent = <<>>
    /\ canvas = render(0, FALSE, focus) /\ shown = canvas /\ lastTall = FALSE

(* A press reads the desktop's status again before it looks what it hit.   *)
Handled(o, p) ==
    /\ openMenu' = o /\ power' = p /\ status' = focus /\ redraw' = TRUE
    /\ UNCHANGED <<focus, canvas, shown, lastTall>>

(* handle_click, in its order: the power menu, the open menu, the power    *)
(* button, the logo, a title, and anywhere else closes what is open.       *)
ClickPowerMenu == power /\ Handled(openMenu, FALSE) /\ sent' = <<>>

ClickItem(r) ==
    LET items == itemsUnder(Menus[focus], openMenu)
    IN  /\ openMenu # 0 /\ Handled(0, FALSE)
        /\ sent' = IF r \in DOMAIN items /\ items[r] # "D" THEN <<focus, openMenu, items[r]>> ELSE <<>>

ClickPowerButton == Handled(0, TRUE) /\ sent' = <<>>

ClickTitle(k) ==
    /\ k <= Cardinality(Titles(Menus[focus]))
    /\ Handled(IF openMenu = k THEN 0 ELSE k, FALSE) /\ sent' = <<>>

ClickElsewhere == Handled(0, FALSE) /\ sent' = <<>>

Refocus(f) == focus' = f /\ sent' = <<>>
              /\ UNCHANGED <<status, redraw, openMenu, power, canvas, shown, lastTall>>

(* Once a second the status is read; another program's is drawn with the   *)
(* menu that is open.                                                      *)
FetchStatus ==
    /\ status' = focus /\ redraw' = (redraw \/ status' # status) /\ sent' = <<>>
    /\ UNCHANGED <<focus, openMenu, power, canvas, shown, lastTall>>

(* The end of the loop's turn, after any number of events.                 *)
Redraw ==
    /\ redraw /\ redraw' = FALSE /\ sent' = <<>>
    /\ canvas' = render(openMenu, power, status)
    /\ shown' = [bar |-> canvas'.bar,
                 low |-> IF presentTall(openMenu, power) THEN canvas'.low ELSE shown.low]
    /\ lastTall' = (openMenu # 0 \/ power)
    /\ UNCHANGED <<focus, status, openMenu, power>>

Next ==
    \/ ClickPowerMenu \/ ClickPowerButton \/ ClickElsewhere \/ FetchStatus \/ Redraw
    \/ \E r \in 1..4 : ClickItem(r)
    \/ \E k \in 1..4 : ClickTitle(k)
    \/ \E f \in DOMAIN Menus : Refocus(f)

TypeOK ==
    /\ focus \in DOMAIN Menus /\ power \in BOOLEAN /\ openMenu \in Nat

(***************************************************************************)
(* What the window shows is the frame last drawn although most frames      *)
(* present the bar's strip only; the power menu and a program's menu are   *)
(* never open together; and a click sends an item of the menu that is open *)
(* (present, handle_click, handle_open_menu_click).                        *)
(***************************************************************************)
BarExact ==
    /\ shown = canvas
    /\ ~(power /\ openMenu # 0)
    /\ sent # <<>> =>
         LET m == Menus[sent[1]]
         IN  \E i \in DOMAIN m : /\ m[i] = sent[3] /\ m[i] \notin {"T", "D"}
                                 /\ Cardinality({j \in Titles(m) : j < i}) = sent[2]

-----------------------------------------------------------------------------
(* Spark: sample_status_history and draw_sparkline.                        *)

SparkInit == samples = [i \in 0..(Ring - 1) |-> 0] /\ ringPos = 0 /\ full = FALSE /\ taken = 0

sample_status_history ==
    /\ taken < MaxSamples /\ taken' = taken + 1
    /\ samples' = [samples EXCEPT ![ringPos] = taken']
    /\ ringPos' = (ringPos + 1) % Ring
    /\ full' = (full \/ ringPos' = 0)

sparkIndexOff(count, i) == (ringPos - count + i + 1 + 2 * Ring) % Ring

sparkIndex(count, i) == (ringPos - count + i + 2 * Ring) % Ring

draw_sparkline ==
    LET count == IF full THEN Ring ELSE ringPos
    IN  [i \in 1..count |-> samples[sparkIndex(count, i - 1)]]

(***************************************************************************)
(* The curve runs from the oldest sample kept to the newest.               *)
(***************************************************************************)
SparkInOrder ==
    LET n == IF taken < Ring THEN taken ELSE Ring
    IN  draw_sparkline = [i \in 1..n |-> taken - n + i]

-----------------------------------------------------------------------------
(* Dock: slot i shows order[i] on its button; a button starts the program  *)
(* it was last given (apply_entry).  While dragging, overlay icons stand   *)
(* in for the buttons: entry e is drawn in slot target[e].                 *)

Slots == 1..Len(Entries)
Away == 0
Identity == [e \in Slots |-> e]

DockInit ==
    /\ order = Entries /\ button = Entries /\ held = Away /\ ticks = 0
    /\ drag = FALSE /\ target = <<>> /\ launched = <<>> /\ lost = FALSE

recalc_targetsNoShift(src, m) == IF m = Away THEN Identity ELSE [Identity EXCEPT ![src] = m, ![m] = src]

recalc_targets(src, m) ==
    IF m = Away \/ m = src THEN Identity
    ELSE [e \in Slots |-> IF e = src THEN m
                          ELSE IF m > src /\ e > src /\ e <= m THEN e - 1
                          ELSE IF m < src /\ e >= m /\ e < src THEN e + 1
                          ELSE e]

commit_targets(t) == [s \in Slots |-> order[CHOOSE e \in Slots : t[e] = s]]

(* on_mouse_dn also ends a drag, without putting the buttons back.         *)
on_mouse_dn(s) ==
    /\ held' = s /\ ticks' = 0 /\ drag' = FALSE /\ launched' = <<>>
    /\ UNCHANGED <<order, button, target>>

(* target # <<>>: the overlays are up and the buttons hidden.              *)
end_drag(s) ==
    /\ order' = commit_targets(recalc_targets(held, s)) /\ button' = order'
    /\ drag' = FALSE /\ held' = Away /\ ticks' = 0 /\ target' = <<>> /\ launched' = <<>>
    /\ UNCHANGED lost

on_mouse_up(s) ==
    IF drag THEN end_drag(s)
    ELSE /\ launched' = IF held # Away /\ s = held THEN <<s, button[s]>> ELSE <<>>
         /\ held' = Away /\ ticks' = 0 /\ UNCHANGED <<order, button, drag, target, lost>>

on_mouse_mv(s) ==
    /\ drag /\ target' = recalc_targets(held, s) /\ launched' = <<>>
    /\ UNCHANGED <<order, button, held, ticks, drag, lost>>

dock_tick2 ==
    /\ held # Away /\ ~drag /\ launched' = <<>>
    /\ IF ticks < HoldTicks THEN ticks' = ticks + 1 /\ UNCHANGED <<drag, target>>
       ELSE drag' = TRUE /\ target' = Identity /\ UNCHANGED ticks
    /\ UNCHANGED <<order, button, held, lost>>

(* A press while the last one is still held: its release was lost in a     *)
(* full event queue.                                                       *)
Press(s) == IF held = Away THEN on_mouse_dn(s) /\ UNCHANGED lost
            ELSE Lossy /\ on_mouse_dn(s) /\ lost' = TRUE

DockNext ==
    \/ \E s \in Slots \cup {Away} :
         Press(s) \/ on_mouse_up(s) \/ on_mouse_mv(s)
    \/ dock_tick2

(* The entry drawn in a slot.                                              *)
DrawnIn(s) == IF target = <<>> THEN order[s] ELSE order[CHOOSE e \in Slots : target[e] = s]

(***************************************************************************)
(* No entry is ever lost or doubled by dragging; the button of a slot      *)
(* starts the program drawn in that slot; and a drop puts the dragged      *)
(* entry at the slot under the mouse, the others keeping their order       *)
(* (recalc_targets, commit_targets, apply_entry).                          *)
(***************************************************************************)
DockExact ==
    /\ Range(order) = Range(Entries)
    /\ launched # <<>> => launched[2] = DrawnIn(launched[1])
    /\ \A e, s \in Slots :
         commit_targets(recalc_targets(e, s)) = InsertAt(RemoveAt(order, e), s, order[e])

(***************************************************************************)
(* "During normal operation they're hidden; during drag they replace the   *)
(* hbox buttons": the overlay icons are up exactly while a drag is on.     *)
(***************************************************************************)
OverlaysOnlyInDrag == drag <=> target # <<>>

-----------------------------------------------------------------------------
(* Cursor: one row of the picture; column i shows "w<i>" until drawn over. *)

CursorInit == pixels = [i \in 1..Screen |-> i] /\ last = 0 /\ under = <<>>

clampX(x) == IF x < 1 THEN 1 ELSE IF x + Cur > Screen + 1 THEN Screen + 1 - Cur ELSE x

restored == IF last = 0 THEN pixels
            ELSE [i \in 1..Screen |-> IF i \in last..(last + Cur - 1) THEN under[i - last + 1] ELSE pixels[i]]

keptAtRaw(x) == x

keptAt(x) == clampX(x)

PollMouse(x) ==
    LET c == clampX(x)
    IN  /\ under' = [k \in 1..Cur |-> restored[c + k - 1]]
        /\ pixels' = [i \in 1..Screen |-> IF i \in c..(c + Cur - 1) THEN 0 ELSE restored[i]]
        /\ last' = keptAt(x)

CursorNext == \E x \in 0..(Screen + 1) : PollMouse(x)

(***************************************************************************)
(* "No trail": wherever the pointer has been, the picture outside it is    *)
(* the one painted first (save_rect and restore_rect).                     *)
(***************************************************************************)
NoTrail == \A i \in 1..Screen : pixels[i] # 0 => pixels[i] = i
=============================================================================
