------------------------------- MODULE Window -------------------------------
(***************************************************************************)
(* The window server (kernel/src/window.c): the slots of the userspace     *)
(* windows, stacking and focus, the event queues, the context menu, drags  *)
(* and the modal error box; with the main loop's change of resolution      *)
(* (kernel.c).  Sizes and pixel buffers are module WindowSize's.           *)
(*                                                                         *)
(* Every operation runs under the big kernel lock, so each is one action.  *)
(* A window's place on the screen is left out: a report of the pointer     *)
(* says which visible windows are under it and which part of the topmost   *)
(* one it hits.  Of a queued event only the pid that it was meant for is   *)
(* kept.                                                                   *)
(***************************************************************************)
EXTENDS Integers, SequencesExt, FiniteSetsExt

CONSTANTS KernelWindows,  \* windows of the built-in apps
          Slots,          \* MAX_USER_APPS windows of userspace apps
          Terminal,       \* WINDOW_TERMINAL
          Pids,           \* processes that ever run; a pid is not reused
          Options,        \* what SYS_WINDOW_CREATE_EX may be asked for
          QueueCap,       \* WINSYS_EVENT_QUEUE - 1
          Reports         \* what input_poll may report

VARIABLES desktop,  \* struct desktop_state
          alive,    \* running processes
          gone      \* processes that have exited

vars == <<desktop, alive, gone>>

Windows == KernelWindows \cup Slots
Nothing == -1       \* "no window" in the fields that hold an index
NoPid == 0
Parts == {"close", "min", "max", "edge", "title", "icon", "content", "ok"}

\* A window and a slot as desktop_init leaves them.
NoWindow == [visible |-> FALSE, title |-> "", frameless |-> FALSE, top |-> FALSE,
             nodock |-> FALSE]

NoApp == [created |-> FALSE, pid |-> NoPid, queue |-> <<>>]

desktop_init == [win |-> [i \in Windows |-> NoWindow], app |-> [s \in Slots |-> NoApp],
                 z |-> SetToSortSeq(Windows, <), focus |-> Terminal, target |-> Nothing,
                 drag |-> Nothing, resize |-> Nothing, launcher |-> "none",
                 menu |-> Nothing, modal |-> FALSE]

-----------------------------------------------------------------------------
(* Slots, stacking and focus *)

SlotsOf(d, pid) == {s \in Slots : d.app[s].created /\ d.app[s].pid = pid}

FreeSlots(d) == {s \in Slots : ~d.app[s].created}

\* The first window takes the slot when all are in use.
find_free_slot(d) == Min(IF FreeSlots(d) = {} THEN Slots ELSE FreeSlots(d))

\* Fault variant: every window gets a slot of its own.
slotForFresh(d, pid) == find_free_slot(d)

\* A process has one window: a second create reuses its slot.
slotFor(d, pid) == IF SlotsOf(d, pid) # {} THEN Min(SlotsOf(d, pid)) ELSE find_free_slot(d)

normalize_z_order(d, z) ==
    LET low(i) == ~d.win[i].top
        high(i) == d.win[i].top
    IN  SelectSeq(z, low) \o SelectSeq(z, high)

shellPanel(d, i) == d.win[i].nodock /\ d.win[i].frameless

focus_window(d, i) ==
    [d EXCEPT !.focus = i,
              !.target = IF shellPanel(d, i) THEN @ ELSE i,
              !.z = normalize_z_order(d, Append(Remove(@, i), i))]

show(d, i) == focus_window([d EXCEPT !.win[i].visible = TRUE], i)

hide(d, i) == [d EXCEPT !.win[i].visible = FALSE, !.focus = IF @ = i THEN Nothing ELSE @]

\* The topmost of the windows under the pointer.
topmost_window_at(d, under) ==
    d.z[Max({k \in DOMAIN d.z : d.z[k] \in under})]

-----------------------------------------------------------------------------
(* Events *)

\* A full queue drops the new event.
app_enqueue_event_slot(d, s) ==
    [d EXCEPT !.app[s].queue =
        IF Len(@) < QueueCap THEN Append(@, d.app[s].pid) ELSE @]

\* A resize and a (de)maximize tell the app when its content area changed.
resized(d, i) ==
    IF i \in Slots /\ d.app[i].created THEN app_enqueue_event_slot(d, i) ELSE d

-----------------------------------------------------------------------------
(* System calls *)

\* A window of the same title, for WINSYS_WINDOW_SINGLE_INSTANCE.
twins(d, o) ==
    {s \in Slots : o.single /\ d.app[s].created /\ d.win[s].title = o.title}

\* Fault variant: a reused slot keeps its queue.
occupyQueued(d, s, pid) ==
    [d EXCEPT !.app[s].created = TRUE, !.app[s].pid = pid]

occupy(d, s, pid) ==
    [d EXCEPT !.app[s] = [created |-> TRUE, pid |-> pid, queue |-> <<>>]]

\* room says whether gfx_alloc has memory for the two buffers.
desktop_app_create_ex(d, pid, o, room) ==
    IF twins(d, o) # {} THEN show([d EXCEPT !.menu = Nothing], Min(twins(d, o)))
    ELSE LET s == slotFor(d, pid)
             begun == [d EXCEPT !.win[s] = [visible |-> TRUE, title |-> o.title,
                          frameless |-> o.frameless, top |-> o.top, nodock |-> o.nodock]]
         IN  IF room THEN focus_window(occupy(begun, s, pid), s) ELSE begun

\* The title and the flags stay behind in the slot.
desktop_app_close_for_pid(d, pid) ==
    IF SlotsOf(d, pid) = {} THEN d
    ELSE LET s == Min(SlotsOf(d, pid))
         IN  [hide(d, s) EXCEPT !.app[s] = NoApp,
                                !.target = IF @ = s THEN Nothing ELSE @]

\* The modal box.
desktop_show_error(d) == [d EXCEPT !.modal = TRUE]

\* SYS_WINDOW_CREATE and SYS_WINDOW_CREATE_EX: a failure is shown to the user.
Create(p) ==
    /\ p \in alive
    /\ \E o \in Options, room \in BOOLEAN :
         LET d == desktop_app_create_ex(desktop, p, o, room)
         IN  desktop' = IF room \/ twins(desktop, o) # {} THEN d ELSE desktop_show_error(d)
    /\ UNCHANGED <<alive, gone>>

\* The oldest event is handed out.
desktop_app_poll_event(d, s) == [d EXCEPT !.app[s].queue = Tail(@)]

\* SYS_EVENT_POLL
PollEvent(p) ==
    /\ p \in alive
    /\ \E s \in SlotsOf(desktop, p) :
           desktop.app[s].queue # <<>> /\ desktop' = desktop_app_poll_event(desktop, s)
    /\ UNCHANGED <<alive, gone>>

\* SYS_MENU_DISPATCH, from the top bar
desktop_dispatch_menu_action ==
    /\ desktop.target \in Slots
    /\ desktop.win[desktop.target].visible
    /\ desktop' = app_enqueue_event_slot(desktop, desktop.target)
    /\ UNCHANGED <<alive, gone>>

\* SYS_PROCESS_SPAWN: a program that can't be started is shown to the user, and
\* so is a thread (SYS_THREAD_CREATE).
ProcessSpawn(p) ==
    /\ p \in alive
    /\ \/ \E q \in Pids \ (alive \cup gone) : alive' = alive \cup {q} /\ UNCHANGED desktop
       \/ desktop' = desktop_show_error(desktop) /\ UNCHANGED alive
    /\ UNCHANGED gone

-----------------------------------------------------------------------------
(* Input *)

\* A launcher icon on the dock stands for the terminal, or for the first app
\* that runs.
find_window_for_dock_icon(d) ==
    {Terminal} \cup (IF FreeSlots(d) = Slots THEN {} ELSE {Min(Slots \ FreeSlots(d))})

\* Entries of the context menu of window i.
build_context_entries(d, i) ==
    {<<"show", i>>, <<"hide", i>>}
    \cup (IF i \in Slots THEN {<<"quit", i>>, <<"app", i>>} ELSE {<<"kernel", i>>})
    \cup LET same == {k \in Slots : d.app[k].created /\ i \in Slots
                                      /\ d.win[k].title = d.win[i].title}
         IN  IF Cardinality(same) > 1 THEN {<<"show", j>> : j \in same} ELSE {}

\* What a pick does to the desktop; Quit is left to the caller.
picked(d, e) ==
    CASE e[1] \in {"show", "kernel"} -> show(d, e[2])
      [] e[1] = "hide" -> hide(d, e[2])
      [] e[1] = "app" -> app_enqueue_event_slot(d, e[2])
      [] OTHER -> d

\* A frameless window has neither a title bar nor buttons nor edges.
hits(d, under) ==
    LET i == topmost_window_at(d, under)
    IN  IF d.win[i].frameless THEN {"content"} \cup (IF d.win[i].title = "Dock" THEN {"icon"} ELSE {})
        ELSE {"close", "min", "max", "edge", "title", "content"}

\* The left button goes down on window i.
pressed(d, i, part) ==
    LET f == focus_window(d, i)
        told == IF i \in Slots /\ d.app[i].created THEN app_enqueue_event_slot(f, i) ELSE f
    IN  CASE part = "close" -> hide(told, i)
          [] part = "min" -> hide(f, i)
          [] part = "max" -> resized(f, i)
          [] part = "edge" -> [f EXCEPT !.resize = i]
          [] part = "title" -> [f EXCEPT !.drag = i]
          [] OTHER -> f

released(d) == [d EXCEPT !.launcher = "none", !.drag = Nothing, !.resize = Nothing]

\* app_enqueue_event_slot, n times.
deliver(d, s, n) ==
    LET room == Min({n, QueueCap - Len(d.app[s].queue)})
    IN  [d EXCEPT !.app[s].queue = @ \o [k \in 1 .. room |-> d.app[s].pid]]

\* Shell panels under the pointer hear of its moves without the focus.
hovered(d, m, under) ==
    LET over == {i \in under \cap Slots : shellPanel(d, i) /\ d.win[i].top /\ d.win[i].visible
                                             /\ i # d.focus}
    IN  IF m.moved /\ d.drag = Nothing /\ d.resize = Nothing
        THEN FoldSet(LAMBDA i, e : app_enqueue_event_slot(e, i), d, over) ELSE d

\* The wheel goes to the window under the pointer, if that is an app's.
scrolled(d, m, over) ==
    IF m.wheel /\ d.drag = Nothing /\ d.resize = Nothing /\ over # {}
       /\ topmost_window_at(d, over) \in Slots
    THEN app_enqueue_event_slot(d, topmost_window_at(d, over)) ELSE d

focused(d, m) ==
    IF d.focus \in Slots /\ d.win[d.focus].visible /\ d.drag = Nothing /\ d.resize = Nothing
    THEN deliver(d, d.focus, m.events) ELSE d

\* Right button: a menu that is open closes; away from title bars and the
\* dock the window under the pointer gets the focus.
rightPressed(d, m, under) ==
    LET closed == [d EXCEPT !.menu = Nothing]
    IN  IF ~m.right_pressed THEN d
        ELSE IF under = {} THEN closed
        ELSE IF d.win[topmost_window_at(d, under)].title = "Dock" THEN closed
        ELSE focus_window(closed, topmost_window_at(d, under))

Visible(d) == {i \in Windows : d.win[i].visible}

\* The modal box swallows every report until it is answered.
ModalInput(m) ==
    /\ desktop.modal
    /\ \E ok \in BOOLEAN :
           desktop' = [desktop EXCEPT !.modal = ~(IF m.left_pressed THEN ok ELSE m.enter)]
    /\ UNCHANGED <<alive, gone>>

\* A right press on a title bar or on a dock icon opens the context menu.
OpenMenu(m) ==
    /\ ~desktop.modal
    /\ m.right_pressed
    /\ \E under \in (SUBSET Visible(desktop)) \ {{}} :
         \E part \in hits(desktop, under) \cap {"title", "icon"} :
           \E i \in IF part = "icon" THEN find_window_for_dock_icon(desktop)
                    ELSE {topmost_window_at(desktop, under)} :
               desktop' = [desktop EXCEPT !.menu = i]
    /\ UNCHANGED <<alive, gone>>

\* While an edge is held, reports only resize.
ResizeInput(m) ==
    /\ ~desktop.modal
    /\ desktop.resize # Nothing
    /\ m.left
    /\ \E under \in SUBSET Visible(desktop) :
         LET d == rightPressed(desktop, m, under)
         IN  desktop' = d \/ desktop' = resized(d, desktop.resize)
    /\ UNCHANGED <<alive, gone>>

\* While a launcher icon is held, reports only move it.
LauncherInput(m) ==
    /\ ~desktop.modal
    /\ desktop.resize = Nothing
    /\ desktop.launcher # "none"
    /\ m.left
    /\ \E under \in SUBSET Visible(desktop), l \in {"held", "moved"} :
           desktop' = [rightPressed(desktop, m, under) EXCEPT
                          !.launcher = IF @ = "moved" THEN @ ELSE l]
    /\ UNCHANGED <<alive, gone>>

Free(m) == ~desktop.modal /\ ~(m.left /\ (desktop.resize # Nothing \/ desktop.launcher # "none"))

\* A left press picks an entry of the open context menu, or closes it.
PickEntry(m) ==
    /\ Free(m)
    /\ m.left_pressed
    /\ ~m.right_pressed
    /\ desktop.menu # Nothing
    /\ LET closed == [desktop EXCEPT !.menu = Nothing]
       IN  \/ desktop' = closed /\ UNCHANGED <<alive, gone>>
           \/ \E e \in build_context_entries(desktop, desktop.menu) :
                IF e[1] = "quit" /\ desktop.app[e[2]].pid # NoPid
                THEN /\ desktop' = desktop_app_close_for_pid(closed, desktop.app[e[2]].pid)
                     /\ alive' = alive \ {desktop.app[e[2]].pid}
                     /\ gone' = gone \cup {desktop.app[e[2]].pid}
                ELSE desktop' = picked(closed, e) /\ UNCHANGED <<alive, gone>>

\* A left press on a launcher icon of the empty desktop.
GrabLauncher(m) ==
    /\ Free(m)
    /\ m.left_pressed
    /\ rightPressed(desktop, m, {}).menu = Nothing
    /\ desktop' = [rightPressed(desktop, m, {}) EXCEPT !.launcher = "held"]
    /\ UNCHANGED <<alive, gone>>

\* Every other report: the press, the release and the events for the apps.
Input(m) ==
    /\ Free(m)
    /\ \E under \in SUBSET Visible(desktop) :
         \E part \in IF m.left_pressed /\ under # {} THEN hits(desktop, under) \ {"icon"}
                     ELSE {"content"} :
           LET d1 == rightPressed(desktop, m, under)
               d2 == IF m.left_pressed /\ under # {}
                     THEN pressed(d1, topmost_window_at(d1, under), part) ELSE d1
               d3 == IF m.left_released THEN released(d2) ELSE d2
               over == under \cap Visible(d3)
           IN  /\ m.left_pressed => d1.menu = Nothing
               /\ m.right_pressed => part = "content"
               /\ desktop' = focused(scrolled(hovered(d3, m, over), m, over), m)
    /\ m.left_released => desktop.launcher # "held"
    /\ UNCHANGED <<alive, gone>>

\* A launcher icon let go where it was picked up starts its program.
Launch(m) ==
    /\ Free(m)
    /\ m.left_released
    /\ desktop.launcher = "held"
    /\ \/ \E p \in Pids \ (alive \cup gone) :
            /\ desktop' = focused(released(desktop), m)
            /\ alive' = alive \cup {p}
       \/ desktop' = focused(desktop_show_error(released(desktop)), m) /\ alive' = alive
    /\ gone' = gone

-----------------------------------------------------------------------------
(* Processes and screen modes *)

\* The desktop starts a program.
Spawn(p) ==
    /\ p \notin alive \cup gone
    /\ alive' = alive \cup {p}
    /\ UNCHANGED <<desktop, gone>>

\* Exit, fault or kill.  On x86 the window is closed on the way; on arm64 the
\* next desktop_poll_apps does it.
Exit(p) ==
    /\ p \in alive
    /\ alive' = alive \ {p}
    /\ gone' = gone \cup {p}
    /\ \/ desktop' = desktop_app_close_for_pid(desktop, p)
       \/ desktop' = desktop

\* owners are the kernel apps whose process (the terminal's shell) has died.
desktop_poll_apps ==
    /\ \E owners \in SUBSET KernelWindows :
         LET closed == FoldSet(LAMBDA p, d : desktop_app_close_for_pid(d, p), desktop, gone)
         IN  desktop' = FoldSet(LAMBDA i, d : hide(d, i), closed, owners \cap Visible(closed))
    /\ UNCHANGED <<alive, gone>>

\* arm64, after a mode change: the panels are resized, also in slots that they
\* have left.
desktop_layout_shell_panels ==
    /\ \E s \in Slots :
         /\ desktop.win[s].title = "Dock" /\ desktop.win[s].frameless
         /\ desktop' = app_enqueue_event_slot(desktop, s)
    /\ UNCHANGED <<alive, gone>>

\* The slots of live processes are carried over.
restored(d, fresh, live) ==
    LET kept == {s \in Slots : d.app[s].created /\ d.app[s].pid \in live}
    IN  [fresh EXCEPT
            !.app = [s \in Slots |-> IF s \in kept THEN d.app[s]
                        ELSE @[s]],
            !.win = [i \in Windows |-> IF i \in kept THEN [d.win[i] EXCEPT !.visible = TRUE]
                                       ELSE @[i]]]

\* x86: a change of resolution kills the dock and the top bar and starts the
\* window manager anew, which may fail.
ChangeResolution ==
    \E shell \in SUBSET {p \in alive : \E s \in SlotsOf(desktop, p) : desktop.win[s].title = "Dock"} :
      LET d == FoldSet(LAMBDA p, e : desktop_app_close_for_pid(e, p), desktop, shell)
          anew == restored(d, desktop_init, alive \ shell)
          told == {s \in Slots : anew.app[s].created}
      IN  /\ alive' = alive \ shell
          /\ gone' = gone \cup shell
          /\ \/ desktop' = FoldSet(LAMBDA s, e : app_enqueue_event_slot(e, s), anew, told)
             \/ desktop' = d

-----------------------------------------------------------------------------
Init == desktop = desktop_init /\ alive = {} /\ gone = {}

AppCall(p) ==
    \/ Create(p) \/ PollEvent(p) \/ ProcessSpawn(p)

Mouse(m) ==
    \/ ModalInput(m) \/ OpenMenu(m) \/ ResizeInput(m) \/ LauncherInput(m)
    \/ PickEntry(m) \/ GrabLauncher(m) \/ Input(m) \/ Launch(m)

Next ==
    \/ \E p \in Pids : AppCall(p) \/ Spawn(p) \/ Exit(p)
    \/ \E m \in Reports : Mouse(m)
    \/ desktop_dispatch_menu_action \/ desktop_poll_apps
    \/ desktop_layout_shell_panels \/ ChangeResolution

Spec == Init /\ [][Next]_vars

-----------------------------------------------------------------------------
\* Indices name windows, queues fit, and every window is in the stacking order
\* exactly once.
TypeOK ==
    /\ alive \subseteq Pids /\ gone \subseteq Pids
    /\ {desktop.focus, desktop.target, desktop.drag, desktop.resize, desktop.menu}
           \subseteq Windows \cup {Nothing}
    /\ \A s \in Slots : Len(desktop.app[s].queue) <= QueueCap
    /\ ToSet(desktop.z) = Windows /\ Len(desktop.z) = Cardinality(Windows)

\* find_slot_by_pid and find_free_slot: a process never has two windows, and
\* a slot that is in use belongs to a process.
OneWindowEach ==
    /\ \A s, t \in Slots : desktop.app[s].created /\ desktop.app[t].created
                           /\ desktop.app[s].pid = desktop.app[t].pid => s = t
    /\ \A s \in Slots : desktop.app[s].created => desktop.app[s].pid # NoPid

\* app_enqueue_event_slot, create and close: an app is never handed an event
\* that was meant for the slot's previous owner.
EventsForOwner ==
    \A s \in Slots : desktop.app[s].created =>
        \A k \in DOMAIN desktop.app[s].queue : desktop.app[s].queue[k] = desktop.app[s].pid
=============================================================================
