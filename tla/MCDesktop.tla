----------------------------- MODULE MCDesktop ------------------------------
(***************************************************************************)
(* The network's connections, the windows and what is on the screen, the   *)
(* toolkit and the panels, each on a small instance. They share no state;  *)
(* a behaviour moves the machine that unit names, the variables of the     *)
(* others are not used.                                                    *)
(***************************************************************************)
EXTENDS Integers, FiniteSets, TLC

CONSTANTS p1, p2, h1

VARIABLE unit     \* the machine that moves
VARIABLES conn, call, wire, peer, h_sent, asked
VARIABLES desktop, alive, gone
VARIABLES created, panel, win, restore, surface, content, cap, data, starved, start, edges,
          aspect, window
VARIABLES back, front, tiles, c_dirty, c_mouse, presented, list, covered, turns, clip, ink, want,
          buf, shape, hurt, region, entries, c_at
VARIABLES u_mouse, down, click, menu, u_focus, u_drag, hover, pressed, value, visible, tip,
          u_ticks, u_dirty, painted, phase, size, geo, margin, hidden, settledAt, slot,
          store, cache, cacheNext, wanted, blitted
VARIABLES p_focus, status, redraw, openMenu, power, canvas, shown, lastTall, p_sent, samples,
          ringPos, full, taken, order, button, held, p_ticks, p_drag, target, launched,
          lost, pixels, last, under

Answers == {[kind |-> "length", body |-> 1], [kind |-> "close", body |-> 0], [kind |-> "eof", body |-> 0]}

Report(mv, lp, lr, l, rp, w, e) ==
    [moved |-> mv, left_pressed |-> lp, left_released |-> lr, left |-> l, right_pressed |-> rp,
     wheel |-> w, enter |-> e, events |-> 1]
MouseReports ==
    {Report(FALSE, TRUE, FALSE, TRUE, FALSE, FALSE, FALSE),
     Report(TRUE, FALSE, FALSE, TRUE, FALSE, FALSE, FALSE), Report(FALSE, FALSE, TRUE, FALSE, FALSE, FALSE, FALSE),
     Report(FALSE, FALSE, FALSE, FALSE, TRUE, FALSE, FALSE), Report(FALSE, FALSE, FALSE, FALSE, FALSE, TRUE, TRUE)}
WindowOptions ==
    {[title |-> "Dock", single |-> FALSE, frameless |-> TRUE, top |-> TRUE, nodock |-> TRUE],
     [title |-> "App", single |-> TRUE, frameless |-> FALSE, top |-> FALSE, nodock |-> FALSE]}

Rect(x, y, w, h) == [x |-> x, y |-> y, w |-> w, h |-> h]
ChangedRects == {Rect(-1, 0, 2, 1), Rect(1, 0, 1, 2), Rect(2, 1, 3, 1), Rect(3, 3, 2, 2), Rect(1, 2, 2, 1)}


WidgetsAt == [title |-> {1}, item |-> {2, 3}, button |-> {3}, input |-> {4}, sl |-> {5},
              sr |-> {5}, off |-> {}]
ColumnAt == [title |-> 0, item |-> 0, button |-> 0, input |-> 0, sl |-> 0, sr |-> 1, off |-> 1]
BoxAnchors == <<{"left", "right", "top", "bottom"}, {}, {}, {}, {}, {"right", "bottom"}>>
BoxesCreated == <<<<1, 1, 10, 8>>, <<0, 0, 2, 2>>, <<0, 0, 1, 2>>, <<0, 0, 3, 1>>, <<0, 0, 2, 2>>,
                  <<9, 7, 2, 2>>>>
MenuBars == [edit |-> <<"T", "new", "D", "quit", "T", "cut">>, view |-> <<"T", "zoom">>, none |-> <<>>]

\* Two callers, two connection slots, one host that keeps a connection or
\* closes it.
H == INSTANCE Http WITH Callers <- {p1, p2}, Hosts <- {h1}, MaxConns <- 2, Cap <- 2,
    MaxRequests <- 2, MaxEpochs <- 2, MaxSeq <- 3, Replies <- Answers, sent <- h_sent

\* The terminal's window and two of programs, with queues of one event.
W == INSTANCE Window WITH KernelWindows <- {0}, Slots <- {1, 2}, Terminal <- 0,
    Pids <- {p1, p2}, Options <- WindowOptions, QueueCap <- 1, Reports <- MouseReports

\* Every size up to three by three; drags past both limits and the work area.
Z == INSTANCE WindowSize WITH Sizes <- (1..3) \X (1..3), MaxSize <- <<3, 3>>,
    MinWindow <- <<2, 3>>, MaxWindow <- <<5, 6>>, Low <- <<1, 0>>, High <- <<7, 7>>,
    Moves <- {-6, -1, 0, 2, 6}

\* A screen of five by four pixels in tiles of two by two, two windows that
\* overlap.
C == INSTANCE Compose WITH Width <- 5, Height <- 4, TileSize <- 2, Cursor <- <<2, 2>>,
    Points <- {0, 4} \X {0, 3}, Changes <- ChangedRects,
    Stack <- <<Rect(0, 0, 3, 3), Rect(2, 1, 3, 3)>>, Region <- Rect(0, 0, 6, 5),
    Rects <- {Rect(x, y, w, h) : x \in {-1, 1, 3}, y \in {-1, 0, 2}, w \in {2, 3, 5}, h \in {3, 4}},
    Inset <- 1, MaxRects <- 128, MaxWindows <- 2,
    Boxes <- {Rect(x, y, w, h) : x \in {-2, 0, 1}, y \in {-1, 1}, w \in {0, 1, 3, 6}, h \in {1, 2, 6}},
    Radii <- {0, 1, 2, 3}, Glass <- {<<0, 0>>, <<2, 0>>, <<1, 1>>}, Widths <- {1, 2, 4},
    Rows <- {1, 3}, Labels <- {0, 1, 3}, MenuCap <- 4, RowH <- 3, Pad <- 1, Foot <- 1,
    Edge <- 1, Message <- <<"a", "b", "nl", "c", "d", "nl", "nl", "e", "f">>,
    LineCap <- 1, dirty <- c_dirty, mouse <- c_mouse, at <- c_at

\* A menu with an item over a button, an input and a slider; a vbox with an
\* hbox inside; more icons than pool and cache have slots.
U == INSTANCE VexUi WITH Widgets <- 1..5,
    Kind <- <<"menu", "item", "button", "input", "slider">>, Tips <- {3},
    Places <- {"title", "item", "input", "sl", "sr"}, At <- WidgetsAt, XAt <- ColumnAt,
    Hideable <- {3}, Delay <- 2, MaxText <- 1, Nodes <- 1..6,
    BoxKind <- <<"vbox", "hbox", "leaf", "leaf", "leaf", "leaf">>,
    Parent <- <<0, 1, 2, 2, 1, 0>>, Anchors <- BoxAnchors,
    Expand <- <<FALSE, TRUE, TRUE, FALSE, FALSE, FALSE>>,
    Fill <- <<FALSE, TRUE, FALSE, TRUE, TRUE, FALSE>>, Gap <- 1, Pad <- 1,
    Created <- BoxesCreated, WinSizes <- {<<12, 10>>, <<4, 3>>, <<9, 14>>},
    Bounds <- {<<1, 1, 10, 8>>, <<0, 2, 6, 5>>}, Toggled <- {4},
    IconWidgets <- {1, 2, 3}, Svgs <- {"a", "b"}, IconSizes <- {1, 2},
    Colors <- {"x", "y"}, PoolSlots <- 2, CacheSlots <- 2, mouse <- u_mouse,
    focus <- u_focus, drag <- u_drag, ticks <- u_ticks, dirty <- u_dirty

\* Programs with two menus, one and none; a dock of four entries.
P == INSTANCE Panels WITH Menus <- MenuBars, Ring <- 3, MaxSamples <- 8,
    Entries <- <<"a", "b", "c", "d">>, HoldTicks <- 1, Lossy <- FALSE, Screen <- 6,
    Cur <- 2, focus <- p_focus, sent <- p_sent, ticks <- p_ticks, drag <- p_drag

-----------------------------------------------------------------------------
v_http == <<conn, call, wire, peer, h_sent, asked>>
v_window == <<desktop, alive, gone>>
v_surface == <<created, panel, win, restore, surface, content, cap, data, starved>>
v_drag == <<start, edges, aspect, window>>
v_frame == <<back, front, tiles, c_dirty, c_mouse, presented>>
v_cut == <<list, covered, turns>>
v_paint == <<clip, ink, want>>
v_reflow == <<buf, shape>>
v_damage == <<hurt, region>>
v_context == <<entries, c_at>>
v_ui == <<u_mouse, down, click, menu, u_focus, u_drag, hover, pressed, value, visible,
        tip, u_ticks, u_dirty, painted, phase>>
v_layout == <<size, geo, margin, hidden, settledAt>>
v_icons == <<slot, store, cache, cacheNext, wanted, blitted>>
v_bar == <<p_focus, status, redraw, openMenu, power, canvas, shown, lastTall, p_sent>>
v_spark == <<samples, ringPos, full, taken>>
v_dock == <<order, button, held, p_ticks, p_drag, target, launched, lost>>
v_cursor == <<pixels, last, under>>

all == <<unit, v_http, v_window, v_surface, v_drag, v_frame, v_cut, v_paint, v_reflow,
        v_damage, v_context, v_ui, v_layout, v_icons, v_bar, v_spark, v_dock, v_cursor>>

\* A machine that rests holds zeros.
zero_http ==
    /\ conn = 0 /\ call = 0 /\ wire = 0 /\ peer = 0 /\ h_sent = 0
    /\ asked = 0
zero_window == desktop = 0 /\ alive = 0 /\ gone = 0
zero_surface ==
    /\ created = 0 /\ panel = 0 /\ win = 0 /\ restore = 0 /\ surface = 0
    /\ content = 0 /\ cap = 0 /\ data = 0 /\ starved = 0
zero_drag == start = 0 /\ edges = 0 /\ aspect = 0 /\ window = 0
zero_frame ==
    /\ back = 0 /\ front = 0 /\ tiles = 0 /\ c_dirty = 0 /\ c_mouse = 0
    /\ presented = 0
zero_cut == list = 0 /\ covered = 0 /\ turns = 0
zero_paint == clip = 0 /\ ink = 0 /\ want = 0
zero_reflow == buf = 0 /\ shape = 0
zero_damage == hurt = 0 /\ region = 0
zero_context == entries = 0 /\ c_at = 0
zero_ui ==
    /\ u_mouse = 0 /\ down = 0 /\ click = 0 /\ menu = 0 /\ u_focus = 0
    /\ u_drag = 0 /\ hover = 0 /\ pressed = 0 /\ value = 0 /\ visible = 0
    /\ tip = 0 /\ u_ticks = 0 /\ u_dirty = 0 /\ painted = 0 /\ phase = 0
zero_layout == size = 0 /\ geo = 0 /\ margin = 0 /\ hidden = 0 /\ settledAt = 0
zero_icons ==
    /\ slot = 0 /\ store = 0 /\ cache = 0 /\ cacheNext = 0 /\ wanted = 0
    /\ blitted = 0
zero_bar ==
    /\ p_focus = 0 /\ status = 0 /\ redraw = 0 /\ openMenu = 0 /\ power = 0
    /\ canvas = 0 /\ shown = 0 /\ lastTall = 0 /\ p_sent = 0
zero_spark == samples = 0 /\ ringPos = 0 /\ full = 0 /\ taken = 0
zero_dock ==
    /\ order = 0 /\ button = 0 /\ held = 0 /\ p_ticks = 0 /\ p_drag = 0
    /\ target = 0 /\ launched = 0 /\ lost = 0
zero_cursor == pixels = 0 /\ last = 0 /\ under = 0

MCInit ==
    /\ unit \in {"http", "window", "surface", "drag", "frame", "cut", "paint", "reflow", "damage",
                 "context", "ui", "layout", "icons", "bar", "spark", "dock", "cursor"}
    /\ IF unit = "http" THEN H!Init ELSE zero_http
    /\ IF unit = "window" THEN W!Init ELSE zero_window
    /\ IF unit = "surface" THEN Z!SurfaceInit ELSE zero_surface
    /\ IF unit = "drag" THEN Z!DragInit ELSE zero_drag
    /\ IF unit = "frame" THEN C!FrameInit ELSE zero_frame
    /\ IF unit = "cut" THEN C!CutInit ELSE zero_cut
    /\ IF unit = "paint" THEN C!PaintInit ELSE zero_paint
    /\ IF unit = "reflow" THEN C!ReflowInit ELSE zero_reflow
    /\ IF unit = "damage" THEN C!DamageInit ELSE zero_damage
    /\ IF unit = "context" THEN C!MenuInit ELSE zero_context
    /\ IF unit = "ui" THEN U!Init ELSE zero_ui
    /\ IF unit = "layout" THEN U!LayoutInit ELSE zero_layout
    /\ IF unit = "icons" THEN U!IconInit ELSE zero_icons
    /\ IF unit = "bar" THEN P!Init ELSE zero_bar
    /\ IF unit = "spark" THEN P!SparkInit ELSE zero_spark
    /\ IF unit = "dock" THEN P!DockInit ELSE zero_dock
    /\ IF unit = "cursor" THEN P!CursorInit ELSE zero_cursor

\* The machines that unit does not name stay as they are.
Rest ==
    /\ UNCHANGED unit
    /\ unit = "http" \/ UNCHANGED v_http
    /\ unit = "window" \/ UNCHANGED v_window
    /\ unit = "surface" \/ UNCHANGED v_surface
    /\ unit = "drag" \/ UNCHANGED v_drag
    /\ unit = "frame" \/ UNCHANGED v_frame
    /\ unit = "cut" \/ UNCHANGED v_cut
    /\ unit = "paint" \/ UNCHANGED v_paint
    /\ unit = "reflow" \/ UNCHANGED v_reflow
    /\ unit = "damage" \/ UNCHANGED v_damage
    /\ unit = "context" \/ UNCHANGED v_context
    /\ unit = "ui" \/ UNCHANGED v_ui
    /\ unit = "layout" \/ UNCHANGED v_layout
    /\ unit = "icons" \/ UNCHANGED v_icons
    /\ unit = "bar" \/ UNCHANGED v_bar
    /\ unit = "spark" \/ UNCHANGED v_spark
    /\ unit = "dock" \/ UNCHANGED v_dock
    /\ unit = "cursor" \/ UNCHANGED v_cursor

httpMoves == unit = "http" /\ H!Next /\ Rest
windowMoves == unit = "window" /\ W!Next /\ Rest
surfaceMoves == unit = "surface" /\ Z!SurfaceNext /\ Rest
dragMoves == unit = "drag" /\ Z!DragNext /\ Rest
frameMoves == unit = "frame" /\ C!FrameNext /\ Rest
cutMoves == unit = "cut" /\ C!CutNext /\ Rest
paintMoves == unit = "paint" /\ C!PaintNext /\ Rest
reflowMoves == unit = "reflow" /\ C!ReflowNext /\ Rest
damageMoves == unit = "damage" /\ C!DamageNext /\ Rest
contextMoves == unit = "context" /\ C!MenuNext /\ Rest
uiMoves == unit = "ui" /\ U!Next /\ Rest
layoutMoves == unit = "layout" /\ U!LayoutNext /\ Rest
iconsMoves == unit = "icons" /\ U!IconNext /\ Rest
barMoves == unit = "bar" /\ P!Next /\ Rest
sparkMoves == unit = "spark" /\ P!sample_status_history /\ Rest
dockMoves == unit = "dock" /\ P!DockNext /\ Rest
cursorMoves == unit = "cursor" /\ P!CursorNext /\ Rest

MCNext ==
    \/ httpMoves \/ windowMoves \/ surfaceMoves \/ dragMoves \/ frameMoves
    \/ cutMoves \/ paintMoves \/ reflowMoves \/ damageMoves \/ contextMoves
    \/ uiMoves \/ layoutMoves \/ iconsMoves \/ barMoves \/ sparkMoves \/ dockMoves
    \/ cursorMoves

MCSpec == MCInit /\ [][MCNext]_all

\* One thing at a time: a window is dragged or resized, a launcher icon held, a menu
\* or a dialog open, or an event waits in a queue.
Modes == {m \in {"drag", "resize", "menu"} : desktop[m] # W!Nothing}
         \cup {m \in {"launcher"} : desktop.launcher # "none"} \cup {m \in {"modal"} : desktop.modal}
OneMode ==
    unit = "window" =>
        Cardinality(Modes) + Cardinality({s \in {1, 2} : desktop.app[s].queue # <<>>}) <= 1

\* What a window that is marked to be painted shows does not matter.
Seen == IF unit = "ui" THEN <<unit, u_mouse, down, click, U!state, phase, IF u_dirty THEN <<>> ELSE <<painted>>>>
        ELSE all

Interchangeable == Permutations({p1, p2})

-----------------------------------------------------------------------------
\* net_http_get and handle_tcp: a caller's connection slot is its own until it
\* returns, no segment is written to the buffer of a caller that has returned,
\* and loss, duplication and reordering never reach a buffer.
HttpExact ==
    /\ unit = "http" => H!TypeOK /\ H!SlotIsOwned /\ H!BufferIsWaitedFor /\ H!InOrder

\* desktop_app_create, desktop_app_close_for_pid and the handlers of
\* desktop_handle_mouse: a process has one window at most, no window outlives
\* its process, and a queue holds only events for the process that owns the
\* window.
WindowsExact ==
    /\ unit = "window" => W!TypeOK /\ W!OneWindowEach /\ W!EventsForOwner

\* desktop_app_present, ensure_content_buffer and apply_window_resize: what is
\* presented and drawn fits the buffer although sizes change between calls, and
\* an edge that is not dragged stays.
SizesExact ==
    /\ unit = "surface" => Z!SurfaceTypeOK /\ Z!PresentFits /\ Z!DrawFits
    /\ unit = "drag" => Z!DragTypeOK /\ Z!OppositeEdgeStays

\* desktop_compose_dirty: the screen shows the scene although only dirty tiles
\* are composed and presented; the background is drawn where no window is,
\* shapes keep to their clip, a reflow keeps what fits, damage covers what was
\* drawn, a context menu stays on the screen.
ScreenExact ==
    /\ unit = "frame" => C!ShowsTheScene
    /\ unit = "cut" => C!BackgroundExact
    /\ unit = "paint" => C!PaintsItsShape
    /\ unit = "reflow" => C!ReflowKeeps
    /\ unit = "damage" => C!DamageCovered
    /\ unit = "context" => C!MenuExact

\* The toolkit and the desktop's panels: an unmarked window shows what its
\* widgets say, a layout is where a second pass leaves it, an icon is the
\* picture asked for; the top bar shows the program in focus, the sparkline its
\* samples in order, the dock no overlay outside a drag, the pointer leaves no
\* trail.
UiExact ==
    /\ unit = "ui" => U!TypeOK /\ U!PictureIsCurrent
    /\ unit = "layout" => U!LayoutSettles
    /\ unit = "icons" => U!IconsExact
    /\ unit = "bar" => P!TypeOK /\ P!BarExact
    /\ unit = "spark" => P!SparkInOrder
    /\ unit = "dock" => P!DockExact /\ P!OverlaysOnlyInDrag
    /\ unit = "cursor" => P!NoTrail
=============================================================================
