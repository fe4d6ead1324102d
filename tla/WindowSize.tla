----------------------------- MODULE WindowSize -----------------------------
(***************************************************************************)
(* The size of a userspace window: the buffers that have to hold it and    *)
(* the geometry of dragging its edges.                                     *)
(***************************************************************************)
EXTENDS Integers, FiniteSetsExt

(***************************************************************************)
(* The pixel buffers of one userspace window (kernel/src/window.c): the    *)
(* surface that the window is drawn on, and the content buffer that its    *)
(* app's presents are kept in.  Both are sized on demand, and any          *)
(* allocation may fail.                                                    *)
(*                                                                         *)
(* A size is a pair <<columns, rows>>.  The frame adds the same margin to  *)
(* every window, so it is left out and a window is as large as its content.*)
(***************************************************************************)
CONSTANTS Sizes,     \* sizes that an app asks for, or an edge is dragged to
          MaxSize    \* the largest that app_window_max_size allows

VARIABLES created,   \* user_app_slot.created
          panel,     \* a frameless window of the shell, titled Dock or Top Bar
          win,       \* size of the window
          restore,   \* its size before it was maximized, or Normal
          surface,   \* surface_cap_px; 0 is no buffer
          content,   \* content_width, content_height
          cap,       \* content_cap_px; 0 is no buffer
          data,      \* data_width: the stride of the last present; 0 is none
          starved    \* an allocation for this window has failed

surfacevars == <<created, panel, win, restore, surface, content, cap, data, starved>>

Normal == <<0, 0>>      \* restore of a window that is not maximized
Area(size) == size[1] * size[2]

-----------------------------------------------------------------------------
\* Capacities that a buffer of capacity old may have after it was asked to
\* hold need pixels.  The old surface is kept until the new one is there.
ensure_surface_buffer(old, need) ==
    IF need <= old THEN {old} ELSE {need, old}

\* Fault variant: the old content buffer is kept when there is no memory.
ensure_content_bufferKept(old, need) ==
    IF need <= old THEN {old} ELSE {need, old}

\* The old content is freed before the new one is asked for.
ensure_content_buffer(old, need) ==
    IF need <= old THEN {old} ELSE {need, 0}

\* The content follows the window; the app hears of it.
update_app_content_size_slot(size) ==
    IF content = size THEN UNCHANGED <<content, cap, starved>>
    ELSE /\ cap' \in ensure_content_buffer(cap, Area(size))
         /\ content' = size
         /\ starved' = (starved \/ surface' < Area(size) \/ cap' < Area(size))

\* Fault variant: the window's surface stays as small as it was.
resizeToSmall(size) ==
    /\ win' = size
    /\ surface' = surface
    /\ update_app_content_size_slot(size)

\* surface_storage_for_window, then the content.
resizeTo(size) ==
    /\ win' = size
    /\ surface' \in ensure_surface_buffer(surface, Area(size))
    /\ update_app_content_size_slot(size)

-----------------------------------------------------------------------------
\* SYS_WINDOW_CREATE_EX, also of a process that has the window already.  When
\* there is no memory the window keeps its new size and the create fails.
desktop_app_create_ex(size, frameless) ==
    /\ win' = size
    /\ panel' = frameless
    /\ restore' = Normal
    /\ surface' \in ensure_surface_buffer(surface, Area(size))
    /\ cap' \in IF surface' < Area(size) THEN {cap} ELSE ensure_content_buffer(cap, Area(size))
    /\ IF surface' < Area(size) \/ cap' < Area(size)
       THEN starved' = TRUE /\ UNCHANGED <<created, content, data>>
       ELSE created' = TRUE /\ content' = size /\ data' = 0 /\ starved' = FALSE

\* An edge is dragged; a maximized window does not follow.
apply_window_resize(size) ==
    /\ created /\ ~panel
    /\ restore = Normal
    /\ size # win
    /\ resizeTo(size)
    /\ UNCHANGED <<created, panel, restore, data>>

window_toggle_maximize ==
    /\ created /\ ~panel
    /\ restore' = IF restore = Normal THEN win ELSE Normal
    /\ resizeTo(IF restore = Normal THEN MaxSize ELSE restore)
    /\ UNCHANGED <<created, panel, data>>

\* arm64: a shell panel follows the width of the screen and starts empty, also
\* in a slot that it has left.
desktop_layout_shell_panels(width) ==
    /\ panel
    /\ win' = <<width, win[2]>>
    /\ surface' \in ensure_surface_buffer(surface, width * win[2])
    /\ IF surface' < width * win[2]
       THEN starved' = TRUE /\ UNCHANGED <<content, cap, data>>
       ELSE /\ update_app_content_size_slot(win')
            /\ data' = IF cap' # 0 /\ content' # content THEN width ELSE data
    /\ UNCHANGED <<created, panel, restore>>

\* Copies the part of the app's canvas that the content area has room for.
desktop_app_present_rect(size) ==
    /\ created /\ cap # 0
    /\ data' = content[1]
    /\ UNCHANGED <<created, panel, win, restore, surface, content, cap, starved>>

desktop_app_close_for_pid ==
    /\ created
    /\ created' = FALSE
    /\ surface' = 0 /\ cap' = 0 /\ content' = <<0, 0>> /\ data' = 0 /\ starved' = FALSE
    /\ UNCHANGED <<panel, win, restore>>

SurfaceInit ==
    /\ created = FALSE /\ panel = FALSE /\ win = <<0, 0>> /\ restore = Normal
    /\ surface = 0 /\ content = <<0, 0>> /\ cap = 0 /\ data = 0 /\ starved = FALSE

SurfaceNext ==
    \/ \E size \in Sizes : \/ \E frameless \in BOOLEAN : desktop_app_create_ex(size, frameless)
                           \/ apply_window_resize(size)
                           \/ desktop_app_present_rect(size)
    \/ \E size \in Sizes : desktop_layout_shell_panels(size[1])
    \/ window_toggle_maximize
    \/ desktop_app_close_for_pid

-----------------------------------------------------------------------------
\* Pixels of the content buffer that compose_user_app_direct reads: all rows
\* of the window, each at the stride of the last present.
Stride == IF data = 0 THEN content[1] ELSE data
ReadTo == (Min({content[2], win[2]}) - 1) * Stride + Min({Stride, win[1]})

\* No buffer is larger than the largest window, and none is wider.
SurfaceTypeOK ==
    /\ created \in BOOLEAN /\ panel \in BOOLEAN /\ starved \in BOOLEAN
    /\ surface \in 0 .. Area(MaxSize) /\ cap \in 0 .. Area(MaxSize)
    /\ data \in 0 .. MaxSize[1]

\* desktop_app_present_rect: whatever was resized, maximized or not allocated
\* before, a present that is accepted writes inside the content buffer.
PresentFits == created /\ cap # 0 => Area(content) <= cap

\* surface_storage_for_window, render_window_surface: unless memory ran out,
\* the surface holds the window that is drawn on it, and the compositor reads
\* inside the content buffer once the app has presented at its new size.
DrawFits ==
    created /\ ~starved =>
        /\ Area(win) <= surface
        /\ Stride = content[1] => ReadTo <= cap

-----------------------------------------------------------------------------
(***************************************************************************)
(* The geometry of dragging a window's edges (apply_window_resize in       *)
(* kernel/src/window.c), with and without WINSYS_WINDOW_ASPECT_RATIO.      *)
(*                                                                         *)
(* Positions and sizes are pairs; component 1 is horizontal, 2 vertical.   *)
(* The code treats the two axes alike, so each rule is written once.       *)
(***************************************************************************)
CONSTANTS MinWindow, MaxWindow,   \* of a window
          Low, High,          \* the work area: Low <= position, end <= High
          Moves               \* how far the pointer is from where it went down

VARIABLES start,    \* resize_start_x, _y, _width, _height
          edges,    \* resize_edges: per axis "low", "high" or "none"
          aspect,   \* WINSYS_WINDOW_ASPECT_RATIO
          window    \* the window now

dragvars == <<start, edges, aspect, window>>

Axes == {1, 2}
Other(a) == 3 - a
Clamp(n, lo, hi) == LET up == Max({n, lo}) IN Min({up, hi})
Abs(n) == IF n < 0 THEN -n ELSE n
Pair(f(_)) == <<f(1), f(2)>>

\* The length that the pointer asks for.
proposal(a, d) == start.size[a] + (CASE edges[a] = "low" -> -d[a] [] edges[a] = "high" -> d[a]
                                     [] OTHER -> 0)

-----------------------------------------------------------------------------
(* Free resizing *)

\* Fault variant: the far edge gives way when the near one is at the screen's.
plainAxisMoved(a, d) ==
    LET size == Clamp(proposal(a, d), MinWindow[a], MaxWindow[a])
        pos == IF edges[a] = "low" THEN start.pos[a] + start.size[a] - size ELSE start.pos[a]
        in == Max({pos, Low[a]})
    IN  <<in, Max({MinWindow[a], Min({size, High[a] - in})})>>

\* Position and length along one axis.
plainAxis(a, d) ==
    LET size == Clamp(proposal(a, d), MinWindow[a], MaxWindow[a])
        pos == IF edges[a] = "low" THEN start.pos[a] + start.size[a] - size ELSE start.pos[a]
        in == Max({pos, Low[a]})
        cut == IF edges[a] = "low" THEN size - (in - pos) ELSE size
    IN  <<in, Max({MinWindow[a], Min({cut, High[a] - in})})>>

plain(d) == [pos |-> <<plainAxis(1, d)[1], plainAxis(2, d)[1]>>,
             size |-> <<plainAxis(1, d)[2], plainAxis(2, d)[2]>>]

-----------------------------------------------------------------------------
(* Resizing that keeps the ratio *)

\* n on axis a, carried over to the other axis: rounded up, down or to nearest.
ratioUp(a, n) == (n * start.size[Other(a)] + start.size[a] - 1) \div start.size[a]
ratioDown(a, n) == (n * start.size[Other(a)]) \div start.size[a]
ratioNear(a, n) == (n * start.size[Other(a)] + start.size[a] \div 2) \div start.size[a]

effMin(a) == Max({MinWindow[a], ratioUp(Other(a), MinWindow[Other(a)])})
effMax(a) == Min({MaxWindow[a], ratioDown(Other(a), MaxWindow[Other(a)])})

\* The largest length, with the room up to the border of the screen.
room(a) ==
    CASE edges[a] = "low" -> start.pos[a] + start.size[a] - Low[a]
      [] edges[a] = "high" -> High[a] - start.pos[a]
      [] OTHER -> effMax(a)
spaceMax(a) == Min({effMax(a), room(a)})

\* The width yields to the height first, then the height to that width.
limitWidth == Min({spaceMax(1), ratioDown(2, spaceMax(2))})
limitHeight == Min({spaceMax(2), ratioDown(1, limitWidth)})
limit(a) == Max({effMin(a), IF a = 1 THEN limitWidth ELSE limitHeight})

\* The axis that leads: at a corner, the one that moved further.
master(d) ==
    IF edges[1] # "none" /\ edges[2] # "none"
    THEN IF Abs(d[1]) * start.size[2] > Abs(d[2]) * start.size[1] THEN 1 ELSE 2
    ELSE IF edges[1] # "none" THEN 1 ELSE 2

ratioSize(d) ==
    LET a == master(d)
        n == Min({limit(a), Max({effMin(a), proposal(a, d)})})
    IN  IF a = 1 THEN <<n, ratioNear(1, n)>> ELSE <<ratioNear(2, n), n>>

keepRatio(d) ==
    LET size == ratioSize(d)
        pos(a) == IF edges[a] = "low" THEN start.pos[a] + start.size[a] - size[a] ELSE start.pos[a]
    IN  [pos |-> Pair(pos), size |-> size]

-----------------------------------------------------------------------------
dragged(d) ==
    /\ window' = IF aspect THEN keepRatio(d) ELSE plain(d)
    /\ UNCHANGED <<start, edges, aspect>>

\* A legal window whose edge or corner is taken.
DragInit ==
    /\ start \in {w \in [pos : (Low[1] .. High[1]) \X (Low[2] .. High[2]),
                         size : (MinWindow[1] .. MaxWindow[1]) \X (MinWindow[2] .. MaxWindow[2])] :
                    \A a \in Axes : w.pos[a] + w.size[a] <= High[a]}
    /\ edges \in (({"low", "high", "none"} \X {"low", "high", "none"}) \ {<<"none", "none">>})
    /\ aspect \in BOOLEAN
    /\ window = start

DragNext == \E d \in Moves \X Moves : dragged(d)

-----------------------------------------------------------------------------
DragTypeOK == \A a \in Axes : window.size[a] >= 1 /\ window.pos[a] \in Int

\* apply_window_resize: however far the pointer goes, the edge opposite to the
\* one that is dragged stays where it is and the size stays within its limits;
\* a window that is freely resized also stays in the work area.
OppositeEdgeStays ==
    \A a \in Axes :
        /\ edges[a] = "low" => window.pos[a] + window.size[a] = start.pos[a] + start.size[a]
        /\ edges[a] # "low" => window.pos[a] = start.pos[a]
        /\ window.size[a] \in MinWindow[a] .. MaxWindow[a]
        /\ ~aspect => window.pos[a] >= Low[a] /\ window.pos[a] + window.size[a] <= High[a]
=============================================================================
