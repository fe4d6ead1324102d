------------------------------ MODULE Compose ------------------------------
(***************************************************************************)
(* Drawing the desktop (kernel/src/window.c, render.c, kernel.c).          *)
(* Frame machine: dirty tiles, the composition of one dirty rectangle from *)
(* the windows in z-order, the pointer, and the copy to the visible        *)
(* framebuffer.  Cut machine: the background pieces left by opaque         *)
(* windows.  Paint machine: the clipped primitives.  Reflow machine: a     *)
(* content buffer that gets a new stride in place.  Damage machine: the    *)
(* dirty rectangle of a window.  Menu machine: the context menu and the    *)
(* text of an error box.  The machines share no variable.                  *)
(*                                                                         *)
(* Colours are left out: of a pixel it matters whose content it shows and  *)
(* whether that content is the present one.                                *)
(***************************************************************************)
EXTENDS Integers, Sequences, FiniteSetsExt, SequencesExt

CONSTANTS Width, Height,     \* of the screen
          TileSize,
          Cursor,            \* size of cursor_rect, <<width, height>>
          Points,            \* where the pointer may be
          Changes,           \* rectangles that are marked dirty
          Stack,             \* rectangles of the windows, lowest first
          Region,            \* the rectangle that is composed (Cut machine)
          Rects,             \* where opaque windows may be
          Inset, MaxRects, MaxWindows,  \* rounded border, rect_list, windows
          Boxes, Radii,      \* rectangles and corner radii that are drawn
          Glass,             \* transparent pixels of a window surface
          Widths, Rows,      \* sizes of content buffers
          Labels, MenuCap,   \* label lengths of menu entries, entries
          RowH, Pad, Foot, Edge,  \* 22, 8, 10 and 8 pixels of the menu's layout
          Message, LineCap   \* characters of an error message and of a line

rect_from_bounds(x, y, w, h) == [x |-> x, y |-> y, w |-> w, h |-> h]
Cells(r) == (r.x .. r.x + r.w - 1) \X (r.y .. r.y + r.h - 1)
Pixels == (0 .. Width - 1) \X (0 .. Height - 1)
PixelsOf(r) == {p \in Pixels : p[1] \in r.x .. r.x + r.w - 1 /\ p[2] \in r.y .. r.y + r.h - 1}

rects_intersect(a, b) ==
    a.x < b.x + b.w /\ a.x + a.w > b.x /\ a.y < b.y + b.h /\ a.y + a.h > b.y

rect_union(a, b) ==
    LET x0 == Min({a.x, b.x})
        y0 == Min({a.y, b.y})
    IN  rect_from_bounds(x0, y0, Max({a.x + a.w, b.x + b.w}) - x0, Max({a.y + a.h, b.y + b.h}) - y0)

(***************************************************************************)
(* A frame of the main loop.                                               *)
(***************************************************************************)
VARIABLES back,              \* pixel of the back buffer -> <<window, is it present?>>
          front,             \* the same of the framebuffer; the pointer is window -1
          tiles,             \* dirty_tiles
          dirty,             \* desktop.dirty
          mouse, presented   \* mouse_x and mouse_y; where the pointer was drawn last
fvars == <<back, front, tiles, dirty, mouse, presented>>

over(p) == {i \in DOMAIN Stack : p \in PixelsOf(Stack[i])}
top(p) == Max(over(p) \cup {0})
Pointer == <<-1, TRUE>>

cursor_rect(p) == rect_from_bounds(p[1] - 1, p[2] - 1, Cursor[1], Cursor[2])

clip_rect_to_screen(r) ==
    LET x0 == Max({r.x, 0})
        y0 == Max({r.y, 0})
    IN  rect_from_bounds(x0, y0, Min({r.x + r.w, Width}) - x0, Min({r.y + r.h, Height}) - y0)

\* Fault variant: the last tile is taken from the edge of the rectangle.
tilesOfShort(r) ==
    LET c == clip_rect_to_screen(r)
    IN  IF c.w <= 0 \/ c.h <= 0 THEN {}
        ELSE (c.x \div TileSize .. (c.x + c.w - TileSize) \div TileSize)
                 \X (c.y \div TileSize .. (c.y + c.h - 1) \div TileSize)

\* mark_dirty_rect
tilesOf(r) ==
    LET c == clip_rect_to_screen(r)
    IN  IF c.w <= 0 \/ c.h <= 0 THEN {}
        ELSE (c.x \div TileSize .. (c.x + c.w - 1) \div TileSize)
                 \X (c.y \div TileSize .. (c.y + c.h - 1) \div TileSize)

\* The rectangle around all dirty tiles.
desktop_get_dirty_region ==
    LET xs == {t[1] : t \in tiles}
        ys == {t[2] : t \in tiles}
    IN  rect_from_bounds(Min(xs) * TileSize, Min(ys) * TileSize,
                         (Max(xs) - Min(xs) + 1) * TileSize, (Max(ys) - Min(ys) + 1) * TileSize)

\* compose_user_app_direct copies whole rows of a window: the rows are those of
\* the rectangle, the columns are all of the window's.
composed(i, r) == {p \in PixelsOf(Stack[i]) : p[2] \in r.y .. r.y + r.h - 1}

\* Who paints pixel p when rectangle r is composed: the background inside r,
\* then every window that meets r.
paintersOf(p, r) ==
    (IF p \in PixelsOf(r) THEN {0} ELSE {})
       \cup {i \in DOMAIN Stack : rects_intersect(Stack[i], r) /\ p \in composed(i, r)}
desktop_render_rect(r) ==
    [p \in Pixels |-> IF paintersOf(p, r) = {} THEN back[p] ELSE <<Max(paintersOf(p, r)), TRUE>>]

\* Content changes and is marked dirty.
Change(r) ==
    /\ back' = [p \in Pixels |-> IF p \in PixelsOf(r) THEN <<back[p][1], FALSE>> ELSE back[p]]
    /\ front' = [p \in Pixels |-> IF p \in PixelsOf(r) /\ front[p] # Pointer
                                  THEN <<front[p][1], FALSE>> ELSE front[p]]
    /\ tiles' = tiles \cup tilesOf(r)
    /\ dirty' = (dirty \/ tilesOf(r) # {})
    /\ UNCHANGED <<mouse, presented>>

Move(p) == mouse' = p /\ UNCHANGED <<back, front, tiles, dirty, presented>>

\* The rectangle that the frame copies: the dirty region, and the old and the
\* new place of a pointer that has moved or that lies in it.
presentRegion(moved, region) ==
    LET now == cursor_rect(mouse)
        with(r) == rect_union(r, now)
    IN  CASE moved /\ region = {} -> {with(cursor_rect(presented))}
          [] moved -> {with(rect_union(r, cursor_rect(presented))) : r \in region}
          [] OTHER -> {IF rects_intersect(r, now) THEN with(r) ELSE r : r \in region}

\* One pass of the main loop.  The pointer is drawn into the back buffer and
\* taken out again once the rectangle was copied.
Frame ==
    LET region == IF dirty /\ tiles # {} THEN {desktop_get_dirty_region} ELSE {}
        shown == presentRegion(mouse # presented, region)
    IN  /\ \E b \in IF region = {} THEN {back} ELSE {desktop_render_rect(r) : r \in region} :
              /\ back' = b
              /\ front' = [p \in Pixels |->
                              IF \A r \in shown : p \notin PixelsOf(r) THEN front[p]
                              ELSE IF p \in PixelsOf(cursor_rect(mouse)) THEN Pointer
                              ELSE b[p]]
        /\ tiles' = IF dirty THEN {} ELSE tiles
        /\ dirty' = FALSE
        /\ presented' = IF shown = {} THEN presented ELSE mouse
        /\ UNCHANGED mouse

\* start_window_manager renders everything.
FrameInit ==
    /\ back = [p \in Pixels |-> <<top(p), TRUE>>] /\ tiles = {} /\ dirty = FALSE
    /\ mouse \in Points /\ presented = mouse
    /\ front = [p \in Pixels |-> IF p \in PixelsOf(cursor_rect(mouse)) THEN Pointer ELSE back[p]]

FrameNext ==
    \/ \E r \in Changes : Change(r)
    \/ \E p \in Points : Move(p)
    \/ Frame

\* mark_dirty_rect, desktop_get_dirty_region and the frame of kernel_main: when
\* nothing is left to draw, the screen shows one pointer, where the mouse is,
\* and elsewhere the present content of the window there.  Where windows
\* overlap it may be any of them (compose_user_app_direct does not stop at the
\* sides of the rectangle), but it is never an old picture.
ShowsTheScene ==
    ~dirty /\ mouse = presented =>
        \A p \in Pixels :
            IF p \in PixelsOf(cursor_rect(mouse)) THEN front[p] = Pointer
            ELSE /\ front[p][2]
                 /\ front[p][1] \in IF Cardinality(over(p)) > 1 THEN over(p) ELSE {top(p)}

(***************************************************************************)
(* compose_scene_rect: the background is painted only where no opaque      *)
(* window covers it; each turn of the loop cuts one window out of a list.  *)
(***************************************************************************)
VARIABLES list,              \* rect_list
          covered,           \* pixels that the windows seen so far cover
          turns              \* windows seen so far
cvars == <<list, covered, turns>>

\* Fault variant: the sides are as high as the piece that is cut.
subtractTall(R, w) ==
    LET rest == <<rect_from_bounds(R.x, R.y, R.w, w.y - R.y),
                  rect_from_bounds(R.x, w.y + w.h, R.w, R.y + R.h - (w.y + w.h)),
                  rect_from_bounds(R.x, R.y, w.x - R.x, R.h),
                  rect_from_bounds(w.x + w.w, R.y, R.x + R.w - (w.x + w.w), R.h)>>
    IN  IF ~rects_intersect(R, w) THEN <<R>> ELSE SelectSeq(rest, LAMBDA r : r.w > 0 /\ r.h > 0)

\* What is left of R after window w: above, below, left and right of it.
subtract(R, w) ==
    LET y0 == Max({w.y, R.y})
        y1 == Min({w.y + w.h, R.y + R.h})
        rest == <<rect_from_bounds(R.x, R.y, R.w, w.y - R.y),
                  rect_from_bounds(R.x, w.y + w.h, R.w, R.y + R.h - (w.y + w.h)),
                  rect_from_bounds(R.x, y0, w.x - R.x, y1 - y0),
                  rect_from_bounds(w.x + w.w, y0, R.x + R.w - (w.x + w.w), y1 - y0)>>
    IN  IF ~rects_intersect(R, w) THEN <<R>> ELSE SelectSeq(rest, LAMBDA r : r.w > 0 /\ r.h > 0)

\* Windows that are no larger than their borders are passed over.
Opaque(w) == rect_from_bounds(w.x + Inset, w.y + Inset, w.w - 2 * Inset, w.h - 2 * Inset)
Culls(w) == w.w > 2 * Inset /\ w.h > 2 * Inset /\ rects_intersect(Opaque(w), Region)

compose_scene_rect(w) ==
    /\ turns < MaxWindows
    /\ turns' = turns + 1
    /\ IF ~Culls(w) THEN UNCHANGED <<list, covered>>
       ELSE LET cut == FlattenSeq([i \in DOMAIN list |-> subtract(list[i], Opaque(w))])
            IN  /\ list' = SubSeq(cut, 1, Min({Len(cut), MaxRects}))
                /\ covered' = covered \cup Cells(Opaque(w))

CutInit == list = <<Region>> /\ covered = {} /\ turns = 0
CutNext == \E w \in Rects : compose_scene_rect(w)

\* compose_scene_rect: the pieces of the background that get painted leave out
\* exactly what the windows cover, and no pixel is painted twice.
BackgroundExact ==
    /\ Len(list) <= MaxRects
    /\ UNION {Cells(list[i]) : i \in DOMAIN list} = Cells(Region) \ covered
    /\ \A i, j \in DOMAIN list : i # j => ~rects_intersect(list[i], list[j])

(***************************************************************************)
(* The primitives of render.c under a clip rectangle.                      *)
(***************************************************************************)
VARIABLES clip,              \* clip_x .. clip_height
          ink,               \* pixels the last call wrote
          want               \* pixels it was meant to write
pvars == <<clip, ink, want>>

Whole == rect_from_bounds(0, 0, Width, Height)
Nothing == rect_from_bounds(0, 0, 0, 0)
visible == PixelsOf(Whole) \cap PixelsOf(clip)

PaintInit == clip = Whole /\ ink = {} /\ want = {}

fb_set_clip(r) ==
    LET c == clip_rect_to_screen(r)
    IN  clip' = (IF c.w <= 0 \/ c.h <= 0 THEN Nothing ELSE c) /\ ink' = {} /\ want' = {}
fb_reset_clip == clip' = Whole /\ ink' = {} /\ want' = {}

framebuffer_intersect_rect(r) ==
    LET x0 == Max({r.x, 0, clip.x})
        y0 == Max({r.y, 0, clip.y})
    IN  rect_from_bounds(x0, y0, Min({r.x + r.w, Width, clip.x + clip.w}) - x0,
                                 Min({r.y + r.h, Height, clip.y + clip.h}) - y0)

\* The pixels fb_fill_rect sets; an empty rectangle sets none.
filled(r) == IF r.w <= 0 \/ r.h <= 0 THEN {} ELSE PixelsOf(framebuffer_intersect_rect(r))
fb_fill_rect(r) == ink' = filled(r) /\ want' = PixelsOf(r) \cap visible /\ UNCHANGED clip

fb_draw_rect(r, t) ==
    /\ ink' = filled(rect_from_bounds(r.x, r.y, r.w, t))
              \cup filled(rect_from_bounds(r.x, r.y + r.h - t, r.w, t))
              \cup filled(rect_from_bounds(r.x, r.y, t, r.h))
              \cup filled(rect_from_bounds(r.x + r.w - t, r.y, t, r.h))
    /\ want' = (PixelsOf(r) \ PixelsOf(rect_from_bounds(r.x + t, r.y + t, r.w - 2 * t, r.h - 2 * t)))
                   \cap visible
    /\ UNCHANGED clip

\* Two Newton steps from a power of two, one correction.
fast_isqrt(v) ==
    LET g == CASE v >= 1024 -> 32 [] v >= 256 -> 16 [] v >= 64 -> 8 [] v >= 16 -> 4 [] v >= 4 -> 2
               [] OTHER -> 1
        t == (g + v \div g) \div 2
        h == (t + v \div t) \div 2
    IN  IF v <= 0 THEN 0 ELSE IF h * h > v THEN h - 1 ELSE h

\* First and last column of a rounded rectangle in row py.
get_rounded_rect_scanline_bounds(py, r, radius) ==
    LET right == r.x + r.w - 1
        bottom == r.y + r.h - 1
        dy == IF py < r.y + radius THEN r.y + radius - 1 - py ELSE py - (bottom - radius + 1)
        dx == fast_isqrt(radius * radius - dy * dy) + 1
    IN  IF radius <= 0 \/ (py >= r.y + radius /\ py <= bottom - radius) THEN <<r.x, right>>
        ELSE <<r.x + radius - dx, right - radius + dx>>

rounded_rect_contains(p, r, radius) ==
    LET right == r.x + r.w - 1
        bottom == r.y + r.h - 1
        dx == IF p[1] < r.x + radius THEN r.x + radius - 1 - p[1] ELSE p[1] - (right - radius + 1)
        dy == IF p[2] < r.y + radius THEN r.y + radius - 1 - p[2] ELSE p[2] - (bottom - radius + 1)
    IN  /\ p \in PixelsOf(r)
        /\ \/ radius <= 0
           \/ p[1] >= r.x + radius /\ p[1] <= right - radius
           \/ p[2] >= r.y + radius /\ p[2] <= bottom - radius
           \/ dx * dx + dy * dy <= radius * radius

\* Row by row, cut to the visible part of the shape's rectangle.
fill_rounded_rect_gradient(r, radius) ==
    /\ ink' = UNION {LET b == get_rounded_rect_scanline_bounds(py, r, radius)
                         c == framebuffer_intersect_rect(r)
                         x0 == Max({b[1], c.x})
                         x1 == Min({b[2], c.x + c.w - 1})
                     IN  filled(rect_from_bounds(x0, py, x1 - x0 + 1, 1)) :
                        py \in {q[2] : q \in PixelsOf(framebuffer_intersect_rect(r))}}
    /\ want' = {p \in visible : rounded_rect_contains(p, r, radius)}
    /\ UNCHANGED clip

\* Fault variant: the run that reaches the end of the row is not copied.
runsOfOpen(r, y, x0, x1) ==
    LET step(acc, x) ==
            IF <<x - r.x, y - r.y>> \notin Glass
            THEN [acc EXCEPT !.run = IF @ < 0 THEN x ELSE @]
            ELSE IF acc.run >= 0
            THEN [run |-> -1, out |-> acc.out \cup ((acc.run .. x - 1) \X {y})]
            ELSE acc
    IN  FoldLeft(step, [run |-> -1, out |-> {}], [k \in 1 .. x1 - x0 |-> x0 + k - 1]).out

\* blit_window_surface_region, opaque path: a row is copied in runs that end at
\* a transparent pixel or at the end; x1 acts as a transparent pixel.
runsOf(r, y, x0, x1) ==
    LET step(acc, x) ==
            IF x < x1 /\ <<x - r.x, y - r.y>> \notin Glass
            THEN [acc EXCEPT !.run = IF @ < 0 THEN x ELSE @]
            ELSE IF acc.run >= 0
            THEN [run |-> -1, out |-> acc.out \cup ((acc.run .. x - 1) \X {y})]
            ELSE acc
    IN  FoldLeft(step, [run |-> -1, out |-> {}], [k \in 1 .. x1 - x0 + 1 |-> x0 + k - 1]).out
blit_window_surface_region(r) ==
    LET x0 == Max({r.x, clip.x})
        y0 == Max({r.y, clip.y})
        x1 == Min({r.x + r.w, clip.x + clip.w})
        y1 == Min({r.y + r.h, clip.y + clip.h})
    IN  /\ ink' = IF x0 >= x1 \/ y0 >= y1 THEN {} ELSE UNION {runsOf(r, y, x0, x1) : y \in y0 .. y1 - 1}
        /\ want' = {p \in PixelsOf(r) \cap visible : <<p[1] - r.x, p[2] - r.y>> \notin Glass}
        /\ UNCHANGED clip

PaintNext ==
    \/ \E r \in Boxes :
          \/ fb_set_clip(r) \/ fb_fill_rect(r) \/ blit_window_surface_region(r)
          \/ r.w > 0 /\ r.h > 0 /\ fb_draw_rect(r, 1)
          \/ \E radius \in Radii : 2 * radius <= Min({r.w, r.h}) /\ fill_rounded_rect_gradient(r, radius)
    \/ fb_reset_clip

\* The clipping of render.c: every call writes exactly the pixels of its shape
\* that lie on the screen and in the clip rectangle.
PaintsItsShape == ink = want

(***************************************************************************)
(* reflow_content_buffer: rows of old width become rows of new width inside*)
(* one buffer, by memmoves in an order that must not destroy a row before  *)
(* it has moved.                                                           *)
(***************************************************************************)
VARIABLES buf, shape         \* cells of the buffer; [w, h] they are laid out in
rvars == <<buf, shape>>

Fill == <<-1, -1>>
BufLen == Max(Widths) * Max(Rows)
ReflowInit == \E w \in Widths, h \in Rows :
    /\ shape = [w |-> w, h |-> h]
    /\ buf = [i \in 0 .. BufLen - 1 |-> IF i < w * h THEN <<i % w, i \div w>> ELSE Fill]

\* Fault variant: rows always move from the top.
rowOrderDown(wide, n) == [k \in 1 .. n |-> k - 1]
\* Widening moves the last row first.
rowOrder(wide, n) == [k \in 1 .. n |-> IF wide THEN n - k ELSE k - 1]

moved(b, y, w, nw, cw) == [i \in DOMAIN b |-> IF i - y * nw \in 0 .. cw - 1 THEN b[y * w + i - y * nw] ELSE b[i]]

reflow_content_buffer(nw, nh) ==
    LET cw == Min({shape.w, nw})
        ch == Min({shape.h, nh})
        b  == FoldLeft(LAMBDA acc, y : moved(acc, y, shape.w, nw, cw), buf, rowOrder(nw >= shape.w, ch))
    IN  /\ shape' = [w |-> nw, h |-> nh]
        /\ buf' = [i \in DOMAIN buf |->
                      IF i < nw * nh /\ (i \div nw >= ch \/ i % nw >= cw) THEN Fill ELSE b[i]]
ReflowNext == \E nw \in Widths, nh \in Rows : reflow_content_buffer(nw, nh)

\* reflow_content_buffer: whatever sizes a window went through, a cell shows
\* the pixel that was at its place, or the fill colour.
ReflowKeeps ==
    \A x \in 0 .. shape.w - 1, y \in 0 .. shape.h - 1 : buf[y * shape.w + x] \in {<<x, y>>, Fill}

(***************************************************************************)
(* mark_window_dirty_region and render_window_surface.                     *)
(***************************************************************************)
VARIABLES hurt, region       \* pixels of the window to repaint; window_dirty_rects, or {}
dvars == <<hurt, region>>

DamageInit == hurt = {} /\ region = {}

mark_window_dirty == region' = {Whole} /\ hurt' = Pixels

\* Fault variant: the last mark replaces the ones before it.
mergedLast(old, c) == {c}

merged(old, c) == {rect_union(r, c) : r \in old}
mark_window_dirty_region(r) ==
    \E c \in {clip_rect_to_screen(r)} :
        IF c.w <= 0 \/ c.h <= 0 THEN UNCHANGED dvars
        ELSE /\ region' = IF region = {} THEN {c} ELSE merged(region, c)
             /\ hurt' = hurt \cup PixelsOf(r)
render_window_surface == region # {} /\ region' = {} /\ hurt' = {}

DamageNext == mark_window_dirty \/ render_window_surface \/ \E r \in Boxes : mark_window_dirty_region(r)

\* The dirty rectangle of a window covers all that was marked since it was
\* drawn, and does not leave the window.
DamageCovered ==
    /\ hurt \subseteq UNION {PixelsOf(r) : r \in region}
    /\ \A r \in region : r.x >= 0 /\ r.y >= 0 /\ r.x + r.w <= Width /\ r.y + r.h <= Height

(***************************************************************************)
(* The context menu: a list of labels, 0 for a separator.                  *)
(***************************************************************************)
VARIABLES entries, at        \* the entries; where the menu was asked for
mvars == <<entries, at>>

MenuInit == entries = <<>> /\ at \in Points
Add(n) == Len(entries) < MenuCap /\ entries' = Append(entries, n) /\ UNCHANGED at

context_menu_rect ==
    LET w == Max({entries[i] : i \in DOMAIN entries} \cup {2}) + 2
        h == Max({Len(entries), 1}) * RowH + Pad + Foot
        x == IF at[1] + w > Width - Edge THEN Width - w - Edge ELSE at[1]
        y == IF at[2] + h > Height - Edge THEN Height - h - Edge ELSE at[2]
    IN  rect_from_bounds(Max({x, Edge}), Max({y, Edge}), w, h)

\* Fault variant: the padding above the first row is forgotten.
rowAtTop(r, y) == (y - r.y) \div RowH
\* Division truncates towards zero.
rowAt(r, y) == IF y - r.y < Pad THEN 0 ELSE (y - r.y - Pad) \div RowH
context_menu_item_at(p) ==
    LET r == context_menu_rect
        row == rowAt(r, p[2])
    IN  IF p \notin Cells(r) \/ row >= Len(entries) THEN -1
        ELSE IF entries[row + 1] = 0 THEN -1 ELSE row

\* draw_context_menu: the rows of entry i, counted from 0.
drawnRows(i) == LET ry == context_menu_rect.y + Pad + i * RowH IN ry .. ry + RowH - 1

\* draw_modal_message: a line is drawn when it is full or a newline comes; at
\* most three lines.
LinesOf(msg) ==
    LET step(acc, ch) ==
            LET brk == ch = "nl" \/ Len(acc.line) >= LineCap
                lines == IF brk THEN Append(acc.lines, acc.line) ELSE acc.lines
            IN  IF Len(acc.lines) >= 3 THEN acc
                ELSE [lines |-> lines,
                      line |-> (IF brk THEN <<>> ELSE acc.line) \o (IF ch = "nl" THEN <<>> ELSE <<ch>>)]
        end == FoldLeft(step, [lines |-> <<>>, line |-> <<>>], msg)
    IN  IF end.line # <<>> /\ Len(end.lines) < 3 THEN Append(end.lines, end.line) ELSE end.lines

MenuNext == \E n \in Labels : Add(n)

\* The entry under the pointer is the one drawn there, the menu lies on the
\* screen when it fits at all, and an error box shows a prefix of its message.
MenuExact ==
    /\ \A i \in 0 .. Len(entries) - 1 :
          \A y \in drawnRows(i) :
              context_menu_item_at(<<context_menu_rect.x, y>>) = IF entries[i + 1] = 0 THEN -1 ELSE i
    /\ LET r == context_menu_rect
       IN  r.h <= Height - 2 * Edge /\ r.w <= Width - 2 * Edge =>
               r.x >= Edge /\ r.y >= Edge /\ r.x + r.w <= Width - Edge /\ r.y + r.h <= Height - Edge
    /\ \A n \in 0 .. Len(Message) :
          LET msg == SubSeq(Message, 1, n)
          IN  IsPrefix(FlattenSeq(LinesOf(msg)), SelectSeq(msg, LAMBDA ch : ch # "nl"))
=============================================================================
