------------------------------- MODULE VexUi -------------------------------
(***************************************************************************)
(* libvexui (user/vexui.c), the retained-mode toolkit every desktop        *)
(* program is linked with.  Three machines:                                *)
(*   Loop    the event loop of vui_run: one round polls the window's       *)
(*           events, then updates hover, menus, focus, sliders and         *)
(*           tooltips, and repaints when the dirty flag says so;           *)
(*   Layout  the placing of widgets by anchors and nested boxes;           *)
(*   Icon    the pool of icon slots and the cache of rendered pictures.    *)
(* A point of the window is a Place: At gives the widgets it is inside of, *)
(* XAt the value a slider reads from it.                                   *)
(***************************************************************************)
EXTENDS Integers, FiniteSets, FiniteSetsExt

CONSTANTS Widgets,    \* indexes into g_win.widgets, in creation order
          Kind,       \* "menu", "item", "button", "input" or "slider"
          Tips,       \* widgets with a tooltip text
          Places, At, XAt,
          Hideable,   \* widgets the program shows and hides
          Delay,      \* TOOLTIP_DELAY
          MaxText     \* sizeof(text) - 1 of an input

VARIABLES mouse, down, click, menu, focus, drag, hover, pressed, value,
          visible, tip, ticks, dirty, painted, phase

state == <<menu, focus, drag, hover, pressed, value, visible, tip, ticks, dirty>>
lvars == <<mouse, down, click, menu, focus, drag, hover, pressed, value, visible,
           tip, ticks, dirty, painted, phase>>

None == 0
Nowhere == "nowhere"
Sliders == {w \in Widgets : Kind[w] = "slider"}
Clickable == {w \in Widgets : Kind[w] \in {"button", "input", "slider"}}

inside(w, p) == p # Nowhere /\ visible[w] /\ w \in At[p]

First(S) == IF S = {} THEN None ELSE Min(S)

(* What draw_widget, draw_dropdown and draw_tooltip make of the state.     *)
Picture(m, f, h, pr, v, vis, t, n) ==
    [looks  |-> [w \in {x \in Widgets : vis[x] /\ Kind[x] # "item"} |->
                    <<h[w], pr[w], v[w], w = f, w = m>>],
     panel  |-> IF m = None THEN {} ELSE {<<w, h[w]>> : w \in {x \in Widgets : Kind[x] = "item"}},
     bubble |-> IF t # None /\ n >= Delay /\ vis[t] /\ h[t] THEN t ELSE None]

Shown == Picture(menu, focus, hover, pressed, value, visible, tip, ticks)

Init ==
    /\ mouse = Nowhere /\ down = FALSE /\ click = Nowhere
    /\ menu = None /\ focus = None /\ drag = None
    /\ hover = [w \in Widgets |-> FALSE] /\ pressed = [w \in Widgets |-> FALSE]
    /\ value = [w \in Widgets |-> 0] /\ visible = [w \in Widgets |-> TRUE]
    /\ tip = None /\ ticks = 0
    /\ dirty = FALSE /\ phase = "poll"
    /\ painted = Shown

(* The events of one poll loop.  A press is remembered in click and is     *)
(* dispatched after the last event was taken; a later press replaces it.   *)
MouseMove(p) ==
    /\ phase = "poll" /\ mouse' = p
    /\ UNCHANGED <<down, click, state, painted, phase>>

MouseDown(p) ==
    /\ phase = "poll"
    /\ mouse' = p /\ down' = TRUE /\ click' = p
    /\ UNCHANGED <<state, painted, phase>>

MouseUp ==
    /\ phase = "poll"
    /\ down' = FALSE /\ drag' = None
    /\ UNCHANGED <<mouse, click, menu, focus, hover, pressed, value, visible, tip, ticks,
                   dirty, painted, phase>>

(* A keystroke edits the focused input; without one it is the program's.   *)
edited(n, k) ==
    CASE k = "char"      -> IF n < MaxText THEN n + 1 ELSE n
      [] k = "backspace" -> IF n > 0 THEN n - 1 ELSE n
      [] OTHER           -> n

Key(k) ==
    /\ phase = "poll" /\ focus # None
    /\ value' = [value EXCEPT ![focus] = edited(@, k)]
    /\ focus' = IF k \in {"escape", "enter"} THEN None ELSE focus
    /\ dirty' = TRUE
    /\ UNCHANGED <<mouse, down, click, menu, drag, hover, pressed, visible, tip, ticks,
                   painted, phase>>

Resize ==
    /\ phase = "poll" /\ dirty' = TRUE
    /\ UNCHANGED <<mouse, down, click, menu, focus, drag, hover, pressed, value, visible,
                   tip, ticks, painted, phase>>

(* What the program's callbacks (a tick, a click, a submit) may call.      *)
vui_set_visible(w) ==
    /\ visible' = [visible EXCEPT ![w] = ~@] /\ dirty' = TRUE
    /\ UNCHANGED <<mouse, down, click, menu, focus, drag, hover, pressed, value, tip, ticks,
                   painted, phase>>

vui_set_value(w, v) ==
    /\ v # value[w]
    /\ value' = [value EXCEPT ![w] = v] /\ dirty' = TRUE
    /\ UNCHANGED <<mouse, down, click, menu, focus, drag, hover, pressed, visible, tip, ticks,
                   painted, phase>>

vui_clear_focus ==
    /\ focus' = None /\ dirty' = TRUE
    /\ UNCHANGED <<mouse, down, click, menu, drag, hover, pressed, value, visible, tip, ticks,
                   painted, phase>>

(* An open dropdown takes the click: an item of it, another title, or      *)
(* anywhere else, which closes it.  Otherwise only a title takes it.       *)
menuAfter ==
    LET title == First({w \in Widgets : Kind[w] = "menu" /\ inside(w, click)})
        item  == {w \in Widgets : Kind[w] = "item" /\ inside(w, click)}
    IN  IF click = Nowhere THEN menu
        ELSE IF menu # None /\ item # {} THEN None
        ELSE IF menu # None \/ title # None THEN title
        ELSE menu

consumed == menu # None \/ menuAfter # None

tipStepQuiet(w, t, h) ==
    LET u == IF w \in Tips /\ h[w] /\ t.of = w /\ t.n < Delay THEN [t EXCEPT !.n = @ + 1] ELSE t
    IN  IF w \in Tips /\ h[w] /\ t.of # w THEN [t EXCEPT !.of = w, !.n = 1] ELSE u

(* The tooltip pass over the clickable widgets in index order.             *)
tipStep(w, t, h) ==
    IF w \notin Tips THEN t
    ELSE IF h[w] THEN IF t.of = w THEN IF t.n < Delay
                                       THEN [t EXCEPT !.n = @ + 1, !.dirty = @ \/ t.n + 1 = Delay]
                                       ELSE t
                      ELSE [t EXCEPT !.of = w, !.n = 1]
    ELSE IF t.of = w THEN [of |-> None, n |-> 0, dirty |-> t.dirty \/ t.n >= Delay]
    ELSE t

tipStepAll(h) ==
    LET T[w \in 0..Max(Widgets)] ==
          IF w = 0 THEN [of |-> tip, n |-> ticks, dirty |-> FALSE]
          ELSE IF w \in Clickable THEN tipStep(w, T[w - 1], h) ELSE T[w - 1]
        last == T[Max(Widgets)]
    IN  IF last.of # None /\ ~h[last.of]
        THEN [of |-> None, n |-> 0, dirty |-> last.dirty \/ last.n >= Delay] ELSE last

(* The pass after the polling: menus, hover, sliders, tooltips, focus.     *)
Dispatch ==
    LET c   == IF consumed THEN Nowhere ELSE click
        hov == [w \in Widgets |->
                  CASE Kind[w] = "menu" -> inside(w, mouse)
                    [] Kind[w] = "item" -> IF menu = None THEN hover[w] ELSE inside(w, mouse)
                    [] OTHER            -> menuAfter = None /\ inside(w, mouse)]
        prs == [w \in Widgets |-> w \in Clickable /\ hov[w] /\ down]
        grip == First({w \in Sliders : inside(w, c)})
        dr  == IF grip # None THEN grip ELSE drag
        val == IF dr # None /\ down THEN [value EXCEPT ![dr] = XAt[mouse]] ELSE value
        inp == First({w \in Widgets : Kind[w] = "input" /\ inside(w, c)})
        foc == IF inp # None THEN inp ELSE IF c # Nowhere THEN None ELSE focus
        t   == tipStepAll(hov)
    IN  /\ phase = "poll" /\ phase' = "paint"
        /\ menu' = menuAfter /\ hover' = hov /\ pressed' = prs
        /\ drag' = dr /\ value' = val /\ focus' = foc
        /\ tip' = t.of /\ ticks' = t.n
        /\ dirty' = (dirty \/ hov # hover \/ prs # pressed \/ val # value \/ t.dirty
                     \/ (click # Nowhere /\ consumed)
                     \/ inp # None \/ foc # focus)
        /\ click' = Nowhere
        /\ UNCHANGED <<mouse, down, visible, painted>>

(* The end of the round: a repaint when anything was marked dirty.         *)
repaint ==
    /\ phase = "paint" /\ phase' = "poll"
    /\ painted' = IF dirty THEN Shown ELSE painted
    /\ dirty' = FALSE
    /\ UNCHANGED <<mouse, down, click, menu, focus, drag, hover, pressed, value, visible,
                   tip, ticks>>

Next ==
    \/ \E p \in Places : MouseMove(p) \/ MouseDown(p)
    \/ MouseUp \/ Resize \/ Dispatch \/ repaint \/ vui_clear_focus
    \/ \E k \in {"char", "backspace", "escape", "enter"} : Key(k)
    \/ \E w \in Hideable : vui_set_visible(w)
    \/ \E w \in Sliders, p \in Places : vui_set_value(w, XAt[p])

TypeOK ==
    /\ mouse \in Places \cup {Nowhere} /\ click \in Places \cup {Nowhere}
    /\ down \in BOOLEAN /\ dirty \in BOOLEAN /\ phase \in {"poll", "paint"}
    /\ {menu, focus, drag, tip} \subseteq Widgets \cup {None}
    /\ ticks \in 0..Delay

(***************************************************************************)
(* What is on the screen is what the widgets say, unless the dirty flag is *)
(* set: every change of hover, press, focus, menu, value, visibility or    *)
(* tooltip marks the window, so no repaint is ever missed.                 *)
(***************************************************************************)
PictureIsCurrent == ~dirty => painted = Shown

(***************************************************************************)
(* Layout.  Boxes and widgets are numbered in creation order; Parent is 0  *)
(* for a root.  A rectangle is <<x, y, w, h>>; the margins of a root are   *)
(* taken when its bounds are set and stay until they are set again.        *)
(***************************************************************************)
CONSTANTS Nodes, BoxKind, Parent, Anchors, Expand, Fill, Gap, Pad,
          Created,    \* the rectangles the program creates the nodes with
          WinSizes, Bounds,
          Toggled     \* the nodes the program shows and hides

VARIABLES size, geo, margin, hidden, settledAt

yvars == <<size, geo, margin, hidden, settledAt>>

AtLeast(n, low) == IF n < low THEN low ELSE n

marginsOf(r, s) == <<r[1], r[2], s[1] - (r[1] + r[3]), s[2] - (r[2] + r[4])>>

(* One axis of layout_widget: near and far anchors, near and far margins.  *)
anchoredAxis(near, far, lo, hi, extent, len) ==
    IF near /\ far THEN <<lo, AtLeast(extent - hi - lo, 1)>>
    ELSE IF far THEN <<extent - hi - len, len>>
    ELSE <<lo, len>>

layout_widget(w, r, s, m) ==
    LET a == Anchors[w]
        h == anchoredAxis("left" \in a, "right" \in a, m[1], m[3], s[1], r[3])
        v == anchoredAxis("top" \in a, "bottom" \in a, m[2], m[4], s[2], r[4])
    IN  <<h[1], v[1], h[2], v[2]>>

(* The visible children of a box, one after the other along its main axis; *)
(* what the fixed ones leave is shared evenly by the expanding ones.       *)
layout_box(g, b, hid) ==
    LET kids  == {w \in Nodes : Parent[w] = b /\ w \notin hid}
        ax    == IF BoxKind[b] = "hbox" THEN 1 ELSE 2
        cr    == 3 - ax
        grows == {w \in kids : Expand[w]}
        inner == AtLeast(g[b][ax + 2] - 2 * Pad, 0)
        cross == AtLeast(g[b][cr + 2] - 2 * Pad, 0)
        fixed == MapThenSumSet(LAMBDA w : g[w][ax + 2], kids \ grows)
        left  == AtLeast(inner - (Cardinality(kids) - 1) * Gap - fixed, 0)
        len(w) == IF Expand[w] THEN left \div Cardinality(grows) ELSE g[w][ax + 2]
        wide(w) == IF Fill[w] THEN cross ELSE g[w][cr + 2]
        start(w) == g[b][ax] + Pad
                    + MapThenSumSet(LAMBDA k : len(k) + Gap, {k \in kids : k < w})
    IN  [w \in Nodes |->
           IF w \notin kids THEN g[w]
           ELSE IF ax = 1 THEN <<start(w), g[b][2] + Pad, len(w), wide(w)>>
           ELSE <<g[b][1] + Pad, start(w), wide(w), len(w)>>]

anchored(g, s, m) ==
    [w \in Nodes |-> IF Parent[w] = 0 THEN layout_widget(w, g[w], s, m[w]) ELSE g[w]]

layout_widgetsInnerFirst(g, s, m, hid) ==
    LET n == Cardinality(Nodes)
        L[k \in 0..n] == IF k = 0 THEN anchored(g, s, m)
                         ELSE IF BoxKind[n + 1 - k] # "leaf" THEN layout_box(L[k - 1], n + 1 - k, hid)
                         ELSE L[k - 1]
    IN  L[n]

layout_widgets(g, s, m, hid) ==
    LET L[k \in 0..Cardinality(Nodes)] ==
          IF k = 0 THEN anchored(g, s, m)
          ELSE IF BoxKind[k] # "leaf" THEN layout_box(L[k - 1], k, hid) ELSE L[k - 1]
    IN  L[Cardinality(Nodes)]

(* The layout of the first paint; margins come from the created bounds.    *)
LayoutInit ==
    /\ size \in WinSizes /\ hidden = {}
    /\ margin = [w \in Nodes |-> marginsOf(Created[w], size)]
    /\ geo = layout_widgets(Created, size, margin, hidden)
    /\ settledAt = [s |-> size, h |-> hidden, m |-> margin, g |-> geo]

(* Every one of these marks the window dirty; the repaint that ends the    *)
(* round lays out again.                                                   *)
WindowResized(s) ==
    /\ s # size /\ size' = s
    /\ geo' = layout_widgets(geo, s, margin, hidden)
    /\ UNCHANGED <<margin, hidden, settledAt>>

Hide(w) ==
    /\ hidden' = IF w \in hidden THEN hidden \ {w} ELSE hidden \cup {w}
    /\ geo' = layout_widgets(geo, size, margin, hidden')
    /\ UNCHANGED <<size, margin, settledAt>>

vui_set_bounds(w, r) ==
    /\ Parent[w] = 0
    /\ margin' = [margin EXCEPT ![w] = marginsOf(r, size)]
    /\ geo' = layout_widgets([geo EXCEPT ![w] = r], size, margin', hidden)
    /\ UNCHANGED <<size, hidden, settledAt>>

LayoutNext ==
    \/ \E s \in WinSizes : WindowResized(s)
    \/ \E w \in Toggled : Hide(w)
    \/ \E w \in Nodes, r \in Bounds : vui_set_bounds(w, r)

(***************************************************************************)
(* A repaint settles the layout at once - laying out a second time moves   *)
(* nothing, so no frame is drawn with an inner box one step behind its     *)
(* outer one - and a window brought back to an earlier size, with the same *)
(* margins and widgets, has its earlier geometry (layout_widgets).         *)
(***************************************************************************)
LayoutSettles ==
    /\ layout_widgets(geo, size, margin, hidden) = geo
    /\ size = settledAt.s /\ hidden = settledAt.h /\ margin = settledAt.m
         => geo = settledAt.g

(***************************************************************************)
(* Icons.  A widget gets a slot of the icon pool the first time an icon is *)
(* set; draw_svg_icon keeps what it rendered in a cache of CacheSlots      *)
(* entries keyed by picture, size and colour, replaced in turn.            *)
(***************************************************************************)
CONSTANTS IconWidgets, Svgs, IconSizes, Colors, PoolSlots, CacheSlots

VARIABLES slot, store, cache, cacheNext,
          wanted,     \* history: the icon each widget was last given
          blitted     \* the picture, size and colour last drawn, and those asked for

ivars == <<slot, store, cache, cacheNext, wanted, blitted>>

NoIcon == "none"

IconInit ==
    /\ slot = [w \in IconWidgets |-> 0]
    /\ store = [i \in 1..PoolSlots |-> NoIcon]
    /\ cache = [i \in 0..CacheSlots - 1 |-> <<>>] /\ cacheNext = 0
    /\ wanted = [w \in IconWidgets |-> NoIcon] /\ blitted = <<>>

icon_slot_for(w) ==
    LET free == (1..PoolSlots) \ {slot[v] : v \in IconWidgets}
    IN  IF slot[w] # 0 THEN slot[w] ELSE IF free = {} THEN 0 ELSE Min(free)

(* vui_set_icon_svg, and vui_set_icon_svg_path: a file that cannot be read *)
(* leaves the widget with an empty icon.                                   *)
vui_set_icon(w, svg) ==
    /\ icon_slot_for(w) # 0
    /\ slot' = [slot EXCEPT ![w] = icon_slot_for(w)]
    /\ store' = [store EXCEPT ![icon_slot_for(w)] = svg]
    /\ wanted' = [wanted EXCEPT ![w] = svg]
    /\ UNCHANGED <<cache, cacheNext, blitted>>

sameKeyAnyColor(entry, key) == entry # <<>> /\ entry[1] = key[1] /\ entry[2] = key[2]

sameKey(entry, key) == entry = key

draw_svg_icon(w, n, c) ==
    LET key == <<store[slot[w]], n, c>>
        hit == {i \in DOMAIN cache : sameKey(cache[i], key)}
    IN  /\ slot[w] # 0 /\ store[slot[w]] # NoIcon
        /\ IF hit # {} THEN UNCHANGED <<cache, cacheNext>>
           ELSE /\ cache' = [cache EXCEPT ![cacheNext] = key]
                /\ cacheNext' = (cacheNext + 1) % CacheSlots
        /\ blitted' = <<IF hit # {} THEN cache[Min(hit)] ELSE key, <<wanted[w], n, c>>>>
        /\ UNCHANGED <<slot, store, wanted>>

IconNext ==
    \/ \E w \in IconWidgets, svg \in Svgs \cup {NoIcon} : vui_set_icon(w, svg)
    \/ \E w \in IconWidgets, n \in IconSizes, c \in Colors : draw_svg_icon(w, n, c)

(***************************************************************************)
(* A widget is drawn with the icon it was last given, in the size and      *)
(* colour asked for, whatever the pool and the picture cache held before.  *)
(***************************************************************************)
IconsExact == blitted # <<>> => blitted[1] = blitted[2]
=============================================================================
