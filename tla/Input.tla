------------------------------- MODULE Input --------------------------------
(***************************************************************************)
(* Keyboard and pointer of the two ports: the PS/2 devices of the PC and   *)
(* the virtio devices of arm64.                                            *)
(***************************************************************************)
EXTENDS Integers, Sequences, SequencesExt

(***************************************************************************)
(* PS/2 keyboard and mouse (kernel/src/input.c).  The controller hands out *)
(* the bytes of both devices one at a time; input_poll decodes them with   *)
(* state that lives on between polls: the prefix flag, the modifiers and   *)
(* the mouse packet under way.  What the user does appends the bytes the   *)
(* devices send for it.                                                    *)
(***************************************************************************)
CONSTANTS Width, MaxQueue, MaxKeys, MaxMoves

VARIABLES queue,              \* bytes in the controller
          extended, shift, ctrl, chars,
          packet, mouse,      \* bytes of the packet so far; x and the left button
          seen,               \* what this poll reports: edges of the button
          atPoll,             \* the button when the poll began
          typed, swallowed,   \* ghosts: what the keys struck should give
          user                \* ghosts: shifts and ctrls held, true x and button

ps2vars == <<queue, extended, shift, ctrl, chars, packet, mouse, seen, atPoll,
          typed, swallowed, user>>

Ps2Keys == {"a", "up", "shift", "lctrl", "rctrl", "print"}

\* Set 1 scan codes, pressed and released.  E0 is the prefix; PrintScreen
\* brings a shift of its own.
down == [a |-> <<"a">>, up |-> <<"E0", "up">>, shift |-> <<"2A">>, lctrl |-> <<"1D">>,
         rctrl |-> <<"E0", "1D">>, print |-> <<"E0", "2A", "E0", "37">>]
up == [a |-> <<"9E">>, up |-> <<"E0", "C8">>, shift |-> <<"AA">>, lctrl |-> <<"9D">>,
       rctrl |-> <<"E0", "9D">>, print |-> <<"E0", "B7", "E0", "AA">>]

Ps2Init ==
    /\ queue = <<>> /\ extended = FALSE /\ shift = FALSE /\ ctrl = FALSE /\ chars = <<>>
    /\ packet = <<>> /\ mouse = [x |-> Width \div 2, left |-> FALSE]
    /\ seen = [pressed |-> FALSE, released |-> FALSE] /\ atPoll = FALSE
    /\ typed = <<>> /\ swallowed = FALSE
    /\ user = [held |-> {}, x |-> Width \div 2, left |-> FALSE, keys |-> 0, moves |-> 0]

clamp_mouse(x) == IF x < 0 THEN 0 ELSE IF x >= Width THEN Width - 1 ELSE x

\* What a key stands for while the modifiers are as the user holds them.
keycode_to_char(c, s, k) == IF k THEN "^" \o c ELSE IF s THEN "S" \o c ELSE c

Strike(k) ==
    /\ k \notin user.held /\ user.keys < MaxKeys
    /\ Len(queue) + 4 <= MaxQueue
    /\ k = "shift" => "print" \notin user.held
    /\ k = "print" => "shift" \notin user.held
    /\ k = "lctrl" => "rctrl" \notin user.held
    /\ k = "rctrl" => "lctrl" \notin user.held
    /\ queue' = queue \o down[k]
    /\ user' = [user EXCEPT !.held = @ \cup {k}, !.keys = @ + 1]
    /\ typed' = IF k = "up" THEN Append(typed, "up")
                ELSE IF k = "a" /\ ~swallowed
                THEN Append(typed, keycode_to_char("a", user.held \cap {"shift", "print"} # {},
                                                   user.held \cap {"lctrl", "rctrl"} # {}))
                ELSE typed
    /\ swallowed' = (swallowed /\ k = "shift")
    /\ UNCHANGED <<extended, shift, ctrl, chars, packet, mouse, seen, atPoll>>

\* A released right Ctrl or PrintScreen leaves the prefix flag set, and the
\* next key that is no modifier goes with it.
Lift(k) ==
    /\ k \in user.held /\ Len(queue) + 4 <= MaxQueue
    /\ queue' = queue \o up[k]
    /\ user' = [user EXCEPT !.held = @ \ {k}]
    /\ swallowed' = (k \in {"rctrl", "print"} \/ (swallowed /\ k \in {"shift", "lctrl"}))
    /\ UNCHANGED <<extended, shift, ctrl, chars, packet, mouse, seen, atPoll, typed>>

\* The mouse sends the button with bit 3 set, then dx and dy; x alone is followed.
Move(dx, left) ==
    /\ user.moves < MaxMoves /\ Len(queue) + 3 <= MaxQueue
    /\ queue' = queue \o <<<<"mouse", IF left THEN 9 ELSE 8>>, <<"mouse", dx>>, <<"mouse", 8>>>>
    /\ user' = [user EXCEPT !.x = clamp_mouse(@ + dx), !.left = left, !.moves = @ + 1]
    /\ UNCHANGED <<extended, shift, ctrl, chars, packet, mouse, seen, atPoll, typed, swallowed>>

\* input_poll enters: the edges of the poll before have been handed over.
PollBegins ==
    /\ queue # <<>>
    /\ seen' = [pressed |-> FALSE, released |-> FALSE] /\ atPoll' = mouse.left
    /\ UNCHANGED <<queue, extended, shift, ctrl, chars, packet, mouse, typed, swallowed, user>>

isMouse(b) == b \in {"mouse"} \X Int
bit3(v) == (v % 16) \div 8 = 1

\* Fault variant: the packet is taken before its last byte is there.
completeEarly(p) == Len(p) = 2

complete(p) == Len(p) = 3

MouseByte ==
    /\ queue # <<>> /\ isMouse(queue[1]) /\ queue' = Tail(queue)
    /\ LET p == Append(packet, queue[1][2])
           left == p[1] % 2 = 1
       IN IF packet = <<>> /\ ~bit3(queue[1][2]) THEN UNCHANGED <<packet, mouse, seen>>
          ELSE IF ~complete(p) THEN packet' = p /\ UNCHANGED <<mouse, seen>>
          ELSE /\ packet' = <<>>
               /\ mouse' = [x |-> clamp_mouse(mouse.x + p[2]), left |-> left]
               /\ seen' = [pressed |-> seen.pressed \/ (left /\ ~mouse.left),
                           released |-> seen.released \/ (~left /\ mouse.left)]
    /\ UNCHANGED <<extended, shift, ctrl, chars, atPoll, typed, swallowed, user>>

breaks == {"9E", "C8", "B7"}

afterExtended == FALSE

KeyByte ==
    /\ queue # <<>> /\ ~isMouse(queue[1]) /\ queue' = Tail(queue)
    /\ LET v == queue[1] IN
        \/ v = "E0" /\ extended' = TRUE /\ UNCHANGED <<shift, ctrl, chars>>
        \/ v \in {"2A", "AA"} /\ shift' = (v = "2A") /\ UNCHANGED <<extended, ctrl, chars>>
        \/ v = "1D" /\ ctrl' = TRUE /\ UNCHANGED <<shift, chars>>
           /\ extended' = IF extended THEN afterExtended ELSE FALSE
        \/ v = "9D" /\ ctrl' = FALSE /\ UNCHANGED <<extended, shift, chars>>
        \/ v \in breaks /\ extended' = FALSE /\ UNCHANGED <<shift, ctrl, chars>>
        \/ /\ v \in {"a", "up", "37"} /\ extended
           /\ extended' = afterExtended
           /\ chars' = IF v = "up" THEN Append(chars, "up") ELSE chars
           /\ UNCHANGED <<shift, ctrl>>
        \/ /\ v \in {"a", "up", "37"} /\ ~extended
           /\ chars' = IF v = "a" THEN Append(chars, keycode_to_char("a", shift, ctrl)) ELSE chars
           /\ UNCHANGED <<extended, shift, ctrl>>
    /\ UNCHANGED <<packet, mouse, seen, atPoll, typed, swallowed, user>>

Ps2Next ==
    \/ \E k \in Ps2Keys : Strike(k) \/ Lift(k)
    \/ \E dx \in {-1, 3}, left \in BOOLEAN : Move(dx, left)
    \/ PollBegins \/ MouseByte \/ KeyByte

-----------------------------------------------------------------------------
\* State is well typed.
Ps2TypeOK ==
    /\ mouse.x \in 0..Width-1 /\ Len(packet) < 3 /\ Len(queue) <= MaxQueue
    /\ {extended, shift, ctrl} \subseteq BOOLEAN

\* When every byte has been read, the keys struck have given their characters
\* with the modifiers held at the time, whatever mouse bytes came between,
\* and no modifier is stuck; only the key after a right Ctrl or PrintScreen
\* that was let go is lost.
KeysDecoded ==
    queue = <<>> =>
        /\ chars = typed
        /\ shift <=> user.held \cap {"shift", "print"} # {}
        /\ ctrl <=> user.held \cap {"lctrl", "rctrl"} # {}

\* When every byte has been read, the pointer and the button are the user's,
\* and a button that changed during the poll was reported.
MouseFollows ==
    queue = <<>> =>
        /\ mouse.x = user.x /\ mouse.left = user.left /\ packet = <<>>
        /\ mouse.left /\ ~atPoll => seen.pressed
        /\ ~mouse.left /\ atPoll => seen.released

-----------------------------------------------------------------------------
(***************************************************************************)
(* Keyboard and tablet of the arm64 port (virtio_input.c).  vi_poll_one    *)
(* works through the used ring up to the index it read at the start; the   *)
(* pointer moves when a frame's end is seen, keys go to a ring that        *)
(* virtio_kbd_read empties.                                                *)
(*                                                                         *)
(* The main loop polls without the big kernel lock (arch.c, gui_run), and  *)
(* so does, with the lock, a CPU that waits for the network                *)
(* (arm64_net_wait_pump).  Pollers is the set of CPUs that do.             *)
(***************************************************************************)
CONSTANTS Pollers, KbdSize, MaxEvents,
          Keys       \* what keymap_translate makes of each key: one byte, or an escape sequence

VARIABLES events,    \* what the device has put into the used ring
          last_used,
          pointer,     \* g_mouse_x, g_mouse_y, g_mouse_buttons
          kbd,       \* g_kbd_buf from tail to head
          local,     \* of each poller: where it is, its copies
          actual,    \* the pointer as of the last whole frame
          got, dropped, split

virtiovars == <<events, last_used, pointer, kbd, local, actual, got, dropped, split>>

Idle == [at |-> "idle"]
Still == [x |-> 0, down |-> FALSE]
Event == [type : {"abs"}, value : {1}] \cup [type : {"btn"}, value : BOOLEAN]
            \cup [type : {"key"}, value : Keys] \cup {[type |-> "syn", value |-> 0]}

VirtioInit ==
    /\ events = <<>> /\ last_used = 0 /\ pointer = Still /\ kbd = <<>>
    /\ local = [p \in Pollers |-> Idle]
    /\ actual = [now |-> Still, shown |-> Still]
    /\ got = <<>> /\ dropped = 0 /\ split = FALSE

\* The pointer after an event.
moved(m, e) ==
    IF e.type = "abs" THEN [m EXCEPT !.x = e.value]
    ELSE IF e.type = "btn" THEN [m EXCEPT !.down = e.value] ELSE m

\* The device delivers an event, and a frame event by event.
Deliver(e) ==
    /\ Len(events) < MaxEvents
    /\ events' = Append(events, e)
    /\ actual' = IF e.type = "syn" THEN [actual EXCEPT !.shown = actual.now]
                 ELSE [actual EXCEPT !.now = moved(@, e)]
    /\ UNCHANGED <<last_used, pointer, kbd, local, got, dropped, split>>

\* vi_poll_one: the copies and the used index are taken at the start.
vi_poll_one(p) ==
    /\ local[p] = Idle
    /\ local' = [local EXCEPT ![p] = [at |-> "event", m |-> pointer, used |-> Len(events)]]
    /\ UNCHANGED <<events, last_used, pointer, kbd, actual, got, dropped, split>>

\* Fault variant: a frame's end leaves the pointer where it was.
appliedLate(m) == IF m.down = pointer.down THEN m ELSE pointer

\* EV_SYN shows what the frame accumulated.
applied(m) == m

\* One event.  An index past the end of what was delivered means that the loop
\* has missed its end and reads the ring a second time.
HandleEvent(p) ==
    /\ local[p].at = "event" /\ last_used # local[p].used
    /\ \E e \in {IF last_used < Len(events) THEN events[last_used + 1]
                 ELSE events[((last_used) % Len(events)) + 1]} :
         /\ pointer' = IF e.type = "syn" THEN applied(local[p].m) ELSE pointer
         /\ local' = [local EXCEPT ![p].m = moved(@, e), ![p].at = "recycle"]
         /\ \E bytes \in {IF e.type = "key" THEN e.value ELSE <<>>} :
            \E n \in {Min({Len(bytes), KbdSize - Len(kbd)})} :
              /\ kbd' = kbd \o SubSeq(bytes, 1, n)
              /\ dropped' = dropped + Len(bytes) - n
    /\ UNCHANGED <<events, last_used, actual, got, split>>

\* Fault variant: last_used stays when the ring of keys is full.
next_usedStuck == IF Len(kbd) = KbdSize THEN last_used ELSE last_used + 1

next_used == last_used + 1

\* The buffer goes back to the device and last_used moves on.
Recycle(p) ==
    /\ local[p].at = "recycle"
    /\ last_used <= MaxEvents
    /\ last_used' = next_used
    /\ local' = [local EXCEPT ![p].at = "event"]
    /\ UNCHANGED <<events, pointer, kbd, actual, got, dropped, split>>

\* All seen: what the frame had accumulated is forgotten.
Leave(p) ==
    /\ local[p].at = "event" /\ last_used = local[p].used
    /\ split' = (split \/ local[p].m # pointer)
    /\ local' = [local EXCEPT ![p] = Idle]
    /\ UNCHANGED <<events, last_used, pointer, kbd, actual, got, dropped>>

virtio_kbd_read ==
    /\ kbd # <<>>
    /\ got' = Append(got, Head(kbd)) /\ kbd' = Tail(kbd)
    /\ UNCHANGED <<events, last_used, pointer, local, actual, dropped, split>>

VirtioNext ==
    \/ \E e \in Event : Deliver(e)
    \/ \E p \in Pollers : vi_poll_one(p) \/ HandleEvent(p) \/ Recycle(p) \/ Leave(p)
    \/ virtio_kbd_read

-----------------------------------------------------------------------------
\* State is well typed.
VirtioTypeOK ==
    /\ last_used \in 0..MaxEvents+1 /\ pointer.x \in 0..1 /\ pointer.down \in BOOLEAN
    /\ Len(kbd) <= KbdSize /\ split \in BOOLEAN

pressed == FlattenSeq([i \in DOMAIN events |-> IF events[i].type = "key" THEN events[i].value ELSE <<>>])

\* Every event is handled once: no poller goes past the events there are, and
\* as long as the ring takes every byte the keys arrive as they were pressed.
EventsOnce ==
    /\ last_used <= Len(events)
    /\ Len(got \o kbd) + dropped <= Len(pressed)
    /\ dropped = 0 => IsPrefix(got \o kbd, pressed)

\* With nothing left to handle the pointer stands where the last whole frame
\* put it, unless a poll ended inside a frame, which loses that frame's part.
PointerFollows ==
    ~split /\ last_used = Len(events) /\ (\A p \in Pollers : local[p].at # "recycle")
        => pointer = actual.shown
=============================================================================
