------------------------------ MODULE Browser ------------------------------
(***************************************************************************)
(* user/browser/browser.cpp.  Load machine: the UI thread and the fetch    *)
(* workers that navigate() starts; a navigation detaches the worker before *)
(* it, so several run at once and share cur and host (static buffers of    *)
(* load_url), the page, the history, fetch_state_ and the audio stream.    *)
(* Scroll machine: the scroll bar.  Text machine: parse_ipv4 and dechunk   *)
(* against reference definitions.  The machines share no variable.         *)
(***************************************************************************)
EXTENDS Integers, Sequences, SequencesExt, FiniteSetsExt, TLC

CONSTANTS Typed,             \* addresses the user enters
          Redirect,          \* address -> address; a page maps to itself
          WithAudio,         \* pages with an <audio> element
          HistCap,           \* HIST_CAP
          MaxRedirects,      \* turns of load_url's loop, 6
          MaxLoads, MaxLive, \* bounds: navigations, workers alive at once
          Heights, Views,    \* heights of pages and of the content area
          MinKnob,           \* the smallest knob, 10 pixels
          Step,              \* pixels of one key or wheel step
          Symbols, MaxAddr,  \* characters and length of the addresses parsed
          Octet,             \* bound on one part of an address, 255
          Bodies             \* sequences of chunks a server sends

VARIABLES gen,               \* load_gen_
          pending,           \* pending_url_
          bar,               \* url_
          state,             \* fetch_state_
          joining,           \* the UI thread is inside worker_.join()
          cur, host,         \* static buffers of load_url
          html,              \* the address whose text html_buf_ holds
          hist, pos,         \* history_, hist_pos_ + 1
          audio,             \* the page whose audio plays
          worker,            \* generation -> its fetch_worker
          calm,              \* no navigation began while a worker ran
          left               \* the history entry the user entered an address on
lvars == <<gen, pending, bar, state, joining, cur, host, html, hist, pos, audio, worker, calm, left>>

Loads == 1..MaxLoads
Fresh == [pc |-> "none", push |-> FALSE, redir |-> 0, got |-> ""]

Init ==
    /\ gen = 0 /\ pending = "" /\ bar = "" /\ state = "idle" /\ joining = FALSE
    /\ cur = "" /\ host = "" /\ html = "" /\ hist = <<>> /\ pos = 0
    /\ audio = "" /\ worker = [w \in Loads |-> Fresh] /\ calm = TRUE /\ left = ""

live(w) == worker[w].pc \notin {"none", "done"}

(* The UI thread: stop_audio signals the stream's thread and joins it, the *)
(* running worker is detached, the new one reads pending_url_ when it runs.*)
navigate(url, push) ==
    /\ gen < MaxLoads /\ Cardinality({w \in Loads : live(w)}) < MaxLive
    /\ audio' = "" /\ gen' = gen + 1 /\ pending' = url /\ bar' = url /\ state' = "fetching"
    /\ worker' = [worker EXCEPT ![gen + 1] = [Fresh EXCEPT !.pc = "start", !.push = push]]
    /\ calm' = (calm /\ \A w \in Loads : ~live(w))
    /\ UNCHANGED <<joining, cur, host, html, hist>>

(* on_url_enter, a followed link, a submitted form.                        *)
Enter(url) ==
    /\ ~joining /\ navigate(url, TRUE) /\ UNCHANGED pos
    /\ left' = IF pos = 0 THEN "" ELSE hist[pos]
on_back == ~joining /\ pos > 1 /\ pos' = pos - 1 /\ left' = "" /\ navigate(hist[pos - 1], FALSE)
on_forward == ~joining /\ pos < Len(hist) /\ pos' = pos + 1 /\ left' = "" /\ navigate(hist[pos + 1], FALSE)

(* The tick of a finished load joins worker_, which is the newest one.     *)
poll_fetch ==
    /\ ~joining /\ state = "ready" /\ joining' = TRUE
    /\ UNCHANGED <<gen, pending, bar, state, cur, host, html, hist, pos, audio, worker, calm, left>>
Joined ==
    /\ joining /\ ~live(gen) /\ joining' = FALSE /\ state' = "idle"
    /\ UNCHANGED <<gen, pending, bar, cur, host, html, hist, pos, audio, worker, calm, left>>

goto(w, pc) ==
    worker' = [worker EXCEPT ![w] = IF pc = "done" THEN [Fresh EXCEPT !.pc = pc] ELSE [@ EXCEPT !.pc = pc]]

checked(w, next) == goto(w, IF gen = w THEN next ELSE "done")

Start(w) ==
    /\ worker[w].pc = "start" /\ cur' = pending /\ goto(w, "top")
    /\ UNCHANGED <<gen, pending, bar, state, joining, host, html, hist, pos, audio, calm, left>>

Top(w) ==
    /\ worker[w].pc = "top"
    /\ IF worker[w].redir = MaxRedirects THEN goto(w, "loaded") ELSE checked(w, "parse")
    /\ UNCHANGED <<gen, pending, bar, state, joining, cur, host, html, hist, pos, audio, calm, left>>

(* The address is split into the static host and path, then resolved: a    *)
(* name that does not resolve shows the error page, and load_gen_ is not   *)
(* looked at before.                                                       *)
Parse(w) ==
    /\ worker[w].pc = "parse" /\ host' = cur /\ goto(w, "resolve")
    /\ UNCHANGED <<gen, pending, bar, state, joining, cur, html, hist, pos, audio, calm, left>>
Resolve(w) ==
    /\ worker[w].pc = "resolve"
    /\ \/ goto(w, "send") /\ UNCHANGED html
       \/ goto(w, "loaded") /\ html' = "error"
    /\ UNCHANGED <<gen, pending, bar, state, joining, cur, host, hist, pos, audio, calm, left>>

Send(w) ==
    /\ worker[w].pc = "send"
    /\ IF gen = w THEN worker' = [worker EXCEPT ![w].pc = "wait", ![w].got = host] ELSE goto(w, "done")
    /\ UNCHANGED <<gen, pending, bar, state, joining, cur, host, html, hist, pos, audio, calm, left>>
Answer(w) ==
    /\ worker[w].pc = "wait" /\ \E next \in {"use", "failed"} : checked(w, next)
    /\ UNCHANGED <<gen, pending, bar, state, joining, cur, host, html, hist, pos, audio, calm, left>>
Failed(w) ==
    /\ worker[w].pc = "failed" /\ html' = "error" /\ goto(w, "loaded")
    /\ UNCHANGED <<gen, pending, bar, state, joining, cur, host, hist, pos, audio, calm, left>>

(* push_history: entries after the current one are dropped, a full list    *)
(* loses its oldest.                                                       *)
push_historyKeeps(h, p, url) == Append(IF Len(h) < HistCap THEN h ELSE Tail(h), url)
push_history(h, p, url) ==
    LET kept == SubSeq(h, 1, p)
    IN Append(IF Len(kept) < HistCap THEN kept ELSE Tail(kept), url)

Follow(w) ==
    /\ worker[w].pc = "use" /\ Redirect[worker[w].got] # worker[w].got
    /\ cur' = Redirect[worker[w].got] /\ bar' = cur'
    /\ worker' = [worker EXCEPT ![w].pc = "top", ![w].redir = @ + 1]
    /\ UNCHANGED <<gen, pending, state, joining, host, html, hist, pos, audio, calm, left>>

Page(w) ==
    /\ worker[w].pc = "use" /\ Redirect[worker[w].got] = worker[w].got
    /\ html' = worker[w].got
    /\ \E h \in {IF worker[w].push THEN push_history(hist, pos, cur) ELSE hist} :
          /\ hist' = h
          /\ pos' = IF worker[w].push THEN Len(h) ELSE pos
    /\ goto(w, "loaded")
    /\ UNCHANGED <<gen, pending, bar, state, joining, cur, host, audio, calm, left>>

(* fetch_worker after load_url.                                            *)
Loaded(w) ==
    /\ worker[w].pc = "loaded" /\ checked(w, "audio")
    /\ UNCHANGED <<gen, pending, bar, state, joining, cur, host, html, hist, pos, audio, calm, left>>
scan_and_play_audio(w) ==
    /\ worker[w].pc = "audio" /\ goto(w, "images")
    /\ audio' = IF html \in WithAudio THEN html ELSE audio
    /\ UNCHANGED <<gen, pending, bar, state, joining, cur, host, html, hist, pos, calm, left>>
load_images(w) ==
    /\ worker[w].pc = "images" /\ checked(w, "finish")
    /\ UNCHANGED <<gen, pending, bar, state, joining, cur, host, html, hist, pos, audio, calm, left>>
Finish(w) ==
    /\ worker[w].pc = "finish" /\ goto(w, "done") /\ state' = "ready"
    /\ UNCHANGED <<gen, pending, bar, joining, cur, host, html, hist, pos, audio, calm, left>>

load_url(w) ==
    \/ Start(w) \/ Top(w) \/ Parse(w) \/ Resolve(w) \/ Send(w) \/ Answer(w) \/ Failed(w)
    \/ Follow(w) \/ Page(w)
fetch_worker(w) ==
    load_url(w) \/ Loaded(w) \/ scan_and_play_audio(w) \/ load_images(w) \/ Finish(w)

Next ==
    \/ \E url \in Typed : Enter(url)
    \/ on_back \/ on_forward \/ poll_fetch \/ Joined
    \/ \E w \in Loads : fetch_worker(w)

Quiet == \A w \in Loads : ~live(w)
final == Redirect[pending]

TypeOK ==
    /\ gen \in 0..MaxLoads /\ state \in {"idle", "fetching", "ready"} /\ joining \in BOOLEAN
    /\ {pending, bar, cur, host, html, audio} \cup Range(hist) \subseteq DOMAIN Redirect \cup {"", "error"}
    /\ pos \in Nat /\ DOMAIN worker = Loads

(* Whatever the workers' order, the progress bar stops once none runs, and *)
(* the position stays inside a history of at most HIST_CAP entries.  When  *)
(* the user always waited for a load to end, the page is the one asked for *)
(* (or the error page), the history and the address bar stand on it, Back  *)
(* returns to the page left for it, and only its own audio plays.          *)
LoadExact ==
    /\ Quiet => state # "fetching"
    /\ Len(hist) <= HistCap /\ pos \in (IF hist = <<>> THEN {0} ELSE 1..Len(hist))
    /\ (calm /\ Quiet /\ gen > 0) =>
          /\ html \in {final, "error"}
          /\ html # "error" => /\ hist[pos] = html /\ bar = html
                               /\ left # "" => pos > 1 /\ hist[pos - 1] = left
                               /\ audio = IF html \in WithAudio THEN html ELSE ""

(***************************************************************************)
(* The scroll bar: layout_.height, content_h(), scroll_ and a drag of the  *)
(* knob.  C division truncates; a division by zero ends the program.       *)
(***************************************************************************)
VARIABLES height, view, scroll, drag, struck, crashed
svars == <<height, view, scroll, drag, struck, crashed>>

NoDrag == [on |-> FALSE, y |-> 0, from |-> 0]
ScrollInit ==
    /\ height = 0 /\ view \in Views /\ scroll = 0 /\ drag = NoDrag /\ struck = -1
    /\ crashed = FALSE

abs(n) == IF n < 0 THEN -n ELSE n
div(a, b) == IF (a < 0) = (b < 0) \/ a = 0 THEN abs(a) \div abs(b) ELSE -(abs(a) \div abs(b))

clamp_scrollLow(s, h, v) == Max({s, 0})
clamp_scroll(s, h, v) == Max({Min({s, Max({h - v, 0})}), 0})

knob_h == Max({div(view * view, height), MinKnob})
knobOver(k, s) == div((view - k) * s, height - view)
knob_y == knobOver(knob_h, scroll)

centred(y) == div((y - knob_h \div 2) * (height - view), view - knob_h)

(* on_click in the scroll bar's column.                                    *)
Press(y) ==
    /\ UNCHANGED <<height, view>>
    /\ IF height \in {0, view}
       THEN crashed' = TRUE /\ UNCHANGED <<scroll, drag, struck>>
       ELSE IF y >= knob_y /\ y < knob_y + knob_h
       THEN /\ drag' = [on |-> TRUE, y |-> y, from |-> scroll] /\ struck' = -1
            /\ UNCHANGED <<scroll, crashed>>
       ELSE IF view = knob_h
       THEN crashed' = TRUE /\ UNCHANGED <<scroll, drag, struck>>
       ELSE /\ scroll' = clamp_scroll(centred(y), height, view) /\ struck' = y
            /\ UNCHANGED <<drag, crashed>>

(* on_mouse_move during a drag.                                            *)
Move(y) ==
    /\ drag.on /\ struck' = -1 /\ UNCHANGED <<height, view, drag>>
    /\ IF height = 0
       THEN crashed' = TRUE /\ UNCHANGED scroll
       ELSE /\ scroll' = IF view > knob_h
                         THEN clamp_scroll(drag.from + div((y - drag.y) * (height - view), view - knob_h),
                                           height, view)
                         ELSE scroll
            /\ UNCHANGED crashed
Release == drag.on /\ drag' = NoDrag /\ UNCHANGED <<height, view, scroll, struck, crashed>>

(* on_key and on_scroll: d steps, a page, the top or the end.              *)
Keys == {Step, -Step, view - Step, Step - view}
on_key ==
    /\ \/ \E d \in Keys : scroll' = clamp_scroll(scroll + d, height, view)
       \/ scroll' = 0
       \/ scroll' = clamp_scroll(height, height, view)
    /\ struck' = -1 /\ UNCHANGED <<height, view, drag, crashed>>

(* layout_current, after a load (navigate went back to the top), an image  *)
(* or a resize.                                                            *)
Layout(h, v) ==
    /\ height' = h /\ view' = v /\ struck' = -1 /\ UNCHANGED <<drag, crashed>>
    /\ \/ scroll' = clamp_scroll(scroll, h, v)
       \/ scroll' = clamp_scroll(0, h, v)

ScrollNext ==
    /\ ~crashed
    /\ \/ \E y \in 0..view - 1 : Press(y) \/ Move(y)
       \/ Release \/ on_key
       \/ \E h \in Heights, v \in Views : Layout(h, v)

(* Every handler leaves the page inside its window, and a click beside the *)
(* knob brings the knob under the pointer.                                 *)
ScrollExact ==
    /\ scroll >= 0 /\ scroll <= Max({height - view, 0})
    /\ (struck # -1 /\ ~crashed) => struck >= knob_y /\ struck < knob_y + knob_h

(***************************************************************************)
(* The texts of the network.                                               *)
(***************************************************************************)
VARIABLES addr,              \* characters of an address
          sent               \* chunks a server sent, and where the answer was cut
xvars == <<addr, sent>>

digit(c) == CHOOSE d \in 0..9 : ToString(d) = c
isDigit(c) == c # "."

(* parse_ipv4: parts collected at each dot and at the end.                 *)
RECURSIVE parts(_, _, _, _)
parts(s, v, have, done) ==
    IF s # <<>> /\ isDigit(Head(s))
    THEN IF v * 10 + digit(Head(s)) > Octet THEN <<>>
         ELSE parts(Tail(s), v * 10 + digit(Head(s)), TRUE, done)
    ELSE IF ~have \/ Len(done) > 3 THEN <<>>
    ELSE IF s = <<>> THEN Append(done, v)
    ELSE parts(Tail(s), 0, FALSE, Append(done, v))
parse_ipv4(s) == LET p == parts(s, 0, FALSE, <<>>) IN IF Len(p) = 4 THEN p ELSE <<>>

(* dechunk: b is the body as received; a size, the rest of its line, that  *)
(* many bytes, the line ends after them.                                   *)
hex(c) == CASE c = "0" -> 0 [] c = "1" -> 1 [] c = "2" -> 2 [] OTHER -> -1
RECURSIVE sizeOf(_, _)
sizeOf(b, n) == IF b = <<>> \/ hex(Head(b)) < 0 THEN n ELSE sizeOf(Tail(b), 16 * n + hex(Head(b)))
RECURSIVE afterLine(_)
afterLine(b) == IF b = <<>> THEN b ELSE IF Head(b) = "nl" THEN Tail(b) ELSE afterLine(Tail(b))
isEnd(c) == c \in {"cr", "nl"}
skipEndsNone(b) == b
RECURSIVE skipEnds(_)
skipEnds(b) == IF b # <<>> /\ isEnd(Head(b)) THEN skipEnds(Tail(b)) ELSE b

RECURSIVE dechunk(_)
dechunk(b) ==
    IF b = <<>> THEN <<>>
    ELSE LET n    == sizeOf(b, 0)
             rest == afterLine(b)
             sz   == Min({n, Len(rest)})
         IN IF n = 0 THEN <<>>
            ELSE SubSeq(rest, 1, sz) \o dechunk(skipEnds(SubSeq(rest, sz + 1, Len(rest))))

(* What a server sends for a sequence of chunks.                           *)
Line == <<"cr", "nl">>
Encoded(chunks) ==
    FlattenSeq([i \in DOMAIN chunks |-> <<ToString(Len(chunks[i]))>> \o Line \o chunks[i] \o Line])
       \o <<"0">> \o Line \o Line

TextInit ==
    \/ addr = <<>> /\ sent = [chunks |-> <<>>, cut |-> 0]
    \/ addr = <<>> /\ \E c \in Bodies : \E n \in 0..Len(Encoded(c)) : sent = [chunks |-> c, cut |-> n]
Type(c) == Len(addr) < MaxAddr /\ sent.chunks = <<>> /\ addr' = Append(addr, c) /\ UNCHANGED sent
TextNext == \E c \in Symbols : Type(c)

(* The dotted quads: four parts between dots, each a number up to 255.     *)
Dots == {i \in DOMAIN addr : addr[i] = "."}
Quad(a, b, c) ==
    LET part(i, j) == SubSeq(addr, i + 1, j - 1)
        num(d)     == FoldLeft(LAMBDA v, ch : v * 10 + digit(ch), 0, d)
        four       == <<part(0, a), part(a, b), part(b, c), part(c, Len(addr) + 1)>>
    IN IF \A i \in 1..4 : four[i] # <<>> /\ num(four[i]) <= Octet
       THEN [i \in 1..4 |-> num(four[i])] ELSE <<>>

(* parse_ipv4 accepts exactly the dotted quads, with their value; dechunk  *)
(* restores the chunks a server sent, and a prefix of them when the answer *)
(* was cut anywhere.                                                       *)
TextExact ==
    /\ parse_ipv4(addr) =
          IF Cardinality(Dots) = 3
          THEN LET d == SetToSortSeq(Dots, <) IN Quad(d[1], d[2], d[3])
          ELSE <<>>
    /\ \E whole \in {Encoded(sent.chunks)} :
          LET body == FlattenSeq(sent.chunks)
          IN /\ IsPrefix(dechunk(SubSeq(whole, 1, sent.cut)), body)
             /\ sent.cut = Len(whole) => dechunk(whole) = body
=============================================================================
