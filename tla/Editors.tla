------------------------------ MODULE Editors ------------------------------
(***************************************************************************)
(* The two text editors.                                                   *)
(*   Gui   user/texteditor: a buffer of lines, a caret, a selection from   *)
(*         an anchor to the caret, and the program's own clipboard;        *)
(*   Term  user/edit.c: the console editor, its scrolling and its warning  *)
(*         before unsaved text is thrown away.                             *)
(* A buffer is a non-empty sequence of lines, a line a sequence of         *)
(* characters.  Columns count from 0 as in the code, lines from 1.         *)
(***************************************************************************)
EXTENDS Integers, Sequences, SequencesExt, FiniteSets, FiniteSetsExt

CONSTANTS Chars,      \* printable characters
          LineCap,    \* longest line
          LinesCap,   \* most lines
          ClipCap,    \* the clipboard's size
          MaxText,    \* bound on the characters of a buffer, line ends included
          Rows        \* lines the console shows

VARIABLES doc, clip, selecting
VARIABLES text, saved, modified, warned, running, top

gvars == <<doc, clip, selecting>>
evars == <<text, saved, modified, warned, running, top>>

NL == "\n"
Upto(a, b) == IF a < b THEN a ELSE b

flat(ls) == FlattenSeq([i \in DOMAIN ls |-> IF i < Len(ls) THEN Append(ls[i], NL) ELSE ls[i]])

(* The lines of a text; what follows the last line end is a line only if   *)
(* it is not empty (load_from_path and load_file alike).                   *)
linesOf(t) ==
    LET ends == {i \in DOMAIN t : t[i] = NL}
        from(i) == LET b == {j \in ends : j < i} IN IF b = {} THEN 1 ELSE Max(b) + 1
        whole == [k \in 1..Cardinality(ends) |->
                    LET e == CHOOSE i \in ends : Cardinality({j \in ends : j <= i}) = k
                    IN  SubSeq(t, from(e), e - 1)]
        rest == SubSeq(t, from(Len(t) + 1), Len(t))
    IN  IF rest # <<>> \/ whole = <<>> THEN Append(whole, rest) ELSE whole

-----------------------------------------------------------------------------
(* Gui: doc is [ls, x, y, an]: lines, caret column and line, anchor.       *)

None == <<>>
has_selection(d) == d.an # None

Before(p, q) == p[2] < q[2] \/ (p[2] = q[2] /\ p[1] <= q[1])

get_selection_rangeForward(d) == <<d.an, <<d.x, d.y>>>>

get_selection_range(d) ==
    IF Before(d.an, <<d.x, d.y>>) THEN <<d.an, <<d.x, d.y>>>> ELSE <<<<d.x, d.y>>, d.an>>

(* insert_char and insert_newline leave the anchor where it is.            *)
insert_char(d, c) ==
    IF Len(d.ls[d.y]) >= LineCap THEN d
    ELSE [d EXCEPT !.ls[d.y] = InsertAt(@, d.x + 1, c), !.x = @ + 1]

insert_newline(d) ==
    IF Len(d.ls) >= LinesCap THEN d
    ELSE [d EXCEPT !.ls = SubSeq(@, 1, d.y - 1)
                          \o <<SubSeq(@[d.y], 1, d.x), SubSeq(@[d.y], d.x + 1, Len(@[d.y]))>>
                          \o SubSeq(@, d.y + 1, Len(@)),
                   !.y = @ + 1, !.x = 0]

(* Two lines become one, cut at the longest line.                          *)
joined(ls, i) ==
    LET both == ls[i] \o ls[i + 1]
    IN  SubSeq(ls, 1, i - 1) \o <<SubSeq(both, 1, Upto(Len(both), LineCap))>>
        \o SubSeq(ls, i + 2, Len(ls))

delete_selection(d) ==
    LET r == get_selection_range(d)
        a == r[1]
        z == r[2]
        both == SubSeq(d.ls[a[2]], 1, a[1])
                \o SubSeq(d.ls[z[2]], z[1] + 1, Len(d.ls[z[2]]))
    IN  [ls |-> SubSeq(d.ls, 1, a[2] - 1) \o <<SubSeq(both, 1, Upto(Len(both), LineCap))>>
                \o SubSeq(d.ls, z[2] + 1, Len(d.ls)),
         x |-> a[1], y |-> a[2], an |-> None]

delete_backward(d) ==
    IF has_selection(d) THEN delete_selection(d)
    ELSE IF d.x > 0 THEN [d EXCEPT !.ls[d.y] = RemoveAt(@, d.x), !.x = @ - 1]
    ELSE IF d.y > 1
         THEN [d EXCEPT !.ls = joined(@, d.y - 1), !.y = @ - 1,
                        !.x = Len(joined(d.ls, d.y - 1)[d.y - 1])]
         ELSE d

delete_forward(d) ==
    IF has_selection(d) THEN delete_selection(d)
    ELSE IF d.x < Len(d.ls[d.y]) THEN [d EXCEPT !.ls[d.y] = RemoveAt(@, d.x + 1)]
    ELSE IF d.y < Len(d.ls) THEN [d EXCEPT !.ls = joined(@, d.y)]
    ELSE d

copied(d) ==
    LET r == get_selection_range(d)
        a == r[1]
        z == r[2]
        row(k) == SubSeq(d.ls[k], IF k = a[2] THEN a[1] + 1 ELSE 1,
                                  IF k = z[2] THEN z[1] ELSE Len(d.ls[k]))
        t == flat([k \in 1..(z[2] - a[2] + 1) |-> row(a[2] + k - 1)])
    IN  SubSeq(t, 1, Upto(Len(t), ClipCap))

(* cut_selection without a selection takes the caret's line.               *)
cut_line(d) ==
    [d EXCEPT !.ls = IF Len(@) = 1 THEN <<<<>>>> ELSE RemoveAt(@, d.y),
              !.y = IF d.y = Len(d.ls) /\ d.y > 1 THEN d.y - 1 ELSE d.y, !.x = 0]

paste_at_cursor(d, t) ==
    FoldLeft(LAMBDA e, c : IF c = NL THEN insert_newline(e) ELSE insert_char(e, c), d, t)

(* A text edit typed while a selection is live moves the text under the    *)
(* anchor; once the anchor is past its line the code reads bytes that are  *)
(* no longer text, and the model stops.                                    *)
AnchorInText(d) == d.an # None => d.an[2] <= Len(d.ls) /\ d.an[1] <= Len(d.ls[d.an[2]])

Init == doc = [ls |-> <<<<>>>>, x |-> 0, y |-> 1, an |-> None] /\ clip = <<>> /\ selecting = FALSE

Edit(d) == doc' = d /\ UNCHANGED <<clip, selecting>>

Type(c) == Len(flat(doc.ls)) < MaxText /\ Edit(insert_char(doc, c))
Enter == Len(flat(doc.ls)) < MaxText /\ Edit(insert_newline(doc))
Backspace == Edit(delete_backward(doc))
Delete == Edit(delete_forward(doc))
Escape == Edit([doc EXCEPT !.an = None])
SelectAll == Edit([doc EXCEPT !.an = <<0, 1>>, !.y = Len(doc.ls), !.x = Len(doc.ls[Len(doc.ls)])])
Copy == has_selection(doc) /\ clip' = copied(doc) /\ UNCHANGED <<doc, selecting>>
Cut ==
    /\ IF has_selection(doc) THEN clip' = copied(doc) /\ doc' = delete_selection(doc)
       ELSE /\ clip' = SubSeq(doc.ls[doc.y], 1, Upto(Len(doc.ls[doc.y]), ClipCap))
            /\ doc' = cut_line(doc)
    /\ UNCHANGED selecting
Paste ==
    /\ Len(flat(doc.ls)) + Len(clip) <= MaxText
    /\ Edit(paste_at_cursor(doc, clip))

(* The mouse: a press puts caret and anchor down, a move drags the caret,  *)
(* the release drops an empty selection.                                   *)
on_click(p) ==
    /\ doc' = [doc EXCEPT !.x = p[1], !.y = p[2], !.an = p]
    /\ selecting' = TRUE /\ UNCHANGED clip

on_mouse_move(p) ==
    /\ selecting /\ Edit([doc EXCEPT !.x = p[1], !.y = p[2]])

on_mouse_release ==
    /\ selecting /\ selecting' = FALSE
    /\ doc' = [doc EXCEPT !.an = IF @ = <<doc.x, doc.y>> THEN None ELSE @]
    /\ UNCHANGED clip

Places(d) == {p \in (0..LineCap) \X (1..Len(d.ls)) : p[1] <= Len(d.ls[p[2]])}

Next ==
    /\ AnchorInText(doc)
    /\ \/ \E c \in Chars : Type(c)
       \/ Enter \/ Backspace \/ Delete \/ Escape \/ SelectAll \/ Copy \/ Cut \/ Paste
       \/ \E p \in Places(doc) : on_click(p) \/ on_mouse_move(p)
       \/ on_mouse_release

TypeOK ==
    /\ Len(doc.ls) \in 1..LinesCap /\ Len(clip) <= ClipCap /\ selecting \in BOOLEAN
    /\ \A i \in DOMAIN doc.ls : Len(doc.ls[i]) <= LineCap

(***************************************************************************)
(* The caret is always at a place of the text, and a text cut out of the   *)
(* buffer and pasted back leaves the buffer as it was, whichever way round *)
(* the selection was made, as long as the clipboard holds all of it and no *)
(* joined line is cut (delete_selection, copy_selection, paste_at_cursor). *)
(***************************************************************************)
CutPasteRestores ==
    /\ doc.y \in DOMAIN doc.ls /\ doc.x \in 0..Len(doc.ls[doc.y])
    /\ LET cut == delete_selection(doc)
       IN  (has_selection(doc) /\ AnchorInText(doc)
            /\ Len(copied(doc)) + Len(flat(cut.ls)) = Len(flat(doc.ls)))
           => flat(paste_at_cursor(cut, copied(doc)).ls) = flat(doc.ls)

(***************************************************************************)
(* write_to_path and load_from_path: what is saved is loaded again, except *)
(* that an empty last line is not.                                         *)
(***************************************************************************)
SavedIsLoaded ==
    linesOf(flat(doc.ls)) =
        IF Len(doc.ls) > 1 /\ doc.ls[Len(doc.ls)] = <<>> THEN Front(doc.ls) ELSE doc.ls

-----------------------------------------------------------------------------
(* Term: text is [ls, x, y]; lines and line lengths have their own limits. *)

load_file(t) == [ls |-> linesOf(t), x |-> 0, y |-> 1]

TermInit ==
    /\ \E t \in {<<>>} \cup {<<c>> : c \in Chars} \cup {<<c, NL>> : c \in Chars} :
         text = load_file(t) /\ saved = flat(linesOf(t))
    /\ modified = FALSE /\ warned = FALSE /\ running = TRUE /\ top = 1

scroll_to_cursorShort(t) == IF t.y < top THEN t.y ELSE IF t.y > top + Rows THEN t.y - Rows + 1 ELSE top

scroll_to_cursor(t) == IF t.y < top THEN t.y ELSE IF t.y >= top + Rows THEN t.y - Rows + 1 ELSE top

(* One turn of run_editor: the key's effect, then the scrolling.           *)
Turn(t) ==
    /\ text' = t /\ top' = scroll_to_cursor(t)
    /\ UNCHANGED <<saved, running>>

Changed(t) == Turn(t) /\ modified' = TRUE /\ warned' = FALSE
Moved(t) == Turn(t) /\ UNCHANGED <<modified, warned>>

clamp_col(t, y) == [t EXCEPT !.y = y, !.x = Upto(@, Len(t.ls[y]))]

termInsert(c) ==
    /\ Len(flat(text.ls)) < MaxText
    /\ IF Len(text.ls[text.y]) >= LineCap - 1 THEN Moved(text)
       ELSE Changed([text EXCEPT !.ls[text.y] = InsertAt(@, text.x + 1, c), !.x = @ + 1])

(* Lines are joined only when both fit in one.                             *)
canJoin(i) == Len(text.ls[i]) + Len(text.ls[i + 1]) < LineCap - 1

termBackspace ==
    IF text.x > 0 THEN Changed([text EXCEPT !.ls[text.y] = RemoveAt(@, text.x), !.x = @ - 1])
    ELSE IF text.y > 1 /\ canJoin(text.y - 1)
    THEN Changed([text EXCEPT !.ls = joined(@, text.y - 1), !.y = @ - 1,
                              !.x = Len(text.ls[text.y - 1])])
    ELSE Moved(text)

termDelete ==
    IF text.x < Len(text.ls[text.y])
    THEN Changed([text EXCEPT !.ls[text.y] = RemoveAt(@, text.x + 1)])
    ELSE IF text.y < Len(text.ls) /\ canJoin(text.y)
    THEN Changed([text EXCEPT !.ls = joined(@, text.y)])
    ELSE Moved(text)

termNewline ==
    /\ Len(flat(text.ls)) < MaxText
    /\ IF Len(text.ls) >= LinesCap - 1 THEN Moved(text)
       ELSE Changed(insert_newline(text))

killLineQuiet == Moved([text EXCEPT !.ls[text.y] = SubSeq(@, 1, text.x)])

killLine == Changed([text EXCEPT !.ls[text.y] = SubSeq(@, 1, text.x)])

Arrow ==
    \/ text.y > 1 /\ Moved(clamp_col(text, text.y - 1))
    \/ text.y < Len(text.ls) /\ Moved(clamp_col(text, text.y + 1))
    \/ Moved(IF text.x < Len(text.ls[text.y]) THEN [text EXCEPT !.x = @ + 1]
             ELSE IF text.y < Len(text.ls) THEN [text EXCEPT !.y = @ + 1, !.x = 0] ELSE text)
    \/ Moved(IF text.x > 0 THEN [text EXCEPT !.x = @ - 1]
             ELSE IF text.y > 1
             THEN [text EXCEPT !.y = @ - 1, !.x = Len(text.ls[text.y - 1])] ELSE text)
    \/ Moved([text EXCEPT !.x = 0])
    \/ Moved([text EXCEPT !.x = Len(text.ls[text.y])])
    \/ Moved(clamp_col(text, IF text.y > Rows THEN text.y - Rows ELSE 1))
    \/ Moved(clamp_col(text, Upto(text.y + Rows, Len(text.ls))))

(* save_file: the write succeeds, or the error leaves the text modified.   *)
save_file ==
    /\ \/ saved' = flat(text.ls) /\ modified' = FALSE /\ warned' = FALSE
       \/ UNCHANGED <<saved, modified, warned>>
    /\ top' = scroll_to_cursor(text) /\ UNCHANGED <<text, running>>

(* Ctrl+Q: the first press on modified text warns and forgets "modified".  *)
Quit ==
    /\ IF modified THEN modified' = FALSE /\ warned' = TRUE /\ UNCHANGED running
       ELSE running' = FALSE /\ UNCHANGED <<modified, warned>>
    /\ top' = scroll_to_cursor(text) /\ UNCHANGED <<text, saved>>

TermNext ==
    /\ running
    /\ \/ \E c \in Chars : termInsert(c)
       \/ termBackspace \/ termDelete \/ termNewline \/ killLine \/ Arrow \/ save_file \/ Quit

(***************************************************************************)
(* edit.c closes on text that was not saved only if it has warned since    *)
(* the last change; and the caret is always at a place of the text and on  *)
(* the screen (run_editor, scroll_to_cursor).                              *)
(***************************************************************************)
QuitWarned ==
    /\ ~running => flat(text.ls) = saved \/ warned
    /\ text.x \in 0..Len(text.ls[text.y]) /\ text.y \in top..(top + Rows - 1)
=============================================================================
