------------------------------ MODULE WebPage ------------------------------
(***************************************************************************)
(* From HTML text to boxes (user/browser/dom.c, css.c, layout_engine.cpp). *)
(* Tree machine: dom_parse builds the document tree tag by tag.  Entity    *)
(* machine: decode_text.  Sheet machine: the blocks of a style sheet.      *)
(* Style machine: selectors, matching and cascade.  Flow machine: words,   *)
(* blocks, lists, rules, pictures and form fields put on lines.  Flex      *)
(* machine: the lines of a flex container.  They share no variable.        *)
(*                                                                         *)
(* A tag, a text run, a selector part is one symbol; widths and heights    *)
(* are small numbers.  Colours, fonts and attribute values are left out.   *)
(***************************************************************************)
EXTENDS Integers, Sequences, FiniteSetsExt, SequencesExt

CONSTANTS Tags, MaxNodes,            \* names of tags in the page, nodes
          Symbols, Entity, MaxText,  \* characters of a text; entity name -> character
          Selectors, MaxRules,       \* selector lists of a sheet, rules in it
          MaxNest,                   \* @media inside @media
          Compounds, Chains,         \* selectors; elements from the root down
          MatchCap,                  \* matched[64]
          ViewW, Words, Bounds, MaxRuns, MaxOpen, MaxSteps,  \* viewport, widths, margins; bounds
          Kids, Gap, MaxKids         \* sizes of flex items, gap, how many

(***************************************************************************)
(* dom_parse.  Node 1 is the document; 0 is the null pointer.              *)
(***************************************************************************)
VARIABLES nodes,             \* [type, tag, parent, first, last, next] per node
          cur,               \* the open element
          broke              \* node_new failed and ended the loop
tvars == <<nodes, cur, broke>>

Void == {"br", "img", "hr", "meta", "link", "input", "area", "base", "col", "embed", "source",
         "track", "wbr"}
Raw == {"script", "style"}
Blocks == {"p", "div", "ul", "ol", "table", "h1", "h2", "h3", "h4", "h5", "h6", "blockquote", "pre",
           "section", "article", "header", "footer", "nav", "form", "hr", "li"}

implicitly_closes(open, next) ==
    \/ open = "p" /\ next \in Blocks
    \/ open = "li" /\ next = "li"
    \/ open \in {"td", "th"} /\ next \in {"td", "th", "tr"}
    \/ open = "tr" /\ next = "tr"
    \/ open \in {"dd", "dt"} /\ next \in {"dd", "dt"}
    \/ open = "option" /\ next \in {"option", "optgroup"}

node(type, tag) == [type |-> type, tag |-> tag, parent |-> 0, first |-> 0, last |-> 0, next |-> 0]

\* node_new and node_append: a new node becomes the last child of par.
node_append(ns, par, n) ==
    LET id == Len(ns) + 1
        linked == IF ns[par].last # 0 THEN [ns EXCEPT ![ns[par].last].next = id]
                  ELSE [ns EXCEPT ![par].first = id]
    IN  Append([linked EXCEPT ![par].last = id], [n EXCEPT !.parent = par])

TreeInit == nodes = <<node("element", "#document")>> /\ cur = 1 /\ broke = FALSE

room(k) == Len(nodes) + k <= MaxNodes /\ ~broke

\* A run of text; white space counts only inside <pre>.  When there is no
\* memory for the node the text is left out.
Text(blank) ==
    /\ room(1)
    /\ ~blank \/ nodes[cur].tag = "pre"
    /\ nodes' = node_append(nodes, cur, node("text", ""))
    /\ UNCHANGED <<cur, broke>>

\* Fault variant: an open element is closed, not all that the tag closes.
closedBy1(c, name) ==
    IF c # 1 /\ implicitly_closes(nodes[c].tag, name) THEN nodes[c].parent ELSE c

RECURSIVE closedBy(_, _)
closedBy(c, name) ==
    IF c # 1 /\ implicitly_closes(nodes[c].tag, name) THEN closedBy(nodes[c].parent, name) ELSE c

\* A start tag.  The text of a raw element is taken up to its end tag.
Open(name, self, raw) ==
    \E at \in {closedBy(cur, name)} :
    LET ns == node_append(nodes, at, node("element", name))
        el == Len(ns)
        isRaw == name \in Raw
    IN  /\ room(IF isRaw /\ raw THEN 2 ELSE 1)
        /\ raw => isRaw
        /\ nodes' = IF isRaw /\ raw THEN node_append(ns, el, node("text", "")) ELSE ns
        /\ cur' = IF isRaw \/ self \/ name \in Void THEN at ELSE el
        /\ UNCHANGED broke

\* No memory for an element: the rest of the page is dropped, after the open
\* elements were closed.
Break(name) == room(1) /\ cur' = closedBy(cur, name) /\ broke' = TRUE /\ UNCHANGED nodes

\* An end tag closes the nearest open element of its name, if there is one.
RECURSIVE openNamed(_, _)
openNamed(c, name) == IF c = 1 \/ nodes[c].tag = name THEN c ELSE openNamed(nodes[c].parent, name)
Close(name) ==
    /\ ~broke
    /\ openNamed(cur, name) # 1
    /\ cur' = nodes[openNamed(cur, name)].parent
    /\ UNCHANGED <<nodes, broke>>

TreeNext ==
    \/ \E blank \in BOOLEAN : Text(blank)
    \/ \E name \in Tags : \/ \E self, raw \in BOOLEAN : Open(name, self, raw)
                          \/ Close(name) \/ Break(name)

\* Nodes in the order in which the pointers lead through the tree.
RECURSIVE preorder(_)
preorder(n) ==
    IF n = 0 THEN <<>> ELSE <<n>> \o preorder(nodes[n].first) \o preorder(nodes[n].next)

\* dom_parse: the child and sibling pointers form one tree that lists the page
\* in the order of its text, and no element holds one that ends it.
TreeExact ==
    /\ preorder(1) = [i \in 1 .. Len(nodes) |-> i]
    /\ nodes[cur].type = "element" /\ nodes[cur].tag \notin Void \cup Raw
    /\ \A n \in 2 .. Len(nodes) :
          LET up == nodes[n].parent
          IN  /\ nodes[n].next = 0 <=> nodes[up].last = n
              /\ nodes[n].next # 0 => nodes[nodes[n].next].parent = up
              /\ ~implicitly_closes(nodes[up].tag, nodes[n].tag)

(***************************************************************************)
(* decode_text: entities and UTF-8.  "m" and "l" are names of entities,    *)
(* "U2" starts a two-byte character.                                       *)
(***************************************************************************)
VARIABLE raw                 \* a text
evars == <<raw>>

EntityInit == raw = <<>>
Extend(c) == Len(raw) < MaxText /\ raw' = Append(raw, c)

\* Fault variant: what an entity stands for is decoded again.
RECURSIVE decodeTwice(_)
decodeTwice(in) ==
    IF in = <<>> THEN <<>>
    ELSE IF in[1] = "&" /\ Len(in) >= 3 /\ in[2] \in DOMAIN Entity /\ in[3] = ";"
    THEN decodeTwice(<<Entity[in[2]]>> \o SubSeq(in, 4, Len(in)))
    ELSE <<in[1]>> \o decodeTwice(SubSeq(in, 2, Len(in)))

RECURSIVE decode_text(_)
decode_text(in) ==
    IF in = <<>> THEN <<>>
    ELSE IF in[1] = "&" /\ Len(in) >= 3 /\ in[2] \in DOMAIN Entity /\ in[3] = ";"
    THEN <<Entity[in[2]]>> \o decode_text(SubSeq(in, 4, Len(in)))
    ELSE IF in[1] = "U2" /\ Len(in) >= 2
    THEN <<"?">> \o decode_text(SubSeq(in, 3, Len(in)))
    ELSE <<in[1]>> \o decode_text(SubSeq(in, 2, Len(in)))

EntityNext == \E c \in Symbols : Extend(c)

escaped(text) ==
    FlattenSeq([i \in DOMAIN text |->
        IF \E e \in DOMAIN Entity : Entity[e] = text[i]
        THEN <<"&", CHOOSE e \in DOMAIN Entity : Entity[e] = text[i], ";">> ELSE <<text[i]>>])

\* decode_text: the decoded text fits the buffer of the raw one, and a text
\* whose special characters were written as entities comes back as it was.
DecodesOnce ==
    /\ Len(decode_text(raw)) <= Len(raw)
    /\ ("U2" \notin ToSet(raw)) => (decode_text(escaped(raw)) = raw)

(***************************************************************************)
(* css_parse: a sheet is a sequence of rules, @media blocks and other at-  *)
(* rules.  "@in{" is a media condition that holds, "@no{" one that does    *)
(* not; "@x{" another at-rule with a block.                                *)
(***************************************************************************)
VARIABLES sheet,             \* the text; a token is a list of names or of one sign
          inside,            \* the open @media: do their conditions hold?
          wanted             \* selectors of the rules that count
svars == <<sheet, inside, wanted>>

SheetInit == sheet = <<>> /\ inside = <<>> /\ wanted = <<>>

counts == \A k \in DOMAIN inside : inside[k]
AddRule(sel) ==
    /\ Len(sheet) + 4 <= 4 * MaxRules
    /\ sheet' = sheet \o <<sel, <<"{">>, <<"decl">>, <<"}">>>>
    /\ wanted' = IF counts THEN wanted \o sel ELSE wanted
    /\ UNCHANGED inside
AtRule ==
    /\ Len(sheet) + 6 <= 4 * MaxRules
    /\ sheet' = sheet \o <<<<"@x{">>, <<"decl">>, <<"{">>, <<"decl">>, <<"}">>, <<"}">>>> /\ UNCHANGED <<inside, wanted>>
Media(holds) ==
    /\ Len(sheet) + 1 <= 4 * MaxRules /\ Len(inside) < MaxNest
    /\ sheet' = Append(sheet, <<IF holds THEN "@in{" ELSE "@no{">>)
    /\ inside' = Append(inside, holds) /\ UNCHANGED wanted
EndMedia ==
    /\ inside # <<>>
    /\ sheet' = Append(sheet, <<"}">>) /\ inside' = Front(inside) /\ UNCHANGED wanted

Opens == {<<"{">>, <<"@in{">>, <<"@no{">>, <<"@x{">>}

\* Fault variant: the first closing brace ends the block.
RECURSIVE blockEndFirst(_, _)
blockEndFirst(i, depth) ==
    IF i > Len(sheet) \/ depth = 0 THEN i
    ELSE blockEndFirst(i + 1, IF sheet[i] = <<"}">> THEN 0 ELSE depth)

\* The token after the block that is open at i.
RECURSIVE blockEnd(_, _)
blockEnd(i, depth) ==
    IF i > Len(sheet) \/ depth = 0 THEN i
    ELSE blockEnd(i + 1, IF sheet[i] \in Opens THEN depth + 1
                         ELSE IF sheet[i] = <<"}">> THEN depth - 1 ELSE depth)

\* The rules of a comma list share one block of declarations.
RECURSIVE css_parse_inner(_, _)
css_parse_inner(i, rules) ==
    IF i > Len(sheet) THEN [at |-> i, rules |-> rules]
    ELSE IF sheet[i] = <<"}">> THEN [at |-> i, rules |-> rules]
    ELSE IF sheet[i] = <<"@in{">>
    THEN LET r == css_parse_inner(i + 1, rules)
         IN  css_parse_inner(IF r.at <= Len(sheet) THEN r.at + 1 ELSE r.at, r.rules)
    ELSE IF sheet[i] \in {<<"@no{">>, <<"@x{">>} THEN css_parse_inner(blockEnd(i + 1, 1), rules)
    ELSE css_parse_inner(blockEnd(i + 2, 1), rules \o sheet[i])

SheetNext ==
    \/ \E sel \in Selectors : AddRule(sel)
    \/ \E holds \in BOOLEAN : Media(holds)
    \/ AtRule \/ EndMedia

\* css_parse: the rules found are those outside of @media or in @media whose
\* conditions hold, in order, whatever is nested in what.
RulesFound == css_parse_inner(1, <<>>).rules = wanted

(***************************************************************************)
(* Selectors and the cascade.  A compound is [tag, first]: a tag name and  *)
(* whether it asks for :first-child.  A selector is written from left to   *)
(* right as [part, comb], comb being the combinator after the part.  A     *)
(* chain is an element with all elements above it.                         *)
(***************************************************************************)
VARIABLES rules,             \* the sheet's selectors
          chain              \* the element that is matched
rvars == <<rules, chain>>

StyleInit == rules = <<>> /\ chain \in Chains
NewRule(sel) == Len(rules) < MaxRules /\ rules' = Append(rules, sel) /\ UNCHANGED chain

\* At most three parts are kept, the leaf first.
parse_selector(sel) ==
    LET pc == Min({Len(sel), 3})
    IN  [parts |-> [k \in 1 .. pc |-> sel[pc + 1 - k].part],
         combs |-> [k \in 1 .. pc |-> IF k < pc THEN sel[pc - k].comb ELSE ""]]

\* par is the element taken as the parent of element k.
match_one_part(part, k, par) ==
    /\ part.tag = chain[k].tag
    /\ part.first => par = k - 1 /\ par > 0 /\ chain[k].first

\* The nearest ancestor at or below index a that matches, or 0.
nearest(part, a) == Max({0} \cup {k \in 1 .. a : match_one_part(part, k, k - 1)})

\* Fault variant: an ancestor may be used for two parts.
upwardsStay(r) ==
    LET step(a, k) ==
            IF a < 0 THEN -1
            ELSE IF r.combs[k - 1] = ">"
            THEN IF a >= 1 /\ match_one_part(r.parts[k], a, a - 1) THEN a - 1 ELSE -1
            ELSE IF nearest(r.parts[k], a) = 0 THEN -1 ELSE nearest(r.parts[k], a)
    IN  [depth \in 0 .. Len(chain) |-> FoldLeft(step, depth, [j \in 1 .. Len(r.parts) - 1 |-> j + 1]) >= 0]

\* The walk over the ancestors: each part is matched at the first place.
upwards(r) ==
    LET step(a, k) ==
            IF a < 0 THEN -1
            ELSE IF r.combs[k - 1] = ">"
            THEN IF a >= 1 /\ match_one_part(r.parts[k], a, a - 1) THEN a - 1 ELSE -1
            ELSE IF nearest(r.parts[k], a) = 0 THEN -1 ELSE nearest(r.parts[k], a) - 1
    IN  [depth \in 0 .. Len(chain) |-> FoldLeft(step, depth, [j \in 1 .. Len(r.parts) - 1 |-> j + 1]) >= 0]

\* The first depth elements of the chain are passed as ancestors.
rule_matches(r, depth) ==
    match_one_part(r.parts[1], Len(chain), depth) /\ upwards(r)[depth]

\* css.h asks for the ancestors of the node.
atContract == Len(chain) - 1
\* walk() has put the node itself on the ancestor stack when it asks.
atWalk == Len(chain)

\* Every tag name counts one.
spec(sel) == Len(parse_selector(sel).parts)

\* Insertion sort by specificity, then by order.
cascaded(ms) ==
    LET before(a, b) == spec(rules[a]) < spec(rules[b]) \/ (spec(rules[a]) = spec(rules[b]) /\ a < b)
        insert(acc, m) == SelectSeq(acc, LAMBDA a : before(a, m)) \o <<m>>
                              \o SelectSeq(acc, LAMBDA a : before(m, a))
    IN  FoldLeft(insert, <<>>, ms)
css_match ==
    LET ms == SelectSeq([k \in DOMAIN rules |-> k], LAMBDA k : rule_matches(parse_selector(rules[k]), atWalk))
    IN  cascaded(SubSeq(ms, 1, Min({Len(ms), MatchCap})))

StyleNext == \E sel \in Compounds : NewRule(sel)

\* What a selector of at most three parts means: its parts match elements at
\* places that go up as the combinators say, the last one the element.
means(sel) ==
    \E at \in [DOMAIN sel -> 1 .. Len(chain)] :
        /\ at[Len(sel)] = Len(chain)
        /\ \A k \in DOMAIN sel : match_one_part(sel[k].part, at[k], at[k] - 1)
        /\ \A k \in 1 .. Len(sel) - 1 :
              IF sel[k].comb = ">" THEN at[k] = at[k + 1] - 1 ELSE at[k] < at[k + 1]

\* A child combinator to the left of a descendant one.
childAbove(sel) == \E k \in 1 .. Len(sel) - 2 : sel[k].comb = ">" /\ sel[k + 1].comb = " "

\* css_match and rule_matches, for selectors of up to three parts: a rule that
\* is matched against the ancestors of an element applies only where the
\* selector means the element, and everywhere there unless a child combinator
\* stands left of a descendant one.  As walk() asks, that is so of single
\* tags.  The declarations that come last are those of the rule that wins.
StyleExact ==
    /\ \A k \in DOMAIN rules :
          LET r == parse_selector(rules[k])
          IN  Len(rules[k]) <= 3 =>
                 /\ rule_matches(r, atContract) => means(rules[k])
                 /\ means(rules[k]) /\ ~childAbove(rules[k]) => rule_matches(r, atContract)
                 /\ Len(rules[k]) = 1 /\ ~rules[k][1].part.first =>
                       (rule_matches(r, atWalk) <=> means(rules[k]))
    /\ LET out == css_match
       IN  \A i, j \in DOMAIN out : i < j =>
              \/ spec(rules[out[i]]) < spec(rules[out[j]])
              \/ spec(rules[out[i]]) = spec(rules[out[j]]) /\ out[i] < out[j]

(***************************************************************************)
(* layout_engine.cpp: the walk over the tree puts runs on lines.  An       *)
(* element with children is an action on the way in and one on the way     *)
(* out.  Lengths are scaled down; a rule keeps more space below it than    *)
(* block_break asks for above.                                             *)
(***************************************************************************)
VARIABLES flow,              \* State: cx, cy, line_h, at_sol, pend_space, pending_margin, line_start_run
          runs,              \* [kind, x, y, w, h, lim] of the document
          styles,            \* Style stack: element, left, viewport, alignment, bottom margin
          due,               \* where the next run may start at the earliest
          ops                \* steps of the walk
wvars == <<flow, runs, styles, due, ops>>

st == Last(styles)
LineH == 1
RuleGap == 2
RuleBelow == 3
Indent == 2

FlowInit ==
    /\ flow = [x |-> 0, y |-> 0, lh |-> 0, sol |-> TRUE, pend |-> FALSE, margin |-> 0, start |-> 0]
    /\ runs = <<>> /\ due = 0 /\ ops = 0
    /\ styles = <<[el |-> "doc", left |-> 0, vw |-> ViewW, center |-> FALSE, below |-> 0]>>

\* Centring moves the runs of the line; a line that has none stays.
apply_line_align(f, rs, s) ==
    LET shift == (s.vw - s.left - (f.x - s.left)) \div 2
    IN  IF ~s.center \/ f.sol \/ shift <= 0 THEN rs
        ELSE [k \in DOMAIN rs |-> IF k > f.start THEN [rs[k] EXCEPT !.x = @ + shift] ELSE rs[k]]

\* A position and the runs: newline, and block_break with a margin.
newline(p, s) ==
    LET rs == apply_line_align(p.f, p.rs, s)
    IN  [f |-> [p.f EXCEPT !.y = @ + (IF p.f.lh > 0 THEN p.f.lh ELSE LineH), !.x = s.left, !.lh = 0,
                           !.sol = TRUE, !.pend = FALSE, !.start = Len(rs)],
         rs |-> rs]

block_break(p, s, m) ==
    LET q == IF p.f.sol THEN p ELSE newline(p, s)
        add == m - p.f.margin
    IN  [q EXCEPT !.f.y = IF add > 0 THEN @ + add ELSE @,
                  !.f.margin = IF add > 0 THEN m ELSE @, !.f.sol = TRUE, !.f.pend = FALSE]

here == [f |-> flow, rs |-> runs]
step == ops < MaxSteps /\ ops' = ops + 1

\* The margin m is owed to the text above: the end of the last run that is text.
owed(m) ==
    LET k == Len(runs)
    IN  IF k > 0 /\ runs[k].kind = "word" THEN Max({due, runs[k].y + runs[k].h + m}) ELSE due

\* Fault variant: a word goes to the next line only when it starts past the end.
wrapsLate(f, gap, w) == ~f.sol /\ f.x + gap > st.vw
wraps(f, gap, w) == ~f.sol /\ f.x + gap + w > st.vw

\* place_word, and the box of a form field.
place_word(w, h) ==
    LET gap == IF flow.pend /\ ~flow.sol THEN 1 ELSE 0
        p == IF wraps(flow, gap, w) THEN newline(here, st)
             ELSE [here EXCEPT !.f.x = @ + gap]
    IN  /\ step /\ Len(runs) < MaxRuns
        /\ runs' = Append(p.rs, [kind |-> "word", x |-> p.f.x, y |-> p.f.y, w |-> w, h |-> h, lim |-> st.vw])
        /\ flow' = [p.f EXCEPT !.x = @ + w, !.sol = FALSE, !.margin = 0, !.pend = FALSE,
                               !.lh = Max({@, h})]
        /\ UNCHANGED <<styles, due>>
Field(w) == place_word(Min({w, st.vw - st.left}), 2)

Space == step /\ ~flow.pend /\ flow' = [flow EXCEPT !.pend = TRUE] /\ UNCHANGED <<runs, styles, due>>

moveTo(p) == flow' = p.f /\ runs' = p.rs
Br == step /\ moveTo(newline(here, st)) /\ UNCHANGED <<styles, due>>
LeaveCell == step /\ flow' = [flow EXCEPT !.pend = TRUE, !.x = @ + 1] /\ UNCHANGED <<runs, styles, due>>

add_rule ==
    \E p \in {block_break(here, st, RuleGap)} :
        /\ step /\ Len(runs) < MaxRuns
        /\ runs' = Append(p.rs, [kind |-> "rule", x |-> st.left, y |-> p.f.y, w |-> st.vw - st.left,
                                 h |-> 1, lim |-> ViewW])
        /\ flow' = [p.f EXCEPT !.y = @ + 1 + RuleBelow, !.sol = TRUE]
        /\ due' = owed(RuleGap) /\ UNCHANGED styles

Image(w, h) ==
    \E p \in {IF flow.sol THEN here ELSE newline(here, st)} :
        /\ step /\ Len(runs) < MaxRuns
        /\ runs' = Append(p.rs, [kind |-> "image", x |-> st.left, y |-> p.f.y, w |-> w, h |-> h,
                                 lim |-> ViewW])
        /\ flow' = [p.f EXCEPT !.y = @ + h + 1, !.sol = TRUE, !.lh = 0, !.margin = 0]
        /\ UNCHANGED <<styles, due>>

push(s) == Len(styles) <= MaxOpen /\ styles' = Append(styles, s)
leave(el) == step /\ st.el = el /\ styles' = Front(styles)
outer == styles[Len(styles) - 1]

\* p and the headings.
EnterPara(m, center) ==
    LET s == [st EXCEPT !.el = "p", !.center = center, !.below = m]
    IN  step /\ push(s) /\ moveTo(block_break(here, s, m)) /\ due' = owed(m)
LeavePara == leave("p") /\ moveTo(block_break(here, st, st.below)) /\ due' = owed(st.below)

EnterQuote(m) ==
    LET s == [st EXCEPT !.el = "quote", !.left = @ + Indent, !.below = m]
    IN  step /\ push(s) /\ moveTo(block_break(here, s, m)) /\ due' = owed(m)
LeaveQuote == leave("quote") /\ moveTo(block_break(here, st, st.below)) /\ due' = owed(st.below)

\* Lists break outside of their style, items draw a bullet.
EnterList(m) ==
    /\ step /\ push([st EXCEPT !.el = "ul", !.left = @ + Indent, !.below = m])
    /\ moveTo(block_break(here, st, m)) /\ due' = owed(m)
LeaveList == leave("ul") /\ moveTo(block_break(here, outer, st.below)) /\ due' = owed(st.below)
EnterItem ==
    \E p \in {block_break(here, st, 1)} :
        /\ step /\ push([st EXCEPT !.el = "li"]) /\ Len(runs) < MaxRuns
        /\ runs' = Append(p.rs, [kind |-> "bullet", x |-> st.left, y |-> p.f.y, w |-> 1, h |-> LineH,
                                 lim |-> ViewW])
        /\ flow' = [p.f EXCEPT !.x = st.left + 1, !.sol = FALSE, !.lh = LineH]
        /\ due' = owed(1)
LeaveItem == leave("li") /\ moveTo(block_break(here, outer, 1)) /\ due' = owed(1)

\* Block containers: max-width narrows and centres, padding moves in.
EnterDiv(m, mw, pad) ==
    LET narrow == mw > 0 /\ mw < st.vw - st.left
        left == IF narrow THEN st.left + (st.vw - st.left - mw) \div 2 ELSE st.left
        s == [st EXCEPT !.el = "div", !.left = left, !.vw = IF narrow THEN left + mw ELSE @, !.below = m]
        p == block_break(here, s, m)
    IN  /\ step /\ push([s EXCEPT !.left = @ + pad]) /\ runs' = p.rs /\ due' = owed(m)
        /\ flow' = [p.f EXCEPT !.y = @ + pad, !.x = IF pad > 0 THEN left + pad ELSE @]
LeaveDiv ==
    \E p \in {IF flow.sol THEN here ELSE newline(here, st)} :
        /\ leave("div") /\ moveTo(block_break(p, st, st.below)) /\ due' = owed(st.below)

FlowNext ==
    \/ \E w \in Words : place_word(w, LineH) \/ Field(w) \/ Image(w, 2)
    \/ Space \/ Br \/ LeaveCell \/ add_rule
    \/ \E m \in Bounds :
          \/ EnterQuote(m) \/ EnterList(m) \/ \E center \in BOOLEAN : EnterPara(m, center)
          \/ \E mw \in {0, 4}, pad \in {0, 1} : EnterDiv(m, mw, pad)
    \/ EnterItem \/ LeavePara \/ LeaveQuote \/ LeaveList \/ LeaveItem \/ LeaveDiv

\* The layout of a page: runs on one line follow each other and do not
\* overlap, lines do not overlap either, a word that is not alone on its line
\* ends before the edge, the page is as high as its runs, and between a text
\* and the next block lies at least the larger of the margins (block_break).
FlowExact ==
    /\ \A i, j \in DOMAIN runs : i < j =>
          \/ runs[i].y = runs[j].y /\ runs[i].x + runs[i].w <= runs[j].x
          \/ runs[i].y + runs[i].h <= runs[j].y
    /\ \A i, j \in DOMAIN runs :
          i < j /\ runs[i].y = runs[j].y /\ runs[j].kind = "word" => runs[j].x + runs[j].w <= runs[j].lim
    /\ \A i \in DOMAIN runs : runs[i].y + runs[i].h <= flow.y + (IF flow.sol THEN 0 ELSE Max({flow.lh, LineH}))
    /\ flow.y >= due

(***************************************************************************)
(* layout_flex_container: items [w, h] measured one by one, then put in    *)
(* lines along the main axis.                                              *)
(***************************************************************************)
VARIABLES items, flex        \* the items; [row, wrap, justify] of the container
xvars == <<items, flex>>

FlexInit ==
    /\ items = <<>>
    /\ flex \in [row : BOOLEAN, wrap : BOOLEAN, justify : {"start", "center", "between", "around"}]
Measure(i) == Len(items) < MaxKids /\ items' = Append(items, i) /\ UNCHANGED flex

mainOf(i) == IF flex.row THEN items[i][1] ELSE items[i][2]
crossOf(i) == IF flex.row THEN items[i][2] ELSE items[i][1]
avail == IF flex.row THEN ViewW ELSE 32000

\* Lines as [from, to, main, cross]; the main size of a line is that of its
\* last item and the gap before it.
linesOf ==
    LET add(acc, i) ==
            LET line == Last(acc)
                need == IF line.main > 0 THEN mainOf(i) + Gap ELSE mainOf(i)
            IN  IF acc # <<>> /\ (~flex.wrap \/ line.main = 0 \/ need <= avail)
                THEN Front(acc) \o <<[line EXCEPT !.to = i, !.main = need, !.cross = Max({@, crossOf(i)})]>>
                ELSE Append(acc, [from |-> i, to |-> i, main |-> mainOf(i), cross |-> crossOf(i)])
    IN  FoldLeft(add, <<>>, [i \in DOMAIN items |-> i])

\* Fault variant: an item is followed by the gap alone.
stepOfGap(line, i, between) == between
stepOf(line, i, between) == mainOf(i) + between

\* Where item i starts on the main axis of its line.
mainPos(line, i) ==
    LET n == line.to - line.from + 1
        extra == Max({avail - line.main, 0})
        half == extra \div (n * 2)
        first == CASE flex.justify = "center" -> extra \div 2
                   [] flex.justify = "around" -> half
                   [] OTHER -> 0
        between == CASE flex.justify = "between" /\ n > 1 -> extra \div (n - 1)
                     [] flex.justify = "around" -> half * 2
                     [] OTHER -> Gap
    IN  FoldLeft(LAMBDA acc, k : acc + stepOf(line, k, between), first,
                 [k \in 1 .. i - line.from |-> line.from + k - 1])

\* Where line n starts on the cross axis.
crossStart(n) == FoldLeft(LAMBDA acc, k : acc + linesOf[k].cross + Gap, 0, [k \in 1 .. n - 1 |-> k])

FlexNext == \E i \in Kids : Measure(i)

\* layout_flex_container: items of one line follow each other, and a line
\* starts past all items of the one before it on the cross axis.
FlexApart ==
    \A n \in DOMAIN linesOf :
        LET line == linesOf[n]
        IN  /\ \A i \in line.from .. line.to - 1 : mainPos(line, i) + mainOf(i) <= mainPos(line, i + 1)
            /\ \A i \in line.from .. line.to : crossStart(n) + crossOf(i) <= crossStart(n + 1)
=============================================================================
